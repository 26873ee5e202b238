-------------------------- MODULE WalEngine_proofs --------------------------
(***************************************************************************)
(* Proofs about WalEngine, for every set of files, pages and words, every  *)
(* pool size and every bound: types, the inductive step of IInv, and the   *)
(* safety theorems it gives. The step is proved of CoreInv alone, which    *)
(* power loss keeps too; FileInv comes along. Then the engine implements   *)
(* TxnStore: under the mapping of WalRefines, and given IInv, initial      *)
(* states map to initial states of the store and each step maps to a step  *)
(* or a stutter. Last, WalPower: no power cut takes back what an           *)
(* acknowledged transaction wrote.                                         *)
(***************************************************************************)
EXTENDS WalRefines, WalPower, WellFoundedInduction, TLAPS

USE DEF NoTxn

\* A step that leaves words without a record as they are, if they were right.
FilesKept == FileInv => FileInv'

-----------------------------------------------------------------------------
(* Types *)

\* An image of part of one page is an image.
LEMMA ImageType ==
  ASSUME NEW p \in Pages, NEW r \in SUBSET CellsOf(p), r # {}, NEW m \in [r -> Values]
  PROVE  m \in Images /\ DOMAIN m = r
BY DEF Images, Regions

\* Overwriting contents with an image gives contents.
LEMMA OverwriteType ==
  ASSUME NEW m \in [Cells -> Values], NEW image \in Images
  PROVE  /\ Overwrite(m, image) \in [Cells -> Values]
         /\ \A c \in Cells : Overwrite(m, image)[c] = IF c \in DOMAIN image THEN image[c] ELSE m[c]
<1>1. \A c \in DOMAIN image : image[c] \in Values
  BY DEF Images
<1> QED BY <1>1 DEF Overwrite

\* An image covers cells of one page only.
LEMMA ImagePage ==
  ASSUME NEW image \in Images
  PROVE  \E p \in Pages : DOMAIN image # {} /\ \A c \in DOMAIN image : c \in Cells /\ PageOf[c] = p
BY DEF Images, Regions, CellsOf

\* The records the engine appends are records.
LEMMA RecordTypes ==
  /\ \A t \in Nat, b \in Images, a \in Images : PagePatch(t, b, a) \in Records
  /\ \A t \in Nat, f \in Files : DropFile(t, f) \in Records
  /\ \A t \in Nat : Commit(t) \in Records /\ Abort(t) \in Records
BY DEF Records, PagePatch, DropFile, Commit, Abort

\* Appending a record to a log.
LEMMA AppendLog ==
  ASSUME NEW w \in Seq(Records), NEW r \in Records
  PROVE  /\ Append(w, r) \in Seq(Records)
         /\ Len(Append(w, r)) = Len(w) + 1
         /\ Append(w, r)[Len(w) + 1] = r
         /\ \A i \in 1..Len(w) : Append(w, r)[i] = w[i]
OBVIOUS

\* The state of the engine keeps its types.
LEMMA TypeStep == ASSUME TypeOK, [Next]_vars PROVE TypeOK'
<1> USE ConstantsOK
<1>1. ASSUME NEW p \in Pages, Read(p) PROVE TypeOK'
  BY <1>1 DEF TypeOK, Read, Install, WriteBack, Victims, context
<1>2. ASSUME NEW p \in Pages, Allocate(p) PROVE TypeOK'
  BY <1>2 DEF TypeOK, Allocate, Install, WriteBack, Victims, context
<1>3. ASSUME NEW p \in Pages, CheckpointFlush(p) PROVE TypeOK'
  BY <1>3 DEF TypeOK, CheckpointFlush, WriteBack, context
<1>4. ASSUME NEW p \in Pages, NEW r \in SUBSET CellsOf(p), NEW after \in [r -> Values],
             Modify(p, after)
      PROVE  TypeOK'
  <2> DEFINE before == [c \in DOMAIN after |-> data[c]]
  <2>1. before \in [r -> Values]
    BY DEF TypeOK, CellsOf
  <2>2. before # after
    BY <1>4 DEF Modify
  <2>3. r # {}
    BY <2>1, <2>2
  <2>4. before \in Images /\ after \in Images /\ DOMAIN before = r /\ DOMAIN after = r
    BY <2>1, <2>3, ImageType
  <2>5. PagePatch(txn, before, after) \in Records
    BY <2>4, RecordTypes DEF TypeOK
  <2>6. wal' = Append(wal, PagePatch(txn, before, after))
    BY <1>4 DEF Modify
  <2>7. /\ wal' \in Seq(Records)
        /\ \A i \in 1..Len(wal') :
             wal'[i].op = "PagePatch" => DOMAIN wal'[i].before = DOMAIN wal'[i].after
        /\ Len(wal') = Len(wal) + 1
    BY <2>4, <2>5, <2>6, AppendLog DEF TypeOK, PagePatch
  <2>8. undo' \in Seq(Images)
    BY <1>4, <2>4 DEF TypeOK, Modify
  <2>9. data' \in [Cells -> Values]
    BY <1>4, <2>4, OverwriteType DEF TypeOK, Modify
  <2> QED BY <1>4, <2>7, <2>8, <2>9 DEF TypeOK, Modify
<1>5. ASSUME NEW p \in HeaderPages, NEW after \in [CellsOf(p) -> Values], InitTableFile(p, after)
      PROVE  TypeOK'
  <2> DEFINE zeros == [c \in CellsOf(p) |-> Zero]
  <2>1. zeros \in [CellsOf(p) -> Values] /\ zeros # after /\ p \in Pages
    BY <1>5 DEF InitTableFile
  <2>2. CellsOf(p) # {}
    BY <2>1
  <2>3. zeros \in Images /\ after \in Images /\ DOMAIN zeros = CellsOf(p) /\ DOMAIN after = CellsOf(p)
    BY <2>1, <2>2, ImageType
  <2>4. PagePatch(txn, zeros, after) \in Records
    BY <2>3, RecordTypes DEF TypeOK
  <2>5. wal' = Append(wal, PagePatch(txn, zeros, after))
    BY <1>5 DEF InitTableFile
  <2>6. /\ wal' \in Seq(Records)
        /\ \A i \in 1..Len(wal') :
             wal'[i].op = "PagePatch" => DOMAIN wal'[i].before = DOMAIN wal'[i].after
        /\ Len(wal') = Len(wal) + 1
    BY <2>3, <2>4, <2>5, AppendLog DEF TypeOK, PagePatch
  <2>7. undo' \in Seq(Images)
    BY <1>5, <2>3 DEF TypeOK, InitTableFile
  <2>8. Overwrite(disk, after) \in [Cells -> Values]
    BY <2>3, OverwriteType DEF TypeOK
  <2>9. /\ data' \in [Cells -> Values] /\ disk' \in [Cells -> Values]
        /\ dirty' \subseteq cached' /\ cached' \subseteq Pages
    BY <1>5, <2>1, <2>8, <2>3 DEF TypeOK, InitTableFile, Install, Victims, CellsOf
  <2> QED BY <1>5, <2>6, <2>7, <2>9 DEF TypeOK, InitTableFile
<1>6. ASSUME NEW f \in Files, RemoveTableFile(f) PROVE TypeOK'
  <2>1. DropFile(txn, f) \in Records
    BY RecordTypes DEF TypeOK
  <2>2. /\ wal' \in Seq(Records)
        /\ \A i \in 1..Len(wal') :
             wal'[i].op = "PagePatch" => DOMAIN wal'[i].before = DOMAIN wal'[i].after
        /\ Len(wal') = Len(wal) + 1
    BY <1>6, <2>1, AppendLog DEF TypeOK, DropFile, RemoveTableFile
  <2> QED BY <1>6, <2>2 DEF TypeOK, RemoveTableFile, WriteBack
<1>7. ASSUME NEW f \in Files, Unlink(f) PROVE TypeOK'
  BY <1>7 DEF TypeOK, Unlink, pool, InFile, Modes
<1>8. CASE BeginTxn
  BY <1>8 DEF TypeOK, BeginTxn, pool
<1>9. CASE CommitTxn
  <2>1. Commit(txn) \in Records
    BY RecordTypes DEF TypeOK
  <2>2. /\ wal' \in Seq(Records)
        /\ \A i \in 1..Len(wal') :
             wal'[i].op = "PagePatch" => DOMAIN wal'[i].before = DOMAIN wal'[i].after
        /\ Len(wal') \in Nat /\ Len(wal') >= Len(wal)
    BY <1>9, <2>1, AppendLog DEF TypeOK, CommitTxn, Commit
  <2>3. wrote' \in BOOLEAN
    BY <1>9 DEF CommitTxn
  <2> QED BY <1>9, <2>2, <2>3 DEF TypeOK, CommitTxn, pool, View, Modes
<1>10. CASE RollbackTxn
  BY <1>10 DEF TypeOK, RollbackTxn, pool, context, Modes
<1>11. CASE RestoreRegion
  <2> DEFINE before == undo[Len(undo)]
  <2>1. before \in Images /\ undo' \in Seq(Images)
    BY <1>11 DEF TypeOK, RestoreRegion
  <2>2. Overwrite(data, before) \in [Cells -> Values] /\ Overwrite(disk, before) \in [Cells -> Values]
    BY <2>1, OverwriteType DEF TypeOK
  <2> QED BY <1>11, <2>1, <2>2 DEF TypeOK, RestoreRegion
<1>12. CASE FinishRollback
  <2>1. Abort(txn) \in Records
    BY RecordTypes DEF TypeOK
  <2>2. /\ wal' \in Seq(Records)
        /\ \A i \in 1..Len(wal') :
             wal'[i].op = "PagePatch" => DOMAIN wal'[i].before = DOMAIN wal'[i].after
        /\ Len(wal') \in Nat /\ Len(wal') >= Len(wal)
    BY <1>12, <2>1, AppendLog DEF TypeOK, FinishRollback, Abort
  <2>3. wrote' \in BOOLEAN
    BY <1>12 DEF FinishRollback
  <2> QED BY <1>12, <2>2, <2>3 DEF TypeOK, FinishRollback, pool, Modes
<1>13. CASE Checkpoint
  BY <1>13 DEF TypeOK, Checkpoint, pool, context, Modes
<1>14. CASE CheckpointReset
  BY <1>14 DEF TypeOK, CheckpointReset, context, Modes
<1>15. CASE Open
  BY <1>15 DEF TypeOK, Open, pool, context, Modes
<1>16. CASE RedoRecord
  <2>1. wal[ri] \in Records
    BY <1>16 DEF TypeOK, RedoRecord
  <2>2. \A c \in Cells : Patches(wal[ri], c) => wal[ri].after[c] \in Values
    BY <2>1 DEF Records, Images, Patches
  <2> QED BY <1>16, <2>2 DEF TypeOK, RedoRecord, pool, context, Modes
<1>17. CASE RedoDone
  BY <1>17 DEF TypeOK, RedoDone, pool, context, Modes
<1>18. CASE UndoRecord
  <2>1. wal[ri] \in Records /\ (wal[ri].op = "PagePatch" => DOMAIN wal[ri].before = DOMAIN wal[ri].after)
    BY <1>18 DEF TypeOK, UndoRecord
  <2>2. \A c \in Cells : Patches(wal[ri], c) => wal[ri].before[c] \in Values
    BY <2>1 DEF Records, Images, Patches
  <2> QED BY <1>18, <2>2 DEF TypeOK, UndoRecord, pool, context, Modes
<1>19. CASE RecoverDone
  BY <1>19 DEF TypeOK, RecoverDone, pool, context, Modes
<1>20. CASE Crash
  <2>1. wrote' \in BOOLEAN
    BY <1>20 DEF Crash
  <2> QED BY <1>20, <2>1 DEF TypeOK, Crash, Modes
<1>21. CASE UNCHANGED vars
  BY <1>21 DEF TypeOK, vars
<1> QED BY <1>1, <1>2, <1>3, <1>4, <1>5, <1>6, <1>7, <1>8, <1>9, <1>10, <1>11, <1>12, <1>13,
           <1>14, <1>15, <1>16, <1>17, <1>18, <1>19, <1>20, <1>21 DEF Next, Step

\* The engine's state has its declared types: a theorem of the specification.
THEOREM TypeCorrect == Spec => []TypeOK
<1>1. Init => TypeOK
  <2> SUFFICES ASSUME Init PROVE TypeOK
    OBVIOUS
  <2>1. wrote \in BOOLEAN
    BY DEF Init
  <2> QED BY <2>1, ConstantsOK DEF Init, TypeOK, Modes
<1>2. TypeOK /\ [Next]_vars => TypeOK'
  BY TypeStep
<1> QED BY <1>1, <1>2, PTL DEF Spec

-----------------------------------------------------------------------------
(* Logs *)

\* A patch or a drop changes no transaction's fate and no earlier record's role.
LEMMA AppendWrite ==
  ASSUME NEW w \in Seq(Records), NEW r \in Records, r.op \in {"PagePatch", "DropFile"},
         NEW v, v = Append(w, r)
  PROVE  /\ \A t \in Nat :
              /\ Committed(v, t) <=> Committed(w, t)
              /\ Aborted(v, t) <=> Aborted(w, t)
              /\ InFlight(v, t) <=> InFlight(w, t)
         /\ \A i \in 1..Len(w), c \in Cells :
              /\ Redoes(v, i, c) <=> Redoes(w, i, c)
              /\ Undoes(v, i, c) <=> Undoes(w, i, c)
<1>1. /\ Len(v) = Len(w) + 1 /\ v[Len(w) + 1] = r
      /\ \A i \in 1..Len(w) : v[i] = w[i]
  BY AppendLog
<1>2. Len(w) \in Nat
  OBVIOUS
<1>3. \A t \in Nat : r # Commit(t) /\ r # Abort(t)
  BY DEF Commit, Abort
<1>4. \A t \in Nat : (Committed(v, t) <=> Committed(w, t)) /\ (Aborted(v, t) <=> Aborted(w, t))
  BY <1>1, <1>2, <1>3 DEF Committed, Aborted
<1>5. \A i \in 1..Len(w) : w[i].txn \in Nat
  BY DEF Records
<1>6. \A t \in Nat : InFlight(v, t) <=> InFlight(w, t)
  BY <1>4 DEF InFlight
<1>7. ASSUME NEW i \in 1..Len(w), NEW c \in Cells
      PROVE  (Redoes(v, i, c) <=> Redoes(w, i, c)) /\ (Undoes(v, i, c) <=> Undoes(w, i, c))
  <2>1. v[i] = w[i] /\ w[i].txn \in Nat
    BY <1>1, <1>5
  <2> QED BY <2>1, <1>4, <1>6 DEF Redoes, Undoes
<1> QED BY <1>4, <1>6, <1>7

\* Appending the Commit or the Abort of the only transaction in flight.
LEMMA AppendEnd ==
  ASSUME NEW w \in Seq(Records), NEW t \in Nat, InFlight(w, t),
         \A i \in 1..Len(w) : InFlight(w, w[i].txn) => w[i].txn = t,
         NEW v, v \in {Append(w, Commit(t)), Append(w, Abort(t))}
  PROVE  /\ Len(v) = Len(w) + 1
         /\ \A i \in 1..Len(w) : v[i] = w[i]
         /\ \A c \in Cells : ~Patches(v[Len(v)], c) /\ ~Drops(v[Len(v)], c)
         /\ v[Len(v)].txn = t
         /\ \A i \in 1..Len(v) : ~InFlight(v, v[i].txn)
         /\ \A i \in 1..Len(v), c \in Cells : ~Undoes(v, i, c)
         /\ v = Append(w, Abort(t)) =>
              \A i \in 1..Len(w), c \in Cells : Redoes(v, i, c) <=> Redoes(w, i, c)
         /\ v = Append(w, Commit(t)) =>
              \A i \in 1..Len(w), c \in Cells :
                 Redoes(v, i, c) <=> (Redoes(w, i, c) \/
                   (w[i].txn = t /\ (Patches(w[i], c) \/ Drops(w[i], c))))
<1>0. Len(w) \in Nat /\ \A i \in 1..Len(w) : w[i].txn \in Nat
  BY DEF Records
<1>1. /\ Len(v) = Len(w) + 1
      /\ \A i \in 1..Len(w) : v[i] = w[i]
      /\ v = Append(w, Commit(t)) => v[Len(w) + 1] = Commit(t)
      /\ v = Append(w, Abort(t)) => v[Len(w) + 1] = Abort(t)
  BY AppendLog, RecordTypes
<1>2. v[Len(v)].txn = t /\ v[Len(v)].op \in {"Commit", "Abort"}
  BY <1>1 DEF Commit, Abort
<1>3. ASSUME NEW u \in Nat
      PROVE  /\ v = Append(w, Commit(t)) =>
                  (Committed(v, u) <=> (Committed(w, u) \/ u = t)) /\ (Aborted(v, u) <=> Aborted(w, u))
             /\ v = Append(w, Abort(t)) =>
                  (Committed(v, u) <=> Committed(w, u)) /\ (Aborted(v, u) <=> (Aborted(w, u) \/ u = t))
  <2>1. /\ Commit(t).op = "Commit" /\ Commit(t).txn = t
        /\ Abort(t).op = "Abort" /\ Abort(t).txn = t
    BY DEF Commit, Abort
  <2> QED BY <1>0, <1>1, <2>1, SMTT(30) DEF Committed, Aborted
<1>4. ASSUME NEW i \in 1..Len(v) PROVE ~InFlight(v, v[i].txn)
  <2>1. ~InFlight(v, t)
    BY <1>3 DEF InFlight
  <2>2. CASE i = Len(v)
    BY <1>2, <2>1, <2>2
  <2>3. CASE i # Len(v)
    <3>1. i \in 1..Len(w) /\ v[i] = w[i] /\ w[i].txn \in Nat
      BY <1>0, <1>1, <2>3
    <3>2. w[i].txn = t \/ Committed(w, w[i].txn) \/ Aborted(w, w[i].txn)
      BY <3>1 DEF InFlight
    <3> QED BY <1>3, <2>1, <3>1, <3>2 DEF InFlight
  <2> QED BY <2>2, <2>3
<1>5. \A i \in 1..Len(v), c \in Cells : ~Undoes(v, i, c)
  BY <1>4 DEF Undoes
<1>6. \A c \in Cells : ~Patches(v[Len(v)], c) /\ ~Drops(v[Len(v)], c)
  BY <1>2 DEF Patches, Drops
<1>7. ASSUME NEW i \in 1..Len(w), NEW c \in Cells
      PROVE  /\ v = Append(w, Abort(t)) => (Redoes(v, i, c) <=> Redoes(w, i, c))
             /\ v = Append(w, Commit(t)) =>
                  (Redoes(v, i, c) <=> (Redoes(w, i, c) \/
                     (w[i].txn = t /\ (Patches(w[i], c) \/ Drops(w[i], c)))))
  <2>1. v[i] = w[i] /\ w[i].txn \in Nat
    BY <1>0, <1>1
  <2> QED BY <2>1, <1>3 DEF Redoes
<1> QED BY <1>1, <1>2, <1>4, <1>5, <1>6, <1>7

-----------------------------------------------------------------------------
(* Steps that only move pages between the pool and the files *)

\* A move that changes no reader's view, and leaves in a file either what was
\* there or what readers see, keeps the log's account of the files.
LEMMA PoolMove ==
  ASSUME CoreInv, mode \in {"up", "ckpt", "close"},
         UNCHANGED <<wal, undo, pending, mode, committed>>,
         \A c \in Cells : View(c)' = View(c) /\ disk'[c] \in {disk[c], View(c)}
  PROVE  LogInv' /\ FilesKept /\ ViewInv' /\ RedoInv' /\ UndoInv'
<1>1. ASSUME NEW c \in Cells, ~AnyPatch(wal, c) PROVE View(c) = committed[c]
  <2>1. ~AnyUndo(wal, c, 1)
    BY <1>1 DEF AnyPatch, AnyUndo, Undoes
  <2> QED BY <2>1 DEF CoreInv, ViewInv
<1>2. LogInv' /\ FilesKept
  BY <1>1 DEF CoreInv, LogInv, FileInv, FilesKept
<1>3. ViewInv'
  BY DEF CoreInv, ViewInv
<1> QED BY <1>2, <1>3 DEF RedoInv, UndoInv

\* What readers see, and the frames, across an eviction or a load.
LEMMA ReadMoves ==
  ASSUME CoreInv, NEW p \in Pages, Read(p) \/ Allocate(p) \/ CheckpointFlush(p)
  PROVE  /\ \A c \in Cells : View(c)' = View(c) /\ disk'[c] \in {disk[c], View(c)}
         /\ FrameInv'
<1> USE ConstantsOK
<1>1. CASE Read(p)
  <2>1. \A c \in Cells : View(c)' = View(c) /\ disk'[c] \in {disk[c], View(c)}
    BY <1>1 DEF CoreInv, TypeOK, FrameInv, Read, Install, WriteBack, Victims, View
  <2>2. \A c \in Cells : PageOf[c] \in cached' \ dirty' => data'[c] = disk'[c]
    BY <1>1 DEF CoreInv, TypeOK, FrameInv, Read, Install, WriteBack, Victims
  <2>3. \A q \in cached' : FileOf[q] \notin pending'
    BY <1>1 DEF CoreInv, FrameInv, Read, Install, context
  <2> QED BY <2>1, <2>2, <2>3 DEF FrameInv
<1>2. CASE Allocate(p)
  <2>1. \A c \in Cells : View(c)' = View(c) /\ disk'[c] \in {disk[c], View(c)}
    BY <1>2 DEF CoreInv, TypeOK, FrameInv, Allocate, Install, WriteBack, Victims, View, CellsOf
  <2>2. \A c \in Cells : PageOf[c] \in cached' \ dirty' => data'[c] = disk'[c]
    BY <1>2 DEF CoreInv, TypeOK, FrameInv, Allocate, Install, WriteBack, Victims
  <2>3. \A q \in cached' : FileOf[q] \notin pending'
    BY <1>2 DEF CoreInv, FrameInv, Allocate, Install, context
  <2> QED BY <2>1, <2>2, <2>3 DEF FrameInv
<1>3. CASE CheckpointFlush(p)
  <2>1. \A c \in Cells : View(c)' = View(c) /\ disk'[c] \in {disk[c], View(c)}
    BY <1>3 DEF CoreInv, TypeOK, FrameInv, CheckpointFlush, WriteBack, View
  <2>2. \A c \in Cells : PageOf[c] \in cached' \ dirty' => data'[c] = disk'[c]
    BY <1>3 DEF CoreInv, TypeOK, FrameInv, CheckpointFlush, WriteBack
  <2>3. \A q \in cached' : FileOf[q] \notin pending'
    BY <1>3 DEF CoreInv, FrameInv, CheckpointFlush, context
  <2> QED BY <2>1, <2>2, <2>3 DEF FrameInv
<1> QED BY <1>1, <1>2, <1>3

\* Loads, allocations and checkpoint flushes keep the invariant.
LEMMA MoveStep ==
  ASSUME CoreInv, NEW p \in Pages, Read(p) \/ Allocate(p) \/ CheckpointFlush(p), TypeOK'
  PROVE  CoreInv' /\ FilesKept
<1>1. /\ UNCHANGED <<wal, undo, pending, mode, committed, nextTxn, txn, wrote>>
      /\ mode \in {"up", "ckpt", "close"}
  BY DEF Read, Allocate, CheckpointFlush, context
<1>2. IdleInv' /\ TxnInv' /\ PendingInv'
  BY <1>1 DEF CoreInv, IdleInv, TxnInv, PendingInv, Running
<1>3. FrameInv' /\ \A c \in Cells : View(c)' = View(c) /\ disk'[c] \in {disk[c], View(c)}
  BY ReadMoves
<1>4. LogInv' /\ FilesKept /\ ViewInv' /\ RedoInv' /\ UndoInv'
  BY <1>1, <1>3, PoolMove
<1> QED BY <1>2, <1>3, <1>4 DEF CoreInv

-----------------------------------------------------------------------------
(* Steps that append a patch or a drop *)

\* A patch whose before image is what readers see, and whose after image is
\* what they see next.
LEMMA PatchStep ==
  ASSUME CoreInv, mode = "up", txn # NoTxn,
         NEW p \in Pages, FileOf[p] \notin pending,
         NEW before \in Images, NEW after \in Images, DOMAIN before = DOMAIN after,
         \A c \in DOMAIN after : PageOf[c] = p,
         wal' = Append(wal, PagePatch(txn, before, after)),
         undo' = Append(undo, before),
         wrote' = TRUE,
         UNCHANGED <<nextTxn, txn, pending, mode, committed>>,
         \A c \in DOMAIN before : before[c] = View(c),
         \A c \in Cells : View(c)' = IF c \in DOMAIN after THEN after[c] ELSE View(c),
         \A c \in Cells : c \in DOMAIN after \/ disk'[c] \in {disk[c], View(c)}
  PROVE  IdleInv' /\ TxnInv' /\ PendingInv' /\ LogInv' /\ FilesKept /\ ViewInv' /\ RedoInv' /\ UndoInv'
<1> DEFINE r == PagePatch(txn, before, after)
           n == Len(wal) + 1
<1>1. /\ wal \in Seq(Records) /\ Len(wal) \in Nat /\ txn \in Nat /\ r \in Records
      /\ undo \in Seq(Images) /\ Len(undo) \in Nat
  BY RecordTypes DEF CoreInv, TypeOK
<1>2. /\ Len(wal') = n /\ wal'[n] = r
      /\ \A i \in 1..Len(wal) : wal'[i] = wal[i]
      /\ \A i \in 1..Len(wal') : i \in 1..Len(wal) \/ i = n
  BY <1>1, AppendLog
<1>3. /\ r.op = "PagePatch" /\ r.txn = txn /\ r.before = before /\ r.after = after
      /\ \A c : Patches(r, c) <=> c \in DOMAIN after
      /\ \A c : ~Drops(r, c)
  BY DEF PagePatch, Patches, Drops
<1>4. /\ \A t \in Nat : InFlight(wal', t) <=> InFlight(wal, t)
      /\ \A t \in Nat : Committed(wal', t) <=> Committed(wal, t)
      /\ \A i \in 1..Len(wal), c \in Cells : Redoes(wal', i, c) <=> Redoes(wal, i, c)
      /\ \A i \in 1..Len(wal), c \in Cells : Undoes(wal', i, c) <=> Undoes(wal, i, c)
  BY <1>1, <1>3, AppendWrite
<1>5. InFlight(wal, txn) /\ InFlight(wal', txn) /\ ~Committed(wal', txn)
  BY <1>1, <1>4 DEF CoreInv, TxnInv, Running, InFlight
<1>6. \A c \in Cells : ~Redoes(wal', n, c) /\ (Undoes(wal', n, c) <=> c \in DOMAIN after)
  BY <1>2, <1>3, <1>5 DEF Redoes, Undoes
<1>7. /\ Len(undo') = Len(undo) + 1 /\ undo'[Len(undo) + 1] = before
      /\ \A k \in 1..Len(undo) : undo'[k] = undo[k]
  BY <1>1
<1>8. IdleInv'
  BY DEF CoreInv, IdleInv, Running
<1>9. TxnInv'
  <2>1. \A i \in 1..Len(wal) : wal[i].txn \in Nat
    BY <1>1 DEF Records
  <2>2. /\ txn' < nextTxn' /\ \A i \in 1..Len(wal') : wal'[i].txn < nextTxn'
        /\ InFlight(wal', txn')
    BY <1>1, <1>2, <1>3, <1>5 DEF CoreInv, TxnInv, Running
  <2>3. ASSUME NEW i \in 1..Len(wal'), InFlight(wal', wal'[i].txn)
        PROVE  wal'[i].txn = txn /\ \A j \in i..Len(wal') : wal'[j].txn = txn
    BY <1>1, <1>2, <1>3, <1>4, <2>1, <2>3 DEF CoreInv, TxnInv, Running
  <2> QED BY <2>2, <2>3 DEF TxnInv
<1>10. PendingInv'
  <2>1. ASSUME NEW f \in pending
        PROVE  \E i \in 1..Len(wal') :
                 /\ wal'[i] = DropFile(txn, f)
                 /\ \A j \in 1..Len(wal') : j > i =>
                      \A c \in Cells : InFile(c, f) => ~Patches(wal'[j], c) /\ ~Drops(wal'[j], c)
    <3>1. PICK i \in 1..Len(wal) :
            /\ wal[i] = DropFile(txn, f)
            /\ \A j \in 1..Len(wal) : j > i =>
                 \A c \in Cells : InFile(c, f) => ~Patches(wal[j], c) /\ ~Drops(wal[j], c)
      BY DEF CoreInv, PendingInv
    <3>2. \A c \in Cells : InFile(c, f) => ~Patches(wal'[n], c) /\ ~Drops(wal'[n], c)
      BY <1>2, <1>3 DEF InFile
    <3>3. i \in 1..Len(wal') /\ wal'[i] = DropFile(txn, f)
      BY <1>1, <1>2, <3>1
    <3>4. ASSUME NEW j \in 1..Len(wal'), j > i, NEW c \in Cells, InFile(c, f)
          PROVE  ~Patches(wal'[j], c) /\ ~Drops(wal'[j], c)
      BY <1>1, <1>2, <3>1, <3>2, <3>4
    <3> QED BY <3>3, <3>4
  <2>2. \A i \in 1..Len(wal) : wal[i].txn \in Nat
    BY <1>1 DEF Records
  <2>3. ASSUME NEW i \in 1..Len(wal'), wal'[i].op = "DropFile", InFlight(wal', wal'[i].txn)
        PROVE  wal'[i].file \in pending
    BY <1>1, <1>2, <1>3, <1>4, <2>2, <2>3 DEF CoreInv, PendingInv
  <2> QED BY <2>1, <2>3 DEF PendingInv
<1>11. ASSUME NEW c \in Cells, ~AnyUndo(wal, c, 1) PROVE View(c) = committed[c] /\ ~AnySaved(undo, c)
  BY <1>11 DEF CoreInv, ViewInv
<1>12. ASSUME NEW c \in Cells PROVE AnyRedo(wal', c, Len(wal')) <=> AnyRedo(wal, c, Len(wal))
  BY <1>1, <1>2, <1>4, <1>6 DEF AnyRedo
<1>13. ASSUME NEW c \in Cells
       PROVE  AnyUndo(wal', c, 1) <=> (AnyUndo(wal, c, 1) \/ c \in DOMAIN after)
  BY <1>1, <1>2, <1>4, <1>6 DEF AnyUndo
<1>14. LogInv' /\ FilesKept
  <2> SUFFICES ASSUME NEW c \in Cells
               PROVE  /\ AnyRedo(wal', c, Len(wal')) =>
                           \E i \in 1..Len(wal') : LastRedo(wal', i, c, Len(wal')) /\ Image(wal'[i], c) = committed[c]
                      /\ AnyUndo(wal', c, 1) =>
                           \E i \in 1..Len(wal') : FirstUndo(wal', i, c, 1) /\ wal'[i].before[c] = committed[c]
                      /\ FileInv /\ ~AnyRedo(wal', c, Len(wal')) /\ ~AnyPatch(wal', c) => disk'[c] = committed[c]
    BY DEF LogInv, FileInv, FilesKept
  <2>1. ASSUME AnyRedo(wal', c, Len(wal'))
        PROVE  \E i \in 1..Len(wal') : LastRedo(wal', i, c, Len(wal')) /\ Image(wal'[i], c) = committed[c]
    <3>1. PICK i \in 1..Len(wal) : LastRedo(wal, i, c, Len(wal)) /\ Image(wal[i], c) = committed[c]
      BY <2>1, <1>12 DEF CoreInv, LogInv, FileInv, FilesKept
    <3>2. LastRedo(wal', i, c, Len(wal'))
      BY <1>1, <1>2, <1>4, <1>6, <3>1 DEF LastRedo
    <3> QED BY <1>1, <1>2, <3>1, <3>2
  <2>2. ASSUME AnyUndo(wal', c, 1)
        PROVE  \E i \in 1..Len(wal') : FirstUndo(wal', i, c, 1) /\ wal'[i].before[c] = committed[c]
    <3>1. CASE AnyUndo(wal, c, 1)
      <4>1. PICK i \in 1..Len(wal) : FirstUndo(wal, i, c, 1) /\ wal[i].before[c] = committed[c]
        BY <3>1 DEF CoreInv, LogInv, FileInv, FilesKept
      <4>2. FirstUndo(wal', i, c, 1)
        <5>1. i \in 1..Len(wal') /\ Undoes(wal', i, c)
          BY <1>1, <1>2, <1>4, <4>1 DEF FirstUndo
        <5>2. ASSUME NEW j \in 1..Len(wal'), j < i PROVE ~Undoes(wal', j, c)
          <6>1. j \in 1..Len(wal)
            BY <1>1, <5>2
          <6> QED BY <1>4, <4>1, <5>2, <6>1 DEF FirstUndo
        <5> QED BY <5>1, <5>2 DEF FirstUndo
      <4> QED BY <1>1, <1>2, <4>1, <4>2
    <3>2. CASE ~AnyUndo(wal, c, 1)
      <4>1. c \in DOMAIN after /\ before[c] = committed[c]
        BY <1>11, <1>13, <2>2, <3>2
      <4>2. FirstUndo(wal', n, c, 1)
        BY <1>1, <1>2, <1>4, <1>6, <3>2, <4>1 DEF FirstUndo, AnyUndo
      <4> QED BY <1>1, <1>2, <1>3, <4>1, <4>2
    <3> QED BY <3>1, <3>2
  <2>3. ASSUME FileInv, ~AnyRedo(wal', c, Len(wal')), ~AnyPatch(wal', c) PROVE disk'[c] = committed[c]
    <3>1. c \notin DOMAIN after /\ ~AnyPatch(wal, c)
      <4>1. n \in 1..Len(wal') /\ \A i \in 1..Len(wal) : i \in 1..Len(wal')
        BY <1>1, <1>2
      <4>2. c \notin DOMAIN after
        BY <1>2, <1>3, <2>3, <4>1 DEF AnyPatch
      <4> QED BY <1>2, <2>3, <4>1, <4>2 DEF AnyPatch
    <3>2. disk[c] = committed[c]
      BY <1>12, <2>3, <3>1 DEF CoreInv, LogInv, FileInv, FilesKept
    <3>3. View(c) = committed[c]
      BY <1>11, <3>1 DEF AnyPatch, AnyUndo, Undoes
    <3> QED BY <3>1, <3>2, <3>3
  <2> QED BY <2>1, <2>2, <2>3
<1>15. ViewInv'
  <2> SUFFICES ASSUME NEW c \in Cells
               PROVE  /\ ~AnySaved(undo', c) => View(c)' = committed[c]
                      /\ AnySaved(undo', c) => AnyUndo(wal', c, 1)
                      /\ AnySaved(undo', c) =>
                           \E k \in 1..Len(undo') : FirstSaved(undo', k, c) /\ undo'[k][c] = committed[c]
                      /\ AnyUndo(wal', c, 1) => AnySaved(undo', c)
                      /\ AnyUndo(wal', c, 1) =>
                           \E i \in 1..Len(wal') : LastUndo(wal', i, c) /\ wal'[i].after[c] = View(c)'
    BY DEF ViewInv
  <2>1. AnySaved(undo', c) <=> (AnySaved(undo, c) \/ c \in DOMAIN after)
    <3>1. /\ Len(undo) + 1 \in 1..Len(undo')
          /\ \A k \in 1..Len(undo) : k \in 1..Len(undo')
          /\ \A k \in 1..Len(undo') : k \in 1..Len(undo) \/ k = Len(undo) + 1
      BY <1>1, <1>7
    <3>2. \A k \in 1..Len(undo) : Saved(undo', k, c) <=> Saved(undo, k, c)
      BY <1>7 DEF Saved
    <3>3. Saved(undo', Len(undo) + 1, c) <=> c \in DOMAIN after
      BY <1>7 DEF Saved
    <3> QED BY <3>1, <3>2, <3>3 DEF AnySaved
  <2>2. AnySaved(undo, c) <=> AnyUndo(wal, c, 1)
    BY DEF CoreInv, ViewInv
  <2>3. ASSUME ~AnySaved(undo', c) PROVE View(c)' = committed[c]
    BY <1>11, <2>1, <2>2, <2>3
  <2>4. ASSUME AnySaved(undo', c)
        PROVE  \E k \in 1..Len(undo') : FirstSaved(undo', k, c) /\ undo'[k][c] = committed[c]
    <3>1. CASE AnySaved(undo, c)
      <4>1. PICK k \in 1..Len(undo) : FirstSaved(undo, k, c) /\ undo[k][c] = committed[c]
        BY <3>1 DEF CoreInv, ViewInv
      <4>2. FirstSaved(undo', k, c)
        BY <1>1, <1>7, <4>1 DEF FirstSaved, Saved
      <4> QED BY <1>1, <1>7, <4>1, <4>2
    <3>2. CASE ~AnySaved(undo, c)
      <4>1. c \in DOMAIN before /\ before[c] = committed[c]
        BY <1>11, <2>1, <2>2, <2>4, <3>2
      <4>2. FirstSaved(undo', Len(undo) + 1, c)
        BY <1>1, <1>7, <3>2, <4>1 DEF FirstSaved, Saved, AnySaved
      <4> QED BY <1>1, <1>7, <4>1, <4>2
    <3> QED BY <3>1, <3>2
  <2>5. ASSUME AnyUndo(wal', c, 1)
        PROVE  \E i \in 1..Len(wal') : LastUndo(wal', i, c) /\ wal'[i].after[c] = View(c)'
    <3>1. CASE c \in DOMAIN after
      <4>1. LastUndo(wal', n, c)
        BY <1>1, <1>2, <1>6, <3>1 DEF LastUndo
      <4> QED BY <1>1, <1>2, <1>3, <3>1, <4>1
    <3>2. CASE c \notin DOMAIN after
      <4>1. PICK i \in 1..Len(wal) : LastUndo(wal, i, c) /\ wal[i].after[c] = View(c)
        BY <1>13, <2>5, <3>2 DEF CoreInv, ViewInv
      <4>2. LastUndo(wal', i, c)
        <5>1. i \in 1..Len(wal') /\ Undoes(wal', i, c)
          BY <1>1, <1>2, <1>4, <4>1 DEF LastUndo
        <5>2. ASSUME NEW j \in 1..Len(wal'), j > i PROVE ~Undoes(wal', j, c)
          <6>1. j \in 1..Len(wal) \/ j = n
            BY <1>2
          <6>2. CASE j = n
            BY <1>6, <3>2, <6>2
          <6>3. CASE j \in 1..Len(wal)
            BY <1>4, <4>1, <5>2, <6>3 DEF LastUndo
          <6> QED BY <6>1, <6>2, <6>3
        <5> QED BY <5>1, <5>2 DEF LastUndo
      <4> QED BY <1>1, <1>2, <3>2, <4>1, <4>2
    <3> QED BY <3>1, <3>2
  <2> QED BY <1>13, <2>1, <2>2, <2>3, <2>4, <2>5
<1>16. RedoInv' /\ UndoInv'
  BY DEF RedoInv, UndoInv
<1> QED BY <1>8, <1>9, <1>10, <1>14, <1>15, <1>16

\* An in-place change, or a new table file, keeps the invariant.
LEMMA ModifyStep ==
  ASSUME CoreInv, TypeOK', NEW p \in Pages, NEW r \in SUBSET CellsOf(p), NEW after \in [r -> Values],
         Modify(p, after)
  PROVE  CoreInv' /\ FilesKept
<1> DEFINE before == [c \in DOMAIN after |-> data[c]]
<1>1. before \in [r -> Values] /\ before # after
  BY DEF CoreInv, TypeOK, CellsOf, Modify
<1>2. r # {}
  BY <1>1
<1>3. before \in Images /\ after \in Images /\ DOMAIN before = r /\ DOMAIN after = r
  BY <1>1, <1>2, ImageType
<1>4. \A c \in Cells : data'[c] = IF c \in DOMAIN after THEN after[c] ELSE data[c]
  BY <1>3, OverwriteType DEF CoreInv, TypeOK, Modify
<1>5. \A c \in r : c \in Cells /\ PageOf[c] = p
  BY DEF CellsOf
<1>6. p \in cached /\ UNCHANGED <<cached, disk, nextTxn, txn, pending, mode, committed>>
  BY DEF Modify
<1>7. \A c \in DOMAIN before : before[c] = View(c)
  BY <1>3, <1>5, <1>6 DEF View
<1>8. \A c \in Cells : View(c)' = IF c \in DOMAIN after THEN after[c] ELSE View(c)
  BY <1>3, <1>4, <1>5, <1>6 DEF View
<1>9. /\ mode = "up" /\ txn # NoTxn /\ FileOf[p] \notin pending /\ wrote' = TRUE
      /\ wal' = Append(wal, PagePatch(txn, before, after)) /\ undo' = Append(undo, before)
  BY DEF Modify
<1>10. IdleInv' /\ TxnInv' /\ PendingInv' /\ LogInv' /\ FilesKept /\ ViewInv' /\ RedoInv' /\ UndoInv'
  BY <1>3, <1>5, <1>6, <1>7, <1>8, <1>9, PatchStep
<1>11. dirty' = dirty \cup {p}
  BY DEF Modify
<1>12. FrameInv'
  BY <1>3, <1>4, <1>5, <1>6, <1>11 DEF CoreInv, FrameInv
<1> QED BY <1>10, <1>12 DEF CoreInv

LEMMA InitFileStep ==
  ASSUME CoreInv, TypeOK', NEW p \in HeaderPages, NEW after \in [CellsOf(p) -> Values],
         InitTableFile(p, after)
  PROVE  CoreInv' /\ FilesKept
<1> USE ConstantsOK
<1> DEFINE zeros == [c \in CellsOf(p) |-> Zero]
<1>1. zeros \in [CellsOf(p) -> Values] /\ zeros # after /\ p \in Pages
  BY DEF InitTableFile
<1>2. CellsOf(p) # {}
  BY <1>1
<1>3. /\ zeros \in Images /\ after \in Images
      /\ DOMAIN zeros = CellsOf(p) /\ DOMAIN after = CellsOf(p)
  BY <1>1, <1>2, ImageType
<1>4. /\ \A c \in Cells : Overwrite(disk, after)[c] = IF c \in DOMAIN after THEN after[c] ELSE disk[c]
      /\ \A c \in Cells : c \in DOMAIN after <=> PageOf[c] = p
  BY <1>3, OverwriteType DEF CoreInv, TypeOK, CellsOf
<1>5. UNCHANGED <<nextTxn, txn, pending, mode, committed>>
  BY DEF InitTableFile
<1>6. PICK victim \in Victims :
        /\ p \in cached => victim = {p}
        /\ Install(p, victim, Overwrite(disk, after))
        /\ disk' = [c \in Cells |->
                      IF PageOf[c] = p THEN after[c]
                      ELSE IF InFile(c, FileOf[p]) THEN Zero
                      ELSE IF PageOf[c] \in victim \cap dirty THEN data[c] ELSE disk[c]]
        /\ dirty' = dirty \ (victim \cup {p})
  BY DEF InitTableFile
<1>7. victim \subseteq cached /\ \A c \in Cells : InFile(c, FileOf[p]) => View(c) = Zero
  BY <1>6 DEF Victims, InitTableFile
<1>8. \A c \in DOMAIN zeros : zeros[c] = View(c)
  BY <1>1, <1>7 DEF InFile, CellsOf
<1>9. /\ cached' = (cached \ victim) \cup {p}
      /\ \A c \in Cells : data'[c] = IF PageOf[c] = p THEN after[c]
                                     ELSE IF PageOf[c] \in victim THEN Zero ELSE data[c]
      /\ \A c \in Cells : disk'[c] = IF PageOf[c] = p THEN after[c]
                                     ELSE IF InFile(c, FileOf[p]) THEN Zero
                                     ELSE IF PageOf[c] \in victim \cap dirty THEN data[c] ELSE disk[c]
  BY <1>4, <1>6 DEF Install
<1>10. \A c \in Cells : View(c)' = IF c \in DOMAIN after THEN after[c] ELSE View(c)
  BY <1>4, <1>7, <1>9 DEF View, CoreInv, FrameInv
<1>11. \A c \in Cells : c \in DOMAIN after \/ disk'[c] \in {disk[c], View(c)}
  BY <1>4, <1>7, <1>9 DEF View
<1>12. /\ mode = "up" /\ txn # NoTxn /\ FileOf[p] \notin pending /\ wrote' = TRUE
       /\ wal' = Append(wal, PagePatch(txn, zeros, after)) /\ undo' = Append(undo, zeros)
  BY DEF InitTableFile
<1>13. \A c \in DOMAIN after : PageOf[c] = p
  BY <1>3 DEF CellsOf
<1>14. IdleInv' /\ TxnInv' /\ PendingInv' /\ LogInv' /\ FilesKept /\ ViewInv' /\ RedoInv' /\ UndoInv'
  BY <1>1, <1>3, <1>5, <1>8, <1>10, <1>11, <1>12, <1>13, PatchStep
<1>15. FrameInv'
  <2>1. \A c \in Cells : PageOf[c] \in cached' \ dirty' => data'[c] = disk'[c]
    BY <1>6, <1>7, <1>9 DEF CoreInv, FrameInv, View
  <2>2. \A q \in cached' : FileOf[q] \notin pending'
    BY <1>5, <1>9, <1>12 DEF CoreInv, FrameInv
  <2> QED BY <2>1, <2>2 DEF FrameInv
<1> QED BY <1>14, <1>15 DEF CoreInv

\* Dropping a file keeps the invariant.
LEMMA DropStep ==
  ASSUME CoreInv, TypeOK', NEW f \in Files, RemoveTableFile(f)
  PROVE  CoreInv' /\ FilesKept
<1> DEFINE r == DropFile(txn, f)
           n == Len(wal) + 1
           ps == {p \in cached : FileOf[p] = f}
<1>1. /\ wal \in Seq(Records) /\ Len(wal) \in Nat /\ txn \in Nat /\ r \in Records
      /\ mode = "up" /\ txn # NoTxn /\ wal' = Append(wal, r) /\ wrote' = TRUE
      /\ UNCHANGED <<nextTxn, txn, undo, mode, committed>> /\ pending' = pending \cup {f}
  BY RecordTypes DEF CoreInv, TypeOK, RemoveTableFile
<1>2. /\ Len(wal') = n /\ wal'[n] = r
      /\ \A i \in 1..Len(wal) : wal'[i] = wal[i]
      /\ n \in 1..Len(wal') /\ \A i \in 1..Len(wal) : i \in 1..Len(wal')
      /\ \A i \in 1..Len(wal') : i \in 1..Len(wal) \/ i = n
  BY <1>1, AppendLog
<1>3. /\ r.op = "DropFile" /\ r.txn = txn /\ r.file = f
      /\ \A c : ~Patches(r, c)
      /\ \A c : Drops(r, c) <=> InFile(c, f)
  BY DEF DropFile, Patches, Drops
<1>4. /\ \A t \in Nat : InFlight(wal', t) <=> InFlight(wal, t)
      /\ \A t \in Nat : Committed(wal', t) <=> Committed(wal, t)
      /\ \A i \in 1..Len(wal), c \in Cells : Redoes(wal', i, c) <=> Redoes(wal, i, c)
      /\ \A i \in 1..Len(wal), c \in Cells : Undoes(wal', i, c) <=> Undoes(wal, i, c)
  BY <1>1, <1>3, AppendWrite
<1>5. InFlight(wal, txn) /\ InFlight(wal', txn) /\ ~Committed(wal', txn)
  BY <1>1, <1>4 DEF CoreInv, TxnInv, Running, InFlight
<1>6. \A c \in Cells : ~Redoes(wal', n, c) /\ ~Undoes(wal', n, c)
  BY <1>2, <1>3, <1>5 DEF Redoes, Undoes
<1>7. \A i \in 1..Len(wal) : wal[i].txn \in Nat
  BY <1>1 DEF Records
<1>8. IdleInv'
  BY <1>1 DEF CoreInv, IdleInv, Running
<1>9. TxnInv'
  <2>1. /\ txn' < nextTxn' /\ \A i \in 1..Len(wal') : wal'[i].txn < nextTxn'
        /\ InFlight(wal', txn')
    BY <1>1, <1>2, <1>3, <1>5 DEF CoreInv, TxnInv, Running
  <2>2. ASSUME NEW i \in 1..Len(wal'), InFlight(wal', wal'[i].txn)
        PROVE  wal'[i].txn = txn /\ \A j \in i..Len(wal') : wal'[j].txn = txn
    BY <1>1, <1>2, <1>3, <1>4, <1>7, <2>2 DEF CoreInv, TxnInv, Running
  <2> QED BY <1>1, <2>1, <2>2 DEF TxnInv
<1>10. PendingInv'
  <2>1. ASSUME NEW g \in pending'
        PROVE  \E i \in 1..Len(wal') :
                 /\ wal'[i] = DropFile(txn, g)
                 /\ \A j \in 1..Len(wal') : j > i =>
                      \A c \in Cells : InFile(c, g) => ~Patches(wal'[j], c) /\ ~Drops(wal'[j], c)
    <3>1. CASE g = f
      <4>1. \A j \in 1..Len(wal') : ~(j > n)
        BY <1>1, <1>2
      <4> QED BY <1>2, <3>1, <4>1
    <3>2. CASE g # f
      <4>1. PICK i \in 1..Len(wal) :
              /\ wal[i] = DropFile(txn, g)
              /\ \A j \in 1..Len(wal) : j > i =>
                   \A c \in Cells : InFile(c, g) => ~Patches(wal[j], c) /\ ~Drops(wal[j], c)
        BY <1>1, <3>2 DEF CoreInv, PendingInv
      <4>2. \A c \in Cells : InFile(c, g) => ~Patches(wal'[n], c) /\ ~Drops(wal'[n], c)
        BY <1>2, <1>3, <3>2 DEF InFile
      <4>3. i \in 1..Len(wal') /\ wal'[i] = DropFile(txn, g)
        BY <1>2, <4>1
      <4>4. ASSUME NEW j \in 1..Len(wal'), j > i, NEW c \in Cells, InFile(c, g)
            PROVE  ~Patches(wal'[j], c) /\ ~Drops(wal'[j], c)
        BY <1>2, <4>1, <4>2, <4>4
      <4> QED BY <4>3, <4>4
    <3> QED BY <3>1, <3>2
  <2>2. ASSUME NEW i \in 1..Len(wal'), wal'[i].op = "DropFile", InFlight(wal', wal'[i].txn)
        PROVE  wal'[i].file \in pending'
    <3>1. CASE i = n
      BY <1>1, <1>2, <1>3, <3>1
    <3>2. CASE i # n
      <4>1. i \in 1..Len(wal) /\ wal'[i] = wal[i]
        BY <1>2, <3>2
      <4> QED BY <1>1, <1>4, <1>7, <2>2, <4>1 DEF CoreInv, PendingInv
    <3> QED BY <3>1, <3>2
  <2> QED BY <1>1, <2>1, <2>2 DEF PendingInv
<1>11. \A c \in Cells : View(c)' = View(c) /\ disk'[c] \in {disk[c], View(c)}
  BY DEF RemoveTableFile, WriteBack, View, CoreInv, FrameInv
<1>12. FrameInv'
  <2>1. \A c \in Cells : PageOf[c] \in cached' \ dirty' => data'[c] = disk'[c]
    BY DEF RemoveTableFile, WriteBack, CoreInv, FrameInv
  <2>2. \A q \in cached' : FileOf[q] \notin pending'
    BY <1>1 DEF RemoveTableFile, CoreInv, FrameInv
  <2> QED BY <2>1, <2>2 DEF FrameInv
<1>13. ASSUME NEW c \in Cells
       PROVE  /\ AnyRedo(wal', c, Len(wal')) <=> AnyRedo(wal, c, Len(wal))
              /\ AnyUndo(wal', c, 1) <=> AnyUndo(wal, c, 1)
              /\ AnyPatch(wal', c) <=> AnyPatch(wal, c)
  <2>1. AnyRedo(wal', c, Len(wal')) <=> AnyRedo(wal, c, Len(wal))
    BY <1>2, <1>4, <1>6 DEF AnyRedo
  <2>2. AnyUndo(wal', c, 1) <=> AnyUndo(wal, c, 1)
    BY <1>2, <1>4, <1>6 DEF AnyUndo
  <2>3. AnyPatch(wal', c) <=> AnyPatch(wal, c)
    BY <1>2, <1>3 DEF AnyPatch
  <2> QED BY <2>1, <2>2, <2>3
<1>14. ASSUME NEW c \in Cells, NEW i \in 1..Len(wal)
       PROVE  /\ LastRedo(wal, i, c, Len(wal)) => LastRedo(wal', i, c, Len(wal'))
              /\ FirstUndo(wal, i, c, 1) => FirstUndo(wal', i, c, 1)
              /\ LastUndo(wal, i, c) => LastUndo(wal', i, c)
  <2>1. LastRedo(wal, i, c, Len(wal)) => LastRedo(wal', i, c, Len(wal'))
    BY <1>2, <1>4, <1>6 DEF LastRedo
  <2>2. FirstUndo(wal, i, c, 1) => FirstUndo(wal', i, c, 1)
    BY <1>2, <1>4, <1>6 DEF FirstUndo
  <2>3. LastUndo(wal, i, c) => LastUndo(wal', i, c)
    BY <1>2, <1>4, <1>6 DEF LastUndo
  <2> QED BY <2>1, <2>2, <2>3
<1>15. ASSUME NEW c \in Cells, ~AnyPatch(wal, c) PROVE View(c) = committed[c]
  <2>1. ~AnyUndo(wal, c, 1)
    BY <1>15 DEF AnyPatch, AnyUndo, Undoes
  <2> QED BY <1>1, <2>1 DEF CoreInv, ViewInv
<1>16. LogInv' /\ FilesKept
  BY <1>1, <1>2, <1>11, <1>13, <1>14, <1>15 DEF CoreInv, LogInv, FileInv, FilesKept
<1>17. ViewInv'
  BY <1>1, <1>2, <1>11, <1>13, <1>14 DEF CoreInv, ViewInv
<1>18. RedoInv' /\ UndoInv'
  BY <1>1 DEF RedoInv, UndoInv
<1> QED BY <1>8, <1>9, <1>10, <1>12, <1>16, <1>17, <1>18 DEF CoreInv

-----------------------------------------------------------------------------
(* Steps that change neither the log nor any contents *)

\* Opening a transaction: its id is fresh, so nothing in the log is its own.
LEMMA BeginStep == ASSUME CoreInv, TypeOK', BeginTxn PROVE CoreInv' /\ FilesKept
<1>1. /\ mode = "up" /\ txn = NoTxn /\ txn' = nextTxn /\ nextTxn' = nextTxn + 1
      /\ UNCHANGED <<disk, cached, data, dirty, wal, wrote, undo, pending, mode, committed>>
      /\ nextTxn \in Nat \ {0}
  BY DEF BeginTxn, pool, CoreInv, TypeOK
<1>2. wrote = FALSE /\ pending = {} /\ undo = <<>>
  BY <1>1 DEF CoreInv, IdleInv
<1>3. \A i \in 1..Len(wal) : ~InFlight(wal, wal[i].txn) /\ wal[i].txn < nextTxn /\ wal[i].txn \in Nat
  BY <1>1, <1>2 DEF CoreInv, TxnInv, Running, TypeOK, Records
<1>4. InFlight(wal, nextTxn)
  <2>1. \A i \in 1..Len(wal) : wal[i].txn # nextTxn
    BY <1>1, <1>3
  <2> QED BY <2>1 DEF InFlight, Committed, Aborted
<1>5. IdleInv'
  BY <1>1, <1>2 DEF IdleInv, Running
<1>6. TxnInv'
  BY <1>1, <1>3, <1>4 DEF TxnInv, Running
<1>7. PendingInv'
  BY <1>1, <1>2, <1>3 DEF PendingInv
<1>8. FrameInv' /\ LogInv' /\ FilesKept
  BY <1>1 DEF CoreInv, FrameInv, LogInv, FileInv, FilesKept
<1>9. ViewInv'
  BY <1>1 DEF CoreInv, ViewInv, View
<1>10. RedoInv' /\ UndoInv'
  BY <1>1 DEF RedoInv, UndoInv
<1> QED BY <1>5, <1>6, <1>7, <1>8, <1>9, <1>10 DEF CoreInv

\* Entering a rollback or a checkpoint, starting recovery, dying.
LEMMA ModeStep ==
  ASSUME CoreInv, TypeOK', RollbackTxn \/ Checkpoint \/ Open \/ Crash
  PROVE  CoreInv' /\ FilesKept
<1>1. CASE RollbackTxn \/ Checkpoint
  <2>1. /\ mode = "up" /\ mode' \in {"rollback", "ckpt", "close"}
        /\ mode' = "rollback" <=> txn # NoTxn
        /\ UNCHANGED <<disk, cached, data, dirty, wal, nextTxn, txn, wrote, undo, pending, committed>>
    BY <1>1 DEF RollbackTxn, Checkpoint, pool, context
  <2>2. IdleInv' /\ TxnInv' /\ PendingInv'
    BY <2>1 DEF CoreInv, IdleInv, TxnInv, PendingInv, Running
  <2>3. FrameInv' /\ LogInv' /\ FilesKept
    BY <2>1 DEF CoreInv, FrameInv, LogInv, FileInv, FilesKept
  <2>4. ViewInv'
    BY <2>1 DEF CoreInv, ViewInv, View
  <2>5. RedoInv' /\ UndoInv'
    BY <2>1 DEF RedoInv, UndoInv
  <2> QED BY <2>2, <2>3, <2>4, <2>5 DEF CoreInv
<1>2. CASE Open
  <2>1. /\ mode = "down" /\ mode' = "redo" /\ ri' = 1
        /\ UNCHANGED <<disk, cached, data, dirty, wal, nextTxn, txn, wrote, undo, pending, committed>>
    BY <1>2 DEF Open, pool, context
  <2>2. IdleInv' /\ TxnInv' /\ PendingInv' /\ ViewInv' /\ UndoInv'
    BY <2>1 DEF CoreInv, IdleInv, TxnInv, PendingInv, ViewInv, UndoInv, Running
  <2>3. FrameInv' /\ LogInv' /\ FilesKept
    BY <2>1 DEF CoreInv, FrameInv, LogInv, FileInv, FilesKept
  <2>4. RedoInv'
    BY <2>1 DEF RedoInv, AnyRedo
  <2> QED BY <2>2, <2>3, <2>4 DEF CoreInv
<1>3. CASE Crash
  <2>1. /\ mode' = "down" /\ cached' = {} /\ dirty' = {} /\ txn' = NoTxn /\ wrote' = FALSE
        /\ undo' = <<>> /\ pending' = {} /\ UNCHANGED <<disk, wal, committed>>
    BY <1>3 DEF Crash
  <2>2. IdleInv' /\ TxnInv' /\ PendingInv' /\ ViewInv' /\ UndoInv' /\ RedoInv'
    BY <2>1 DEF IdleInv, TxnInv, PendingInv, ViewInv, UndoInv, RedoInv, Running
  <2>3. FrameInv' /\ LogInv' /\ FilesKept
    BY <2>1 DEF CoreInv, FrameInv, LogInv, FileInv, FilesKept
  <2> QED BY <2>2, <2>3 DEF CoreInv
<1> QED BY <1>1, <1>2, <1>3

-----------------------------------------------------------------------------
(* The ends of transactions *)

\* A transaction that logged nothing has no records, no undo and no drops.
LEMMA NothingLogged ==
  ASSUME CoreInv, mode \in {"up", "rollback"}, txn # NoTxn, wrote = FALSE
  PROVE  /\ \A i \in 1..Len(wal) : ~InFlight(wal, wal[i].txn)
         /\ \A c \in Cells : ~AnyUndo(wal, c, 1) /\ ~AnySaved(undo, c) /\ View(c) = committed[c]
         /\ mode = "up" => pending = {}
<1>1. \A i \in 1..Len(wal) : ~InFlight(wal, wal[i].txn)
  BY DEF CoreInv, TxnInv, Running
<1>2. \A c \in Cells : ~AnyUndo(wal, c, 1)
  BY <1>1 DEF AnyUndo, Undoes
<1>3. \A c \in Cells : ~AnySaved(undo, c) /\ View(c) = committed[c]
  BY <1>2 DEF CoreInv, ViewInv
<1>4. ASSUME mode = "up", NEW f \in pending PROVE FALSE
  <2>1. PICK i \in 1..Len(wal) : wal[i] = DropFile(txn, f)
    BY <1>4 DEF CoreInv, PendingInv
  <2>2. wal[i].txn = txn
    BY <2>1 DEF DropFile
  <2>3. InFlight(wal, txn)
    BY DEF CoreInv, TxnInv, Running
  <2> QED BY <1>1, <2>1, <2>2, <2>3
<1> QED BY <1>1, <1>2, <1>3, <1>4

\* After a Commit record the log accounts for the new committed contents.
LEMMA CommitLog ==
  ASSUME CoreInv, mode = "up", txn # NoTxn, wal' = Append(wal, Commit(txn)), UNCHANGED disk,
         committed' = [c \in Cells |-> IF FileOf[PageOf[c]] \in pending THEN Zero ELSE View(c)]
  PROVE  /\ LogInv' /\ FilesKept
         /\ \A i \in 1..Len(wal') : ~InFlight(wal', wal'[i].txn) /\ wal'[i].txn < nextTxn
         /\ \A c \in Cells : ~AnyUndo(wal', c, 1)
<1> DEFINE n == Len(wal')
           Own(i, c) == wal[i].txn = txn /\ (Patches(wal[i], c) \/ Drops(wal[i], c))
<1>1. /\ wal \in Seq(Records) /\ Len(wal) \in Nat /\ txn \in Nat
      /\ InFlight(wal, txn) /\ txn < nextTxn
      /\ \A i \in 1..Len(wal) : wal[i].txn \in Nat /\ wal[i].txn < nextTxn
      /\ \A i \in 1..Len(wal) : InFlight(wal, wal[i].txn) =>
           wal[i].txn = txn /\ \A j \in i..Len(wal) : wal[j].txn = txn
  BY DEF CoreInv, TypeOK, Records, TxnInv, Running
<1>2. /\ n = Len(wal) + 1
      /\ \A i \in 1..Len(wal) : wal'[i] = wal[i]
      /\ \A c \in Cells : ~Patches(wal'[n], c) /\ ~Drops(wal'[n], c)
      /\ wal'[n].txn = txn
      /\ \A i \in 1..n : ~InFlight(wal', wal'[i].txn)
      /\ \A i \in 1..n, c \in Cells : ~Undoes(wal', i, c)
      /\ \A i \in 1..Len(wal), c \in Cells : Redoes(wal', i, c) <=> (Redoes(wal, i, c) \/ Own(i, c))
  <2>1. \A i \in 1..Len(wal) : InFlight(wal, wal[i].txn) => wal[i].txn = txn
    BY <1>1
  <2>2. wal' \in {Append(wal, Commit(txn)), Append(wal, Abort(txn))}
    OBVIOUS
  <2>3. /\ Len(wal') = Len(wal) + 1
        /\ \A i \in 1..Len(wal) : wal'[i] = wal[i]
        /\ wal'[Len(wal) + 1] = Commit(txn)
    BY <1>1, AppendLog, RecordTypes
  <2>5. \A c \in Cells : ~Patches(wal'[n], c) /\ ~Drops(wal'[n], c)
    BY <2>3 DEF Commit, Patches, Drops
  <2>6. \A i \in 1..Len(wal') : ~InFlight(wal', wal'[i].txn)
    BY <1>1, <2>1, <2>2, AppendEnd
  <2>7. \A i \in 1..n, c \in Cells : ~Undoes(wal', i, c)
    BY <2>6 DEF Undoes
  <2>4. \A i \in 1..Len(wal), c \in Cells :
          Redoes(wal', i, c) <=> (Redoes(wal, i, c) \/
            (wal[i].txn = txn /\ (Patches(wal[i], c) \/ Drops(wal[i], c))))
    BY <1>1, <2>1, <2>2, AppendEnd
  <2>8. wal'[n].txn = txn
    BY <2>3 DEF Commit
  <2> QED BY <2>3, <2>4, <2>5, <2>6, <2>7, <2>8
<1>3. /\ \A i \in 1..Len(wal) : i \in 1..n
      /\ \A i \in 1..n : i \in 1..Len(wal) \/ i = n
      /\ n \in 1..n
  BY <1>1, <1>2
<1>4. \A c \in Cells : ~Redoes(wal', n, c)
  BY <1>2 DEF Redoes
<1>5. \A c \in Cells : ~AnyUndo(wal', c, 1)
  BY <1>2 DEF AnyUndo
<1>6. \A i \in 1..n : wal'[i].txn < nextTxn
  BY <1>1, <1>2, <1>3
<1>7. ASSUME NEW c \in Cells, FileOf[PageOf[c]] \in pending
      PROVE  \E i \in 1..n : LastRedo(wal', i, c, n) /\ Image(wal'[i], c) = committed'[c]
  <2> DEFINE f == FileOf[PageOf[c]]
  <2>1. PICK i \in 1..Len(wal) :
          /\ wal[i] = DropFile(txn, f)
          /\ \A j \in 1..Len(wal) : j > i =>
               \A d \in Cells : InFile(d, f) => ~Patches(wal[j], d) /\ ~Drops(wal[j], d)
    BY <1>7 DEF CoreInv, PendingInv
  <2>2. InFile(c, f)
    BY DEF InFile
  <2>3. wal[i].txn = txn /\ Drops(wal[i], c) /\ ~Patches(wal[i], c)
    BY <2>1, <2>2 DEF DropFile, Drops, Patches
  <2>4. Redoes(wal', i, c) /\ wal'[i] = wal[i] /\ i \in 1..n
    BY <1>2, <1>3, <2>3
  <2>5. ASSUME NEW j \in 1..n, j > i PROVE ~Redoes(wal', j, c)
    <3>1. CASE j = n
      BY <1>4, <3>1
    <3>2. CASE j \in 1..Len(wal)
      <4>1. ~Patches(wal'[j], c) /\ ~Drops(wal'[j], c)
        BY <1>2, <2>1, <2>2, <2>5, <3>2
      <4> QED BY <4>1 DEF Redoes
    <3> QED BY <1>3, <3>1, <3>2
  <2>6. Image(wal'[i], c) = committed'[c]
    BY <1>7, <2>3, <2>4 DEF Image
  <2>7. LastRedo(wal', i, c, n)
    BY <2>4, <2>5 DEF LastRedo
  <2> QED BY <2>4, <2>6, <2>7
<1>8. ASSUME NEW c \in Cells, FileOf[PageOf[c]] \notin pending, NEW i \in 1..Len(wal), wal[i].txn = txn
      PROVE  ~Drops(wal[i], c)
  <2>1. wal[i].op = "DropFile" => wal[i].file \in pending
    BY <1>1, <1>8 DEF CoreInv, PendingInv
  <2> QED BY <1>8, <2>1 DEF Drops, InFile
<1>9. ASSUME NEW c \in Cells, FileOf[PageOf[c]] \notin pending, AnyUndo(wal, c, 1)
      PROVE  \E i \in 1..n : LastRedo(wal', i, c, n) /\ Image(wal'[i], c) = committed'[c]
  <2>1. PICK i \in 1..Len(wal) : LastUndo(wal, i, c) /\ wal[i].after[c] = View(c)
    BY <1>9 DEF CoreInv, ViewInv
  <2>2. Undoes(wal, i, c) /\ \A j \in 1..Len(wal) : j > i => ~Undoes(wal, j, c)
    BY <2>1 DEF LastUndo
  <2>3. Patches(wal[i], c) /\ InFlight(wal, wal[i].txn)
    BY <2>2 DEF Undoes
  <2>4. wal[i].txn = txn /\ \A j \in i..Len(wal) : wal[j].txn = txn
    BY <1>1, <2>3
  <2>5. Redoes(wal', i, c) /\ wal'[i] = wal[i] /\ i \in 1..n
    BY <1>2, <1>3, <2>3, <2>4
  <2>6. ASSUME NEW j \in 1..n, j > i PROVE ~Redoes(wal', j, c)
    <3>1. CASE j = n
      BY <1>4, <3>1
    <3>2. CASE j \in 1..Len(wal)
      <4>1. j \in i..Len(wal)
        BY <2>6, <3>2
      <4>2. wal[j].txn = txn /\ wal'[j] = wal[j]
        BY <1>2, <2>4, <3>2, <4>1
      <4>3. ~Drops(wal[j], c)
        BY <1>8, <1>9, <3>2, <4>2
      <4>4. ~Patches(wal[j], c)
        BY <1>1, <2>2, <2>6, <3>2, <4>2 DEF Undoes
      <4> QED BY <4>2, <4>3, <4>4 DEF Redoes
    <3> QED BY <1>3, <3>1, <3>2
  <2>7. Image(wal'[i], c) = committed'[c]
    BY <1>9, <2>1, <2>3, <2>5 DEF Image
  <2>8. LastRedo(wal', i, c, n)
    BY <2>5, <2>6 DEF LastRedo
  <2> QED BY <2>5, <2>7, <2>8
<1>10. ASSUME NEW c \in Cells, FileOf[PageOf[c]] \notin pending, ~AnyUndo(wal, c, 1)
       PROVE  /\ committed'[c] = committed[c]
              /\ \A i \in 1..Len(wal) : Redoes(wal', i, c) <=> Redoes(wal, i, c)
              /\ AnyRedo(wal', c, n) <=> AnyRedo(wal, c, Len(wal))
  <2>1. View(c) = committed[c]
    BY <1>10 DEF CoreInv, ViewInv
  <2>2. \A i \in 1..Len(wal) : ~Undoes(wal, i, c)
    BY <1>10 DEF AnyUndo
  <2>3. \A i \in 1..Len(wal) : ~Own(i, c)
    BY <1>1, <1>8, <1>10, <2>2 DEF Undoes
  <2>4. \A i \in 1..Len(wal) : Redoes(wal', i, c) <=> Redoes(wal, i, c)
    BY <1>2, <2>3
  <2>5. AnyRedo(wal', c, n) <=> AnyRedo(wal, c, Len(wal))
    BY <1>3, <1>4, <2>4 DEF AnyRedo
  <2> QED BY <1>10, <2>1, <2>4, <2>5
<1>11. ASSUME NEW c \in Cells, FileOf[PageOf[c]] \notin pending, ~AnyUndo(wal, c, 1), AnyRedo(wal', c, n)
       PROVE  \E i \in 1..n : LastRedo(wal', i, c, n) /\ Image(wal'[i], c) = committed'[c]
  <2>1. PICK i \in 1..Len(wal) : LastRedo(wal, i, c, Len(wal)) /\ Image(wal[i], c) = committed[c]
    BY <1>10, <1>11 DEF CoreInv, LogInv, FileInv, FilesKept
  <2>2. LastRedo(wal', i, c, n)
    BY <1>3, <1>4, <1>10, <1>11, <2>1 DEF LastRedo
  <2> QED BY <1>2, <1>3, <1>10, <1>11, <2>1, <2>2
<1>12. ASSUME FileInv, NEW c \in Cells, ~AnyRedo(wal', c, n), ~AnyPatch(wal', c) PROVE disk'[c] = committed'[c]
  <2>1. FileOf[PageOf[c]] \notin pending
    BY <1>7, <1>12 DEF LastRedo, AnyRedo
  <2>2. ~AnyPatch(wal, c)
    BY <1>2, <1>3, <1>12 DEF AnyPatch
  <2>3. ~AnyUndo(wal, c, 1)
    BY <2>2 DEF AnyPatch, AnyUndo, Undoes
  <2> QED BY <1>10, <1>12, <2>1, <2>2, <2>3 DEF CoreInv, LogInv, FileInv, FilesKept
<1>13. LogInv' /\ FilesKept
  BY <1>5, <1>7, <1>9, <1>11, <1>12 DEF LogInv, FileInv, FilesKept
<1> QED BY <1>2, <1>5, <1>6, <1>13

\* Nothing is saved in an empty undo list.
LEMMA EmptyUndo == ASSUME NEW c PROVE ~AnySaved(<<>>, c)
BY DEF AnySaved

\* Commit keeps the invariant.
LEMMA CommitStep == ASSUME CoreInv, TypeOK', CommitTxn PROVE CoreInv' /\ FilesKept
<1>1. /\ mode = "up" /\ txn # NoTxn /\ undo' = <<>> /\ wrote' = FALSE
      /\ UNCHANGED <<disk, cached, data, dirty, nextTxn, pending>>
      /\ committed' = [c \in Cells |-> IF FileOf[PageOf[c]] \in pending THEN Zero ELSE View(c)]
      /\ (pending = {} /\ txn' = NoTxn /\ mode' = "up") \/ (pending # {} /\ txn' = txn /\ mode' = "unlink")
      /\ txn \in Nat /\ nextTxn \in Nat \ {0}
  BY DEF CommitTxn, pool, CoreInv, TypeOK
<1>2. /\ LogInv' /\ FilesKept
      /\ \A i \in 1..Len(wal') : ~InFlight(wal', wal'[i].txn) /\ wal'[i].txn < nextTxn
      /\ \A c \in Cells : ~AnyUndo(wal', c, 1)
  <2>1. CASE wrote
    BY <1>1, <2>1, CommitLog DEF CommitTxn
  <2>2. CASE wrote = FALSE
    <3>1. wal' = wal
      BY <2>2 DEF CommitTxn
    <3>2. /\ \A i \in 1..Len(wal) : ~InFlight(wal, wal[i].txn)
          /\ \A c \in Cells : ~AnyUndo(wal, c, 1) /\ View(c) = committed[c]
          /\ pending = {}
      BY <1>1, <2>2, NothingLogged
    <3>3. \A c \in Cells : committed'[c] = committed[c]
      BY <1>1, <3>2
    <3>4. LogInv' /\ FilesKept
      BY <1>1, <3>1, <3>3 DEF CoreInv, LogInv, FileInv, FilesKept
    <3>5. \A i \in 1..Len(wal) : wal[i].txn < nextTxn
      BY <1>1 DEF CoreInv, TxnInv, Running
    <3> QED BY <3>1, <3>2, <3>4, <3>5
  <2>3. wrote \in BOOLEAN
    BY DEF CoreInv, TypeOK
  <2> QED BY <2>1, <2>2, <2>3
<1>3. IdleInv'
  BY <1>1 DEF IdleInv, Running
<1>4. TxnInv'
  <2>1. txn' < nextTxn'
    BY <1>1 DEF CoreInv, TxnInv, Running
  <2> QED BY <1>1, <1>2, <2>1 DEF TxnInv
<1>5. PendingInv'
  BY <1>1, <1>2 DEF PendingInv
<1>6. FrameInv'
  BY <1>1 DEF CoreInv, FrameInv
<1>7. ViewInv'
  <2>1. \A c \in Cells : View(c)' = View(c)
    BY <1>1 DEF View
  <2>2. \A c \in Cells : ~AnySaved(undo', c)
    BY <1>1, EmptyUndo
  <2> QED BY <1>1, <1>2, <2>1, <2>2 DEF ViewInv
<1>8. RedoInv' /\ UndoInv'
  BY <1>1 DEF RedoInv, UndoInv
<1> QED BY <1>2, <1>3, <1>4, <1>5, <1>6, <1>7, <1>8 DEF CoreInv

\* Unlinking a dropped file keeps the invariant: no frame and no committed
\* content of it is left.
LEMMA UnlinkStep == ASSUME CoreInv, TypeOK', NEW f \in Files, Unlink(f) PROVE CoreInv' /\ FilesKept
<1>1. /\ mode = "unlink" /\ f \in pending /\ pending' = pending \ {f}
      /\ UNCHANGED <<cached, data, dirty, wal, nextTxn, wrote, undo, committed>>
      /\ \A c \in Cells : disk'[c] = IF InFile(c, f) THEN Zero ELSE disk[c]
      /\ (pending' = {} /\ txn' = NoTxn /\ mode' = "up") \/ (pending' # {} /\ txn' = txn /\ mode' = "unlink")
  BY DEF Unlink, pool
<1>2. undo = <<>> /\ wrote = FALSE /\ txn # NoTxn /\ txn \in Nat /\ nextTxn \in Nat \ {0}
  BY <1>1 DEF CoreInv, IdleInv, TypeOK
<1>3. \A i \in 1..Len(wal) : ~InFlight(wal, wal[i].txn)
  BY <1>1, <1>2 DEF CoreInv, TxnInv, Running
<1>4. \A c \in Cells : InFile(c, f) => PageOf[c] \notin cached /\ committed[c] = Zero
  BY <1>1 DEF CoreInv, FrameInv, ViewInv, InFile
<1>5. \A c \in Cells : View(c)' = IF InFile(c, f) THEN committed[c] ELSE View(c)
  BY <1>1, <1>4 DEF View
<1>6. IdleInv'
  BY <1>1, <1>2 DEF IdleInv, Running
<1>7. TxnInv'
  BY <1>1, <1>2, <1>3 DEF CoreInv, TxnInv, Running
<1>8. PendingInv'
  BY <1>1, <1>3 DEF PendingInv
<1>9. FrameInv'
  BY <1>1, <1>4 DEF CoreInv, FrameInv
<1>10. LogInv' /\ FilesKept
  BY <1>1, <1>4 DEF CoreInv, LogInv, FileInv, FilesKept
<1>11. ViewInv'
  <2>1. \A c \in Cells : ~AnyUndo(wal', c, 1)
    BY <1>1, <1>3 DEF AnyUndo, Undoes
  <2>2. \A c \in Cells : ~AnySaved(undo', c)
    BY <1>1, <1>2, EmptyUndo
  <2>3. \A c \in Cells : IF FileOf[PageOf[c]] \in pending' THEN committed[c] = Zero
                         ELSE View(c)' = committed[c]
    BY <1>1, <1>5 DEF CoreInv, ViewInv, InFile
  <2> QED BY <1>1, <2>1, <2>2, <2>3 DEF ViewInv
<1>12. RedoInv' /\ UndoInv'
  BY <1>1 DEF RedoInv, UndoInv
<1> QED BY <1>6, <1>7, <1>8, <1>9, <1>10, <1>11, <1>12 DEF CoreInv

\* A prefix of a sequence.
LEMMA Prefix ==
  ASSUME NEW S, NEW s \in Seq(S), NEW n \in Nat, n <= Len(s)
  PROVE  Len(SubSeq(s, 1, n)) = n /\ \A k \in 1..n : SubSeq(s, 1, n)[k] = s[k]
OBVIOUS

\* One restored region: the view of its cells goes back one step, to the
\* committed contents where it was the transaction's first change.
LEMMA RestoreStep == ASSUME CoreInv, TypeOK', RestoreRegion PROVE CoreInv' /\ FilesKept
<1> DEFINE before == undo[Len(undo)]
           ps == {PageOf[c] : c \in DOMAIN before}
           m == Len(undo) - 1
<1>1. /\ mode = "rollback" /\ undo # <<>> /\ undo' = SubSeq(undo, 1, m)
      /\ UNCHANGED <<cached, wal, nextTxn, txn, wrote, pending, mode, committed>>
  BY DEF RestoreRegion
<1>2. undo \in Seq(Images) /\ Len(undo) \in Nat \ {0} /\ before \in Images
  BY <1>1 DEF CoreInv, TypeOK
<1>3. /\ Len(undo') = m
      /\ \A k \in 1..m : undo'[k] = undo[k] /\ k \in 1..Len(undo)
      /\ \A k \in 1..Len(undo) : k \in 1..m \/ k = Len(undo)
      /\ Len(undo) \in 1..Len(undo)
  <2>1. m \in Nat /\ 1 \in Nat /\ m <= Len(undo)
    BY <1>2
  <2>2. Len(undo') = m /\ \A k \in 1..m : undo'[k] = undo[k]
    BY <1>1, <1>2, <2>1, Prefix
  <2> QED BY <1>2, <2>1, <2>2
<1>4. PICK p \in Pages : DOMAIN before # {} /\ \A c \in DOMAIN before : c \in Cells /\ PageOf[c] = p
  BY <1>2, ImagePage
<1>5. ps = {p}
  BY <1>4
<1>6. /\ disk \in [Cells -> Values] /\ data \in [Cells -> Values]
      /\ \A c \in Cells : Overwrite(data, before)[c] = IF c \in DOMAIN before THEN before[c] ELSE data[c]
      /\ \A c \in Cells : Overwrite(disk, before)[c] = IF c \in DOMAIN before THEN before[c] ELSE disk[c]
  BY <1>2, OverwriteType DEF CoreInv, TypeOK
<1>7. \/ p \in cached /\ data' = Overwrite(data, before) /\ dirty' = dirty \cup {p} /\ disk' = disk
      \/ p \notin cached /\ disk' = Overwrite(disk, before) /\ data' = data /\ dirty' = dirty
  BY <1>5 DEF RestoreRegion
<1>8. \A c \in Cells : View(c)' = IF c \in DOMAIN before THEN before[c] ELSE View(c)
  BY <1>1, <1>4, <1>6, <1>7 DEF View
<1>9. IdleInv' /\ TxnInv' /\ PendingInv'
  BY <1>1 DEF CoreInv, IdleInv, TxnInv, PendingInv, Running
<1>10. FrameInv'
  BY <1>1, <1>4, <1>6, <1>7 DEF CoreInv, FrameInv
<1>11. ASSUME NEW c \in Cells PROVE AnySaved(undo, c) <=> (AnySaved(undo', c) \/ c \in DOMAIN before)
  BY <1>3 DEF AnySaved, Saved
<1>12. LogInv' /\ FilesKept
  <2>1. \A c \in Cells : c \in DOMAIN before => AnyPatch(wal, c)
    BY <1>1, <1>11 DEF CoreInv, ViewInv, AnyUndo, Undoes, AnyPatch
  <2>2. \A c \in Cells : ~AnyPatch(wal, c) => disk'[c] = disk[c]
    BY <1>6, <1>7, <2>1
  <2> QED BY <1>1, <2>2 DEF CoreInv, LogInv, FileInv, FilesKept
<1>13. ASSUME NEW c \in Cells, AnySaved(undo', c)
       PROVE  \E k \in 1..Len(undo') : FirstSaved(undo', k, c) /\ undo'[k][c] = committed[c]
  <2>1. PICK k \in 1..Len(undo) : FirstSaved(undo, k, c) /\ undo[k][c] = committed[c]
    BY <1>1, <1>11, <1>13 DEF CoreInv, ViewInv
  <2>2. PICK j \in 1..m : Saved(undo', j, c)
    BY <1>3, <1>13 DEF AnySaved
  <2>3. k \in 1..m
    BY <1>2, <1>3, <2>1, <2>2 DEF FirstSaved, Saved
  <2>4. FirstSaved(undo', k, c)
    BY <1>3, <2>1, <2>3 DEF FirstSaved, Saved
  <2> QED BY <1>3, <2>1, <2>3, <2>4
<1>14. ASSUME NEW c \in Cells, ~AnySaved(undo', c) PROVE View(c)' = committed[c]
  <2>1. CASE c \in DOMAIN before
    <3>1. PICK k \in 1..Len(undo) : FirstSaved(undo, k, c) /\ undo[k][c] = committed[c]
      BY <1>1, <1>11, <2>1 DEF CoreInv, ViewInv
    <3>2. k = Len(undo)
      BY <1>3, <1>14, <3>1 DEF FirstSaved, Saved, AnySaved
    <3> QED BY <1>8, <2>1, <3>1, <3>2
  <2>2. CASE c \notin DOMAIN before
    BY <1>1, <1>8, <1>11, <1>14, <2>2 DEF CoreInv, ViewInv
  <2> QED BY <2>1, <2>2
<1>15. ViewInv'
  BY <1>1, <1>11, <1>13, <1>14 DEF CoreInv, ViewInv
<1>16. RedoInv' /\ UndoInv'
  BY <1>1 DEF RedoInv, UndoInv
<1> QED BY <1>9, <1>10, <1>12, <1>15, <1>16 DEF CoreInv

\* The Abort record keeps the invariant: everything is already restored.
LEMMA AbortStep == ASSUME CoreInv, TypeOK', FinishRollback PROVE CoreInv' /\ FilesKept
<1>1. /\ mode = "rollback" /\ undo = <<>> /\ txn' = NoTxn /\ wrote' = FALSE /\ pending' = {}
      /\ mode' = "up" /\ wal' = IF wrote THEN Append(wal, Abort(txn)) ELSE wal
      /\ UNCHANGED <<disk, cached, data, dirty, nextTxn, undo, committed>>
      /\ nextTxn \in Nat \ {0} /\ wrote \in BOOLEAN /\ txn \in Nat /\ wal \in Seq(Records)
  BY DEF FinishRollback, pool, CoreInv, TypeOK
<1>2. /\ txn # NoTxn /\ InFlight(wal, txn) /\ txn < nextTxn
      /\ \A i \in 1..Len(wal) : wal[i].txn < nextTxn
      /\ \A i \in 1..Len(wal) : InFlight(wal, wal[i].txn) => wal[i].txn = txn
  BY <1>1 DEF CoreInv, IdleInv, TxnInv, Running
<1>3. \A c \in Cells : ~AnySaved(undo, c) /\ View(c) = committed[c] /\ View(c)' = View(c)
  BY <1>1, EmptyUndo DEF CoreInv, ViewInv, View
<1>4. /\ \A i \in 1..Len(wal') : ~InFlight(wal', wal'[i].txn) /\ wal'[i].txn < nextTxn
      /\ LogInv' /\ FilesKept
  <2>1. CASE wrote = FALSE
    <3>1. wal' = wal
      BY <1>1, <2>1
    <3>2. \A i \in 1..Len(wal) : ~InFlight(wal, wal[i].txn)
      BY <1>1, <1>2, <2>1, NothingLogged
    <3>3. LogInv' /\ FilesKept
      BY <1>1, <3>1 DEF CoreInv, LogInv, FileInv, FilesKept
    <3> QED BY <1>2, <3>1, <3>2, <3>3
  <2>2. CASE wrote
    <3> DEFINE n == Len(wal) + 1
    <3>1. wal' = Append(wal, Abort(txn))
      BY <1>1, <2>2
    <3>2. /\ Len(wal') = n /\ Len(wal) \in Nat
          /\ \A i \in 1..Len(wal) : wal'[i] = wal[i] /\ i \in 1..Len(wal')
          /\ wal'[n] = Abort(txn)
      BY <1>1, <3>1, AppendLog, RecordTypes
    <3>3. \A i \in 1..Len(wal') : i \in 1..Len(wal) \/ i = n
      BY <3>2
    <3>4. /\ wal'[n].txn = txn
          /\ \A c \in Cells : ~Patches(wal'[n], c) /\ ~Redoes(wal', n, c)
      BY <3>2 DEF Abort, Patches, Drops, Redoes
    <3>5. wal' \in {Append(wal, Commit(txn)), Append(wal, Abort(txn))}
      BY <3>1
    <3>6. /\ wal \in Seq(Records) /\ txn \in Nat /\ InFlight(wal, txn)
          /\ \A i \in 1..Len(wal) : InFlight(wal, wal[i].txn) => wal[i].txn = txn
      BY <1>1, <1>2
    <3>7. \A i \in 1..Len(wal') : ~InFlight(wal', wal'[i].txn)
      BY <3>1, <3>5, <3>6, AppendEnd
    <3>8. \A i \in 1..Len(wal), c \in Cells : Redoes(wal', i, c) <=> Redoes(wal, i, c)
      BY <3>1, <3>5, <3>6, AppendEnd
    <3>9. \A i \in 1..Len(wal') : wal'[i].txn < nextTxn
      BY <1>2, <3>2, <3>3, <3>4
    <3>10. ASSUME NEW c \in Cells
           PROVE /\ AnyRedo(wal', c, Len(wal')) <=> AnyRedo(wal, c, Len(wal))
                 /\ AnyPatch(wal', c) <=> AnyPatch(wal, c)
                 /\ ~AnyUndo(wal', c, 1)
                 /\ \A i \in 1..Len(wal) :
                      LastRedo(wal, i, c, Len(wal)) => LastRedo(wal', i, c, Len(wal'))
      <4>1. AnyRedo(wal', c, Len(wal')) <=> AnyRedo(wal, c, Len(wal))
        BY <3>2, <3>3, <3>4, <3>8 DEF AnyRedo
      <4>2. AnyPatch(wal', c) <=> AnyPatch(wal, c)
        BY <3>2, <3>3, <3>4 DEF AnyPatch
      <4>3. ~AnyUndo(wal', c, 1)
        BY <3>7 DEF AnyUndo, Undoes
      <4>4. \A i \in 1..Len(wal) : LastRedo(wal, i, c, Len(wal)) => LastRedo(wal', i, c, Len(wal'))
        BY <3>2, <3>3, <3>4, <3>8 DEF LastRedo
      <4> QED BY <4>1, <4>2, <4>3, <4>4
    <3>11. LogInv' /\ FilesKept
      BY <1>1, <3>2, <3>10 DEF CoreInv, LogInv, FileInv, FilesKept
    <3> QED BY <3>7, <3>9, <3>11
  <2> QED BY <1>1, <2>1, <2>2
<1>5. IdleInv'
  BY <1>1 DEF IdleInv, Running
<1>6. TxnInv'
  BY <1>1, <1>4 DEF TxnInv
<1>7. PendingInv'
  BY <1>1, <1>4 DEF PendingInv
<1>8. FrameInv'
  BY <1>1 DEF CoreInv, FrameInv
<1>9. ViewInv'
  <2>1. \A c \in Cells : ~AnyUndo(wal', c, 1)
    BY <1>4 DEF AnyUndo, Undoes
  <2> QED BY <1>1, <1>3, <2>1 DEF ViewInv
<1>10. RedoInv' /\ UndoInv'
  BY <1>1 DEF RedoInv, UndoInv
<1> QED BY <1>4, <1>5, <1>6, <1>7, <1>8, <1>9, <1>10 DEF CoreInv

-----------------------------------------------------------------------------
(* Steps that empty the log *)

\* An empty log accounts for files that equal the committed contents.
LEMMA EmptyLog ==
  ASSUME NEW w, w = <<>>
  PROVE  /\ Len(w) = 0
         /\ \A c : ~AnyRedo(w, c, Len(w)) /\ ~AnyUndo(w, c, 1) /\ ~AnyPatch(w, c)
BY DEF AnyRedo, AnyUndo, AnyPatch

\* A checkpoint that flushed every dirty frame may empty the log.
LEMMA ResetStep == ASSUME CoreInv, TypeOK', CheckpointReset PROVE CoreInv' /\ FilesKept
<1>1. /\ mode \in {"ckpt", "close"} /\ dirty = {} /\ wal' = <<>> /\ mode' \in {"down", "up"}
      /\ UNCHANGED <<disk, dirty, txn, wrote, undo, pending, committed>>
      /\ mode' = "down" => cached' = {}
      /\ mode' = "up" => UNCHANGED <<nextTxn, cached, data>>
      /\ nextTxn \in Nat \ {0}
  BY DEF CheckpointReset, context, CoreInv, TypeOK
<1>2. txn = NoTxn /\ undo = <<>> /\ pending = {} /\ wrote = FALSE
  BY <1>1 DEF CoreInv, IdleInv
<1>3. \A c \in Cells : ~AnySaved(undo, c) /\ View(c) = committed[c] /\ View(c) = disk[c]
  BY <1>1, <1>2, EmptyUndo DEF CoreInv, ViewInv, FrameInv, View
<1>4. /\ Len(wal') = 0
      /\ \A c \in Cells : ~AnyRedo(wal', c, Len(wal')) /\ ~AnyUndo(wal', c, 1) /\ ~AnyPatch(wal', c)
  BY <1>1, EmptyLog
<1>5. IdleInv'
  BY <1>1, <1>2 DEF IdleInv, Running
<1>6. TxnInv'
  BY <1>1, <1>2, <1>4 DEF TxnInv, Running
<1>7. PendingInv'
  BY <1>1, <1>2, <1>4 DEF PendingInv
<1>8. FrameInv'
  BY <1>1, <1>2 DEF CoreInv, FrameInv
<1>9. LogInv' /\ FilesKept
  BY <1>1, <1>3, <1>4 DEF LogInv, FileInv, FilesKept
<1>10. ViewInv'
  <2>1. mode' = "up" => \A c \in Cells : View(c)' = View(c)
    BY <1>1 DEF View
  <2> QED BY <1>1, <1>3, <1>4, <2>1 DEF ViewInv
<1>11. RedoInv' /\ UndoInv'
  BY <1>1 DEF RedoInv, UndoInv
<1> QED BY <1>5, <1>6, <1>7, <1>8, <1>9, <1>10, <1>11 DEF CoreInv

\* The end of recovery.
LEMMA RecoverDoneStep == ASSUME CoreInv, TypeOK', RecoverDone PROVE CoreInv' /\ FilesKept
<1>1. /\ mode = "undo" /\ wal' = <<>> /\ mode' = "up" /\ committed' = disk
      /\ UNCHANGED <<disk, cached, data, dirty, nextTxn, txn, wrote, undo, pending>>
      /\ nextTxn \in Nat \ {0}
  BY DEF RecoverDone, pool, context, CoreInv, TypeOK
<1>2. cached = {} /\ txn = NoTxn /\ undo = <<>> /\ pending = {} /\ wrote = FALSE
  BY <1>1 DEF CoreInv, IdleInv, Running
<1>3. /\ Len(wal') = 0
      /\ \A c \in Cells : ~AnyRedo(wal', c, Len(wal')) /\ ~AnyUndo(wal', c, 1) /\ ~AnyPatch(wal', c)
  BY <1>1, EmptyLog
<1>4. IdleInv' /\ FrameInv'
  BY <1>1, <1>2 DEF IdleInv, FrameInv, Running
<1>5. TxnInv'
  BY <1>1, <1>2, <1>3 DEF TxnInv, Running
<1>6. PendingInv'
  BY <1>1, <1>2, <1>3 DEF PendingInv
<1>7. LogInv' /\ FilesKept
  BY <1>1, <1>3 DEF LogInv, FileInv, FilesKept
<1>8. ViewInv'
  <2>1. \A c \in Cells : ~AnySaved(undo', c) /\ View(c)' = disk[c]
    BY <1>1, <1>2, EmptyUndo DEF View
  <2> QED BY <1>1, <1>3, <2>1 DEF ViewInv
<1>9. RedoInv' /\ UndoInv'
  BY <1>1 DEF RedoInv, UndoInv
<1> QED BY <1>4, <1>5, <1>6, <1>7, <1>8, <1>9 DEF CoreInv

-----------------------------------------------------------------------------
(* Recovery *)

\* Memory is empty during recovery, so those parts of the invariant hold.
LEMMA RecoveryIdle ==
  ASSUME CoreInv, mode \in {"redo", "undo"}, mode' \in {"redo", "undo"},
         UNCHANGED <<cached, data, dirty, wal, nextTxn, txn, wrote, undo, pending, committed>>
  PROVE  IdleInv' /\ TxnInv' /\ PendingInv' /\ FrameInv' /\ ViewInv'
<1>1. cached = {}
  BY DEF CoreInv, IdleInv, Running
<1>2. IdleInv' /\ TxnInv' /\ PendingInv' /\ ViewInv'
  BY DEF CoreInv, IdleInv, TxnInv, PendingInv, ViewInv, Running
<1>3. FrameInv'
  BY <1>1 DEF FrameInv
<1> QED BY <1>2, <1>3

\* One record redone.
LEMMA RedoStep == ASSUME CoreInv, TypeOK', RedoRecord PROVE CoreInv' /\ FilesKept
<1>1. /\ mode = "redo" /\ mode' = "redo" /\ ri' = ri + 1 /\ ri \in 1..Len(wal) /\ Len(wal) \in Nat
      /\ UNCHANGED <<cached, data, dirty, wal, nextTxn, txn, wrote, undo, pending, committed>>
  BY DEF RedoRecord, pool, context, CoreInv, TypeOK
<1>2. IdleInv' /\ TxnInv' /\ PendingInv' /\ FrameInv' /\ ViewInv'
  BY <1>1, RecoveryIdle
<1>3. \A c \in Cells : disk'[c] = IF Redoes(wal, ri, c) THEN Image(wal[ri], c) ELSE disk[c]
  BY DEF RedoRecord, Redoes, Image
<1>4. LogInv' /\ FilesKept
  <2>1. \A c \in Cells : ~AnyRedo(wal, c, Len(wal)) => disk'[c] = disk[c]
    BY <1>1, <1>3 DEF AnyRedo
  <2> QED BY <1>1, <2>1 DEF CoreInv, LogInv, FileInv, FilesKept
<1>5. RedoInv'
  <2> SUFFICES ASSUME NEW c \in Cells, AnyRedo(wal, c, ri)
               PROVE  \E i \in 1..Len(wal) : LastRedo(wal, i, c, ri) /\ disk'[c] = Image(wal[i], c)
    BY <1>1 DEF RedoInv
  <2>1. CASE Redoes(wal, ri, c)
    <3>1. LastRedo(wal, ri, c, ri)
      BY <1>1, <2>1 DEF LastRedo
    <3> QED BY <1>1, <1>3, <2>1, <3>1
  <2>2. CASE ~Redoes(wal, ri, c)
    <3>1. \A i \in 1..ri : i \in 1..(ri - 1) \/ i = ri
      BY <1>1
    <3>2. AnyRedo(wal, c, ri - 1)
      BY <2>2, <3>1 DEF AnyRedo
    <3>3. PICK i \in 1..Len(wal) : LastRedo(wal, i, c, ri - 1) /\ disk[c] = Image(wal[i], c)
      BY <1>1, <3>2 DEF CoreInv, RedoInv
    <3>4. LastRedo(wal, i, c, ri)
      BY <1>1, <2>2, <3>1, <3>3 DEF LastRedo
    <3> QED BY <1>3, <2>2, <3>3, <3>4
  <2> QED BY <2>1, <2>2
<1>6. UndoInv'
  BY <1>1 DEF UndoInv
<1> QED BY <1>2, <1>4, <1>5, <1>6 DEF CoreInv

\* The last committed record of a cell is unique, so after the second pass
\* every cell with one holds its committed content.
LEMMA RedoDoneStep == ASSUME CoreInv, TypeOK', RedoDone PROVE CoreInv' /\ FilesKept
<1>1. /\ mode = "redo" /\ mode' = "undo" /\ ri' = Len(wal) /\ ri = Len(wal) + 1 /\ Len(wal) \in Nat
      /\ UNCHANGED <<disk, cached, data, dirty, wal, nextTxn, txn, wrote, undo, pending, committed>>
  BY DEF RedoDone, pool, context, CoreInv, TypeOK
<1>2. IdleInv' /\ TxnInv' /\ PendingInv' /\ FrameInv' /\ ViewInv'
  BY <1>1, RecoveryIdle
<1>3. LogInv' /\ FilesKept
  BY <1>1 DEF CoreInv, LogInv, FileInv, FilesKept
<1>4. RedoInv'
  BY <1>1 DEF RedoInv
<1>5. ASSUME NEW c \in Cells, AnyRedo(wal, c, Len(wal)) PROVE disk[c] = committed[c]
  <2>1. ri - 1 = Len(wal)
    BY <1>1
  <2>2. PICK i \in 1..Len(wal) : LastRedo(wal, i, c, Len(wal)) /\ disk[c] = Image(wal[i], c)
    BY <1>1, <1>5, <2>1 DEF CoreInv, RedoInv
  <2>3. PICK j \in 1..Len(wal) : LastRedo(wal, j, c, Len(wal)) /\ Image(wal[j], c) = committed[c]
    BY <1>5 DEF CoreInv, LogInv, FileInv, FilesKept
  <2>4. i = j
    BY <1>1, <2>2, <2>3 DEF LastRedo
  <2> QED BY <2>2, <2>3, <2>4
<1>6. \A c \in Cells : ~AnyUndo(wal, c, Len(wal) + 1)
  BY <1>1 DEF AnyUndo
<1>7. UndoInv'
  BY <1>1, <1>5, <1>6 DEF UndoInv
<1> QED BY <1>2, <1>3, <1>4, <1>7 DEF CoreInv

\* One record undone.
LEMMA UndoStep == ASSUME CoreInv, TypeOK', UndoRecord PROVE CoreInv' /\ FilesKept
<1>1. /\ mode = "undo" /\ mode' = "undo" /\ ri' = ri - 1 /\ ri \in 1..Len(wal) /\ Len(wal) \in Nat
      /\ UNCHANGED <<cached, data, dirty, wal, nextTxn, txn, wrote, undo, pending, committed>>
  BY DEF UndoRecord, pool, context, CoreInv, TypeOK
<1>2. IdleInv' /\ TxnInv' /\ PendingInv' /\ FrameInv' /\ ViewInv'
  BY <1>1, RecoveryIdle
<1>3. \A c \in Cells : disk'[c] = IF Undoes(wal, ri, c) THEN wal[ri].before[c] ELSE disk[c]
  BY DEF UndoRecord, Undoes
<1>4. LogInv' /\ FilesKept
  <2>1. \A c \in Cells : ~AnyPatch(wal, c) => disk'[c] = disk[c]
    BY <1>1, <1>3 DEF AnyPatch, Undoes
  <2> QED BY <1>1, <2>1 DEF CoreInv, LogInv, FileInv, FilesKept
<1>5. RedoInv'
  BY <1>1 DEF RedoInv
<1>6. ASSUME NEW c \in Cells, AnyRedo(wal, c, Len(wal)), ~AnyUndo(wal, c, 1) PROVE disk'[c] = committed[c]
  <2>1. ~Undoes(wal, ri, c)
    BY <1>1, <1>6 DEF AnyUndo
  <2> QED BY <1>1, <1>3, <1>6, <2>1 DEF CoreInv, UndoInv
<1>7. ASSUME NEW c \in Cells, AnyUndo(wal, c, ri)
      PROVE  \E i \in 1..Len(wal) : FirstUndo(wal, i, c, ri) /\ disk'[c] = wal[i].before[c]
  <2>1. CASE Undoes(wal, ri, c)
    <3>1. FirstUndo(wal, ri, c, ri)
      BY <1>1, <2>1 DEF FirstUndo
    <3> QED BY <1>1, <1>3, <2>1, <3>1
  <2>2. CASE ~Undoes(wal, ri, c)
    <3>1. \A i \in ri..Len(wal) : i \in (ri + 1)..Len(wal) \/ i = ri
      BY <1>1
    <3>2. AnyUndo(wal, c, ri + 1)
      BY <1>7, <2>2, <3>1 DEF AnyUndo
    <3>3. PICK i \in 1..Len(wal) : FirstUndo(wal, i, c, ri + 1) /\ disk[c] = wal[i].before[c]
      BY <1>1, <3>2 DEF CoreInv, UndoInv
    <3>4. FirstUndo(wal, i, c, ri)
      BY <1>1, <2>2, <3>1, <3>3 DEF FirstUndo
    <3> QED BY <1>3, <2>2, <3>3, <3>4
  <2> QED BY <2>1, <2>2
<1>8. UndoInv'
  <2>1. ri' + 1 = ri
    BY <1>1
  <2> QED BY <1>1, <1>6, <1>7, <2>1 DEF UndoInv
<1> QED BY <1>2, <1>4, <1>5, <1>8 DEF CoreInv

-----------------------------------------------------------------------------
(* Theorems *)

\* No operation, eviction, crash or interrupted recovery breaks the agreement of
\* log, frames, files and undo list.
LEMMA CoreStep == ASSUME CoreInv, [Next]_vars PROVE CoreInv' /\ FilesKept
<1>0. TypeOK'
  BY TypeStep DEF CoreInv
<1>1. ASSUME NEW p \in Pages, Read(p) \/ Allocate(p) \/ CheckpointFlush(p) PROVE CoreInv' /\ FilesKept
  BY <1>0, <1>1, MoveStep
<1>2. ASSUME NEW p \in Pages, NEW r \in SUBSET CellsOf(p), NEW after \in [r -> Values],
             Modify(p, after)
      PROVE  CoreInv' /\ FilesKept
  BY <1>0, <1>2, ModifyStep
<1>3. ASSUME NEW p \in HeaderPages, NEW after \in [CellsOf(p) -> Values], InitTableFile(p, after)
      PROVE  CoreInv' /\ FilesKept
  BY <1>0, <1>3, InitFileStep
<1>4. ASSUME NEW f \in Files, RemoveTableFile(f) \/ Unlink(f) PROVE CoreInv' /\ FilesKept
  BY <1>0, <1>4, DropStep, UnlinkStep
<1>5. CASE BeginTxn
  BY <1>0, <1>5, BeginStep
<1>6. CASE CommitTxn
  BY <1>0, <1>6, CommitStep
<1>7. CASE RollbackTxn \/ Checkpoint \/ Open \/ Crash
  BY <1>0, <1>7, ModeStep
<1>8. CASE RestoreRegion
  BY <1>0, <1>8, RestoreStep
<1>9. CASE FinishRollback
  BY <1>0, <1>9, AbortStep
<1>10. CASE CheckpointReset
  BY <1>0, <1>10, ResetStep
<1>11. CASE RedoRecord
  BY <1>0, <1>11, RedoStep
<1>12. CASE RedoDone
  BY <1>0, <1>12, RedoDoneStep
<1>13. CASE UndoRecord
  BY <1>0, <1>13, UndoStep
<1>14. CASE RecoverDone
  BY <1>0, <1>14, RecoverDoneStep
<1>15. CASE UNCHANGED vars
  <2>1. UNCHANGED <<disk, cached, data, dirty, wal, nextTxn, txn, wrote, undo, pending, mode,
                    ri, committed>>
    BY <1>15 DEF vars
  <2>2. IdleInv' /\ TxnInv' /\ PendingInv' /\ FrameInv' /\ LogInv' /\ FilesKept /\ RedoInv' /\ UndoInv'
    BY <2>1 DEF CoreInv, IdleInv, TxnInv, PendingInv, FrameInv, LogInv, FileInv, FilesKept, RedoInv, UndoInv, Running
  <2>3. ViewInv'
    BY <2>1 DEF CoreInv, ViewInv, View
  <2> QED BY <1>0, <2>2, <2>3 DEF CoreInv
<1> QED BY <1>1, <1>2, <1>3, <1>4, <1>5, <1>6, <1>7, <1>8, <1>9, <1>10, <1>11, <1>12, <1>13,
           <1>14, <1>15 DEF Next, Step

\* The first start finds no files.
LEMMA InitInv == Init => IInv
<1> SUFFICES ASSUME Init PROVE IInv
  OBVIOUS
<1>1. wrote \in BOOLEAN
  BY DEF Init
<1>2. TypeOK
  BY <1>1, ConstantsOK DEF Init, TypeOK, Modes
<1>3. mode = "down" /\ wal = <<>> /\ cached = {} /\ txn = NoTxn /\ disk = committed
      /\ undo = <<>> /\ pending = {} /\ wrote = FALSE
  BY DEF Init
<1>4. IdleInv /\ TxnInv /\ PendingInv /\ FrameInv /\ ViewInv /\ RedoInv /\ UndoInv
  BY <1>3 DEF IdleInv, TxnInv, PendingInv, FrameInv, ViewInv, RedoInv, UndoInv, Running
<1>5. \A c \in Cells : ~AnyRedo(wal, c, Len(wal)) /\ ~AnyUndo(wal, c, 1)
  BY <1>3, EmptyLog
<1>6. LogInv /\ FileInv
  BY <1>3, <1>5 DEF LogInv, FileInv
<1> QED BY <1>2, <1>4, <1>6 DEF IInv, CoreInv

\* IInv is inductive: no operation, eviction, crash or interrupted recovery
\* breaks the agreement of log, frames, files and undo list.
THEOREM InvariantHolds == Spec => []IInv
<1>1. Init => IInv
  BY InitInv
<1>2. IInv /\ [Next]_vars => IInv'
  BY CoreStep DEF IInv, FilesKept
<1> QED BY <1>1, <1>2, PTL DEF Spec

\* Between transactions readers see exactly the committed contents: commit,
\* rollback, eviction and checkpoint never show or lose anything else.
THEOREM QuiescentViewHolds == Spec => []QuiescentView
<1>1. IInv => QuiescentView
  BY EmptyUndo DEF IInv, CoreInv, IdleInv, ViewInv, QuiescentView
<1> QED BY <1>1, InvariantHolds, PTL

\* No byte reaches a file before the record that explains it is in the log.
THEOREM WriteAheadHolds == Spec => []WriteAhead
<1>1. IInv => WriteAhead
  BY DEF IInv, CoreInv, LogInv, FileInv, WriteAhead, AnyRedo, AnyPatch, Redoes
<1> QED BY <1>1, InvariantHolds, PTL

\* Where recovery did not restore the committed content, neither pass had
\* anything to write and only rolled-back transactions had written.
LEMMA RecoveredOrResidue ==
  ASSUME IInv, mode = "undo", ri = 0, NEW c \in Cells, disk[c] # committed[c]
  PROVE  AbortedOnly(c) /\ ~AnyRedo(wal, c, Len(wal))
<1>0. Len(wal) \in Nat
  BY DEF IInv, CoreInv, TypeOK
<1>1. ~AnyUndo(wal, c, 1)
  <2>1. SUFFICES ASSUME AnyUndo(wal, c, 1) PROVE FALSE
    OBVIOUS
  <2>2. PICK i \in 1..Len(wal) : FirstUndo(wal, i, c, 1) /\ disk[c] = wal[i].before[c]
    BY <2>1 DEF IInv, CoreInv, UndoInv
  <2>3. PICK j \in 1..Len(wal) : FirstUndo(wal, j, c, 1) /\ wal[j].before[c] = committed[c]
    BY <2>1 DEF IInv, CoreInv, LogInv, FileInv
  <2>4. i = j
    BY <1>0, <2>2, <2>3 DEF FirstUndo
  <2> QED BY <2>2, <2>3, <2>4
<1>2. ~AnyRedo(wal, c, Len(wal))
  BY <1>1 DEF IInv, CoreInv, UndoInv
<1>3. AnyPatch(wal, c)
  BY <1>2 DEF IInv, CoreInv, LogInv, FileInv
<1>4. AbortedOnly(c)
  BY <1>1, <1>2, <1>3 DEF AnyUndo, AnyRedo, AnyPatch, Undoes, Redoes, InFlight, AbortedOnly
<1> QED BY <1>2, <1>4

\* Recovery restores the committed contents wherever the crashes fell, except
\* for cells that only rolled-back transactions wrote since the checkpoint.
THEOREM RecoveryExactHolds == Spec => []RecoveryExact
<1>1. IInv => RecoveryExact
  BY RecoveredOrResidue DEF RecoveryExact
<1> QED BY <1>1, InvariantHolds, PTL

\* Between transactions, and without dirty frames, the files are the database.
LEMMA CheckpointedIsCommitted ==
  ASSUME CoreInv, mode \in {"ckpt", "close"}, dirty = {}
  PROVE  \A c \in Cells : disk[c] = committed[c]
<1>1. undo = <<>>
  BY DEF CoreInv, IdleInv
<1>2. \A c \in Cells : ~AnySaved(undo, c) /\ View(c) = disk[c]
  BY <1>1, EmptyUndo DEF CoreInv, FrameInv, View
<1> QED BY <1>2 DEF CoreInv, ViewInv

\* A checkpoint discards the log only when no file needs it any more.
THEOREM CheckpointSafe == Spec => CheckpointLosesNothing
<1>1. ASSUME IInv, [Next]_vars, mode \in {"ckpt", "close"}, wal' # wal PROVE disk = committed
  <2>1. dirty = {}
    BY <1>1 DEF Next, Step, Read, Allocate, CheckpointFlush, Modify, InitTableFile, RemoveTableFile,
                Unlink, BeginTxn, CommitTxn, RollbackTxn, RestoreRegion, FinishRollback, Checkpoint,
                CheckpointReset, Open, RedoRecord, RedoDone, UndoRecord, RecoverDone, Crash, vars
  <2>2. \A c \in Cells : disk[c] = committed[c]
    BY <1>1, <2>1, CheckpointedIsCommitted DEF IInv
  <2>3. disk \in [Cells -> Values] /\ committed \in [Cells -> Values]
    BY <1>1 DEF IInv, CoreInv, TypeOK
  <2> QED BY <2>2, <2>3
<1>2. IInv /\ [Next]_vars => [(mode \in {"ckpt", "close"} /\ wal' # wal) => disk = committed]_vars
  BY <1>1
<1> QED BY <1>2, InvariantHolds, PTL DEF Spec, CheckpointLosesNothing

-----------------------------------------------------------------------------
(* The mapped state under the kinds of change a step can make *)

\* The mapped state depends on the log only through what recovery would do.
LEMMA SameLog ==
  ASSUME wal' = wal
  PROVE  UndoneCells' = UndoneCells /\ ResidueCells' = ResidueCells
BY DEF UndoneCells, ResidueCells

\* Moving pages between files and frames is invisible.
LEMMA SameVisible ==
  ASSUME \A c \in Cells : View(c)' = View(c), pending' = pending
  PROVE  Visible' = Visible
BY DEF Visible

\* A patch or a drop of the transaction in flight adds its words to the ones
\* recovery would undo and exposes no residue.
LEMMA LoggedWrite ==
  ASSUME wal \in Seq(Records), NEW r \in Records, r.op \in {"PagePatch", "DropFile"},
         InFlight(wal, r.txn), wal' = Append(wal, r)
  PROVE  /\ UndoneCells' = UndoneCells \cup {c \in Cells : Patches(r, c)}
         /\ ResidueCells' = ResidueCells
<1> DEFINE n == Len(wal) + 1
<1>1. /\ Len(wal') = n /\ Len(wal) \in Nat /\ wal'[n] = r
      /\ \A i \in 1..Len(wal) : wal'[i] = wal[i]
  BY AppendLog
<1>2. /\ \A i \in 1..Len(wal) : i \in 1..Len(wal')
      /\ \A i \in 1..Len(wal') : i \in 1..Len(wal) \/ i = n
      /\ n \in 1..Len(wal')
  BY <1>1
<1>3. r.txn \in Nat /\ \A i \in 1..Len(wal) : wal[i].txn \in Nat
  BY DEF Records
<1>4. /\ \A t \in Nat : Aborted(wal', t) <=> Aborted(wal, t)
      /\ \A t \in Nat : Committed(wal', t) <=> Committed(wal, t)
      /\ \A t \in Nat : InFlight(wal', t) <=> InFlight(wal, t)
      /\ \A i \in 1..Len(wal), c \in Cells : Redoes(wal', i, c) <=> Redoes(wal, i, c)
      /\ \A i \in 1..Len(wal), c \in Cells : Undoes(wal', i, c) <=> Undoes(wal, i, c)
  BY AppendWrite
<1>5. ~Committed(wal', r.txn) /\ ~Aborted(wal', r.txn) /\ InFlight(wal', r.txn)
  BY <1>3, <1>4 DEF InFlight
<1>6. \A c \in Cells : (Undoes(wal', n, c) <=> Patches(r, c)) /\ ~Redoes(wal', n, c)
  BY <1>1, <1>5 DEF Undoes, Redoes
<1>7. ASSUME NEW c \in Cells
      PROVE  AnyUndo(wal', c, 1) <=> (AnyUndo(wal, c, 1) \/ Patches(r, c))
  BY <1>2, <1>4, <1>6 DEF AnyUndo
<1>8. ASSUME NEW c \in Cells
      PROVE  AnyRedo(wal', c, Len(wal')) <=> AnyRedo(wal, c, Len(wal))
  BY <1>2, <1>4, <1>6 DEF AnyRedo
<1>9. ASSUME NEW c \in Cells
      PROVE  (\E i \in 1..Len(wal') : Patches(wal'[i], c) /\ Aborted(wal', wal'[i].txn))
               <=> (\E i \in 1..Len(wal) : Patches(wal[i], c) /\ Aborted(wal, wal[i].txn))
  BY <1>1, <1>2, <1>3, <1>4, <1>5
<1>10. UndoneCells' = UndoneCells \cup {c \in Cells : Patches(r, c)}
  BY <1>7 DEF UndoneCells
<1>11. ResidueCells' = ResidueCells
  BY <1>8, <1>9 DEF ResidueCells
<1> QED BY <1>10, <1>11

\* The end record of the only transaction in flight: nothing is left to undo;
\* a Commit heals what the transaction wrote, an Abort may expose it.
LEMMA LoggedEnd ==
  ASSUME wal \in Seq(Records), NEW t \in Nat, InFlight(wal, t),
         \A i \in 1..Len(wal) : InFlight(wal, wal[i].txn) => wal[i].txn = t,
         wal' \in {Append(wal, Commit(t)), Append(wal, Abort(t))}
  PROVE  /\ UndoneCells' = {}
         /\ wal' = Append(wal, Commit(t)) => ResidueCells' \subseteq ResidueCells \ UndoneCells
         /\ wal' = Append(wal, Abort(t)) => ResidueCells' \subseteq ResidueCells \cup UndoneCells
<1> DEFINE n == Len(wal) + 1
<1>1. /\ Len(wal') = n /\ Len(wal) \in Nat
      /\ \A i \in 1..Len(wal) : wal'[i] = wal[i]
      /\ \A c \in Cells : ~Patches(wal'[n], c) /\ ~Drops(wal'[n], c)
      /\ \A i \in 1..Len(wal'), c \in Cells : ~Undoes(wal', i, c)
  BY AppendEnd
<1>2. /\ \A i \in 1..Len(wal) : i \in 1..Len(wal')
      /\ \A i \in 1..Len(wal') : i \in 1..Len(wal) \/ i = n
  BY <1>1
<1>3. \A i \in 1..Len(wal) : wal[i].txn \in Nat
  BY DEF Records
<1>4. UndoneCells' = {}
  BY <1>1 DEF UndoneCells, AnyUndo
<1>5. ASSUME NEW u \in Nat, Aborted(wal', u)
      PROVE  Aborted(wal, u) \/ (wal' = Append(wal, Abort(t)) /\ u = t)
  <2>1. /\ wal' = Append(wal, Commit(t)) => wal'[n] = Commit(t)
        /\ wal' = Append(wal, Abort(t)) => wal'[n] = Abort(t)
    BY AppendLog, RecordTypes
  <2>2. PICK i \in 1..Len(wal') : wal'[i].op = "Abort" /\ wal'[i].txn = u
    BY <1>5 DEF Aborted
  <2>3. CASE i \in 1..Len(wal)
    BY <1>1, <2>2, <2>3 DEF Aborted
  <2>4. CASE i = n
    <3>1. Commit(t).op = "Commit" /\ Abort(t).txn = t
      BY DEF Commit, Abort
    <3> QED BY <2>1, <2>2, <2>4, <3>1
  <2> QED BY <1>2, <2>3, <2>4
<1>6. ASSUME NEW c \in Cells, c \in ResidueCells'
      PROVE  /\ c \in ResidueCells \/ (wal' = Append(wal, Abort(t)) /\ c \in UndoneCells)
             /\ wal' = Append(wal, Commit(t)) => c \notin UndoneCells
  <2>1. PICK i \in 1..Len(wal') : Patches(wal'[i], c) /\ Aborted(wal', wal'[i].txn)
    BY <1>6 DEF ResidueCells
  <2>2. i \in 1..Len(wal) /\ wal'[i] = wal[i] /\ wal[i].txn \in Nat
    BY <1>1, <1>2, <1>3, <2>1
  <2>3. ~AnyRedo(wal', c, Len(wal'))
    BY <1>6 DEF ResidueCells
  <2>4. \A j \in 1..Len(wal) : Redoes(wal, j, c) => Redoes(wal', j, c)
    BY AppendEnd
  <2>5. ~AnyRedo(wal, c, Len(wal))
    BY <1>2, <2>3, <2>4 DEF AnyRedo
  <2>6. c \in ResidueCells \/ (wal' = Append(wal, Abort(t)) /\ c \in UndoneCells)
    <3>1. CASE Aborted(wal, wal[i].txn)
      BY <2>1, <2>2, <2>5, <3>1 DEF ResidueCells
    <3>2. CASE wal' = Append(wal, Abort(t)) /\ wal[i].txn = t
      BY <2>1, <2>2, <3>2 DEF UndoneCells, AnyUndo, Undoes
    <3> QED BY <1>5, <2>1, <2>2, <3>1, <3>2
  <2>7. ASSUME wal' = Append(wal, Commit(t)), c \in UndoneCells PROVE FALSE
    <3>1. PICK j \in 1..Len(wal) : Patches(wal[j], c) /\ InFlight(wal, wal[j].txn)
      BY <2>7 DEF UndoneCells, AnyUndo, Undoes
    <3>2. Redoes(wal', j, c)
      BY <2>7, <3>1, AppendEnd
    <3> QED BY <1>2, <2>3, <3>1, <3>2 DEF AnyRedo
  <2> QED BY <2>6, <2>7
<1>7. \A c : c \in ResidueCells' => c \in Cells
  BY DEF ResidueCells
<1>8. wal' = Append(wal, Commit(t)) => ResidueCells' \subseteq ResidueCells \ UndoneCells
  <2>1. Commit(t) # Abort(t)
    BY DEF Commit, Abort
  <2>2. wal' = Append(wal, Commit(t)) => wal' # Append(wal, Abort(t))
    BY <2>1, AppendLog, RecordTypes
  <2> QED BY <1>6, <1>7, <2>2
<1>9. wal' = Append(wal, Abort(t)) => ResidueCells' \subseteq ResidueCells \cup UndoneCells
  BY <1>6, <1>7
<1> QED BY <1>4, <1>8, <1>9


-----------------------------------------------------------------------------
(* Invisible steps *)

\* A step that changes no mapped variable is a stutter of the store.
LEMMA Stutter ==
  ASSUME committed' = committed, MappedWork' = MappedWork, MappedStatus' = MappedStatus,
         MappedTouched' = MappedTouched, MappedTainted' = MappedTainted
  PROVE  UNCHANGED Store!storeVars
BY DEF Store!storeVars

\* Loads, evictions, allocations and flushes.
LEMMA MoveMaps ==
  ASSUME IInv, NEW p \in Pages, Read(p) \/ Allocate(p) \/ CheckpointFlush(p)
  PROVE  UNCHANGED Store!storeVars
<1>1. UNCHANGED <<wal, txn, pending, mode, committed>>
  BY DEF Read, Allocate, CheckpointFlush, context
<1>2. \A c \in Cells : View(c)' = View(c)
  BY ReadMoves DEF IInv
<1>3. Visible' = Visible /\ UndoneCells' = UndoneCells /\ ResidueCells' = ResidueCells
  BY <1>1, <1>2, SameVisible, SameLog
<1> QED BY <1>1, <1>3, Stutter
        DEF MappedWork, MappedStatus, MappedTouched, MappedTainted, Running

\* The start of a checkpoint, the restores of a rollback, recovery's passes.
LEMMA PassMaps ==
  ASSUME IInv,
         Checkpoint \/ RestoreRegion \/ Open \/ RedoRecord \/ RedoDone \/ UndoRecord
  PROVE  UNCHANGED Store!storeVars
<1>1. UNCHANGED <<wal, txn, pending, committed>>
  BY DEF Checkpoint, RestoreRegion, Open, RedoRecord, RedoDone, UndoRecord, pool, context
<1>2. UndoneCells' = UndoneCells /\ ResidueCells' = ResidueCells
  BY <1>1, SameLog
<1>3. \/ mode = "up" /\ txn = NoTxn /\ mode' \in {"ckpt", "close"} /\ UNCHANGED <<disk, cached, data>>
      \/ mode = "rollback" /\ mode' = "rollback"
      \/ mode \in {"down", "redo", "undo"} /\ mode' \in {"down", "redo", "undo"}
  BY DEF Checkpoint, RestoreRegion, Open, RedoRecord, RedoDone, UndoRecord, pool
<1>4. CASE mode = "up" /\ txn = NoTxn /\ mode' \in {"ckpt", "close"} /\ UNCHANGED <<disk, cached, data>>
  <2>1. \A c \in Cells : View(c)' = View(c)
    BY <1>4 DEF View
  <2>2. Visible' = Visible
    BY <1>1, <2>1, SameVisible
  <2> QED BY <1>1, <1>2, <1>4, <2>2, Stutter
          DEF MappedWork, MappedStatus, MappedTouched, MappedTainted, Running
<1>5. CASE mode = "rollback" /\ mode' = "rollback"
  BY <1>1, <1>2, <1>5, Stutter
  DEF MappedWork, MappedStatus, MappedTouched, MappedTainted, Running
<1>6. CASE mode \in {"down", "redo", "undo"} /\ mode' \in {"down", "redo", "undo"}
  BY <1>1, <1>2, <1>6, Stutter
  DEF MappedWork, MappedStatus, MappedTouched, MappedTainted, Running
<1> QED BY <1>3, <1>4, <1>5, <1>6

\* What the log holds once nothing is in flight.
LEMMA NothingUndone ==
  ASSUME IInv, Running, wrote = FALSE \/ txn = NoTxn
  PROVE  UndoneCells = {}
<1>1. wrote = FALSE
  BY DEF IInv, CoreInv, IdleInv
<1>2. \A i \in 1..Len(wal) : ~InFlight(wal, wal[i].txn)
  BY <1>1 DEF IInv, CoreInv, TxnInv
<1> QED BY <1>2 DEF UndoneCells, AnyUndo, Undoes

\* The unlinks after a commit: the last one shows the committed contents.
LEMMA UnlinkMaps ==
  ASSUME IInv, IInv', NEW f \in Files, Unlink(f)
  PROVE  UNCHANGED Store!storeVars
<1>1. /\ mode = "unlink" /\ mode' \in {"unlink", "up"} /\ UNCHANGED <<wal, committed>>
      /\ mode' = "up" => txn' = NoTxn
  BY DEF Unlink
<1>2. UndoneCells' = UndoneCells /\ ResidueCells' = ResidueCells
  BY <1>1, SameLog
<1>3. ASSUME mode' = "up" PROVE Visible' = committed
  <2>1. pending' = {} /\ undo' = <<>>
    BY <1>1, <1>3 DEF IInv, CoreInv, IdleInv
  <2>2. \A c \in Cells : View(c)' = committed[c]
    BY <1>1, <1>3, <2>1, EmptyUndo DEF IInv, CoreInv, ViewInv
  <2>3. committed \in [Cells -> Values]
    BY DEF IInv, CoreInv, TypeOK
  <2> QED BY <2>1, <2>2, <2>3 DEF Visible
<1> QED BY <1>1, <1>2, <1>3, Stutter
        DEF MappedWork, MappedStatus, MappedTouched, MappedTainted, Running

-----------------------------------------------------------------------------
(* Steps of the open transaction *)

\* begin_txn opens the store's transaction.
LEMMA BeginMaps == ASSUME IInv, BeginTxn PROVE Store!Begin
<1>1. /\ mode = "up" /\ txn = NoTxn /\ txn' # NoTxn
      /\ UNCHANGED <<disk, cached, data, wal, pending, mode, committed>>
  BY DEF BeginTxn, pool, IInv, CoreInv, TypeOK, NoTxn
<1>2. Visible' = Visible
  <2>1. \A c \in Cells : View(c)' = View(c)
    BY <1>1 DEF View
  <2> QED BY <1>1, <2>1, SameVisible
<1>3. UndoneCells' = UndoneCells /\ ResidueCells' = ResidueCells
  BY <1>1, SameLog
<1> QED BY <1>1, <1>2, <1>3
        DEF Store!Begin, MappedWork, MappedStatus, MappedTouched, MappedTainted, Running

\* A patch whose after image is what readers see next writes its words.
LEMMA PatchMaps ==
  ASSUME IInv, TypeOK', mode = "up", txn # NoTxn, UNCHANGED <<txn, pending, mode, committed>>,
         NEW before \in Images, NEW after \in Images,
         wal' = Append(wal, PagePatch(txn, before, after)),
         \A c \in Cells : c \in DOMAIN after \/ View(c)' = View(c)
  PROVE  Store!Write
<1> DEFINE r  == PagePatch(txn, before, after)
           ws == {c \in Cells : c \in DOMAIN after}
<1>1. /\ wal \in Seq(Records) /\ txn \in Nat /\ r \in Records /\ r.op = "PagePatch" /\ r.txn = txn
      /\ \A c : Patches(r, c) <=> c \in DOMAIN after
  BY RecordTypes DEF IInv, CoreInv, TypeOK, PagePatch, Patches
<1>2. InFlight(wal, txn)
  BY DEF IInv, CoreInv, TxnInv, Running
<1>3. UndoneCells' = UndoneCells \cup ws /\ ResidueCells' = ResidueCells
  BY <1>1, <1>2, LoggedWrite
<1>4. Visible' \in [Cells -> Values]
  BY ConstantsOK DEF Visible, View, TypeOK
<1>5. \A c \in Cells \ ws : Visible'[c] = Visible[c]
  BY DEF Visible
<1>6. UndoneCells \subseteq UndoneCells' /\ UndoneCells' \subseteq Cells
  BY <1>3 DEF UndoneCells
<1>7. \A c \in Cells \ UndoneCells' : Visible'[c] = Visible[c]
  BY <1>3, <1>5
<1> QED BY <1>3, <1>4, <1>6, <1>7
        DEF Store!Write, MappedWork, MappedStatus, MappedTouched, MappedTainted, Running

\* mark_dirty with its page diff is a write of the open transaction.
LEMMA ModifyMaps ==
  ASSUME IInv, TypeOK', NEW p \in Pages, NEW r \in SUBSET CellsOf(p), NEW after \in [r -> Values],
         Modify(p, after)
  PROVE  Store!Write
<1> DEFINE before == [c \in DOMAIN after |-> data[c]]
<1>1. before \in [r -> Values] /\ before # after
  BY DEF IInv, CoreInv, TypeOK, CellsOf, Modify
<1>2. r # {}
  BY <1>1
<1>3. before \in Images /\ after \in Images
  BY <1>1, <1>2, ImageType
<1>4. \A c \in Cells : c \in DOMAIN after \/ data'[c] = data[c]
  BY <1>3, OverwriteType DEF IInv, CoreInv, TypeOK, Modify
<1>5. /\ mode = "up" /\ txn # NoTxn /\ UNCHANGED <<txn, pending, mode, committed, cached, disk>>
      /\ wal' = Append(wal, PagePatch(txn, before, after))
  BY DEF Modify
<1>6. \A c \in Cells : c \in DOMAIN after \/ View(c)' = View(c)
  BY <1>4, <1>5 DEF View
<1> QED BY <1>3, <1>5, <1>6, PatchMaps

\* The first page of a new file is a write of the open transaction.
LEMMA InitFileMaps ==
  ASSUME IInv, TypeOK', NEW p \in HeaderPages, NEW after \in [CellsOf(p) -> Values],
         InitTableFile(p, after)
  PROVE  Store!Write
<1> USE ConstantsOK
<1> DEFINE zeros == [c \in CellsOf(p) |-> Zero]
<1>1. zeros \in [CellsOf(p) -> Values] /\ zeros # after /\ p \in Pages
  BY DEF InitTableFile
<1>2. CellsOf(p) # {}
  BY <1>1
<1>3. zeros \in Images /\ after \in Images /\ DOMAIN after = CellsOf(p)
  BY <1>1, <1>2, ImageType
<1>4. PICK victim \in Victims :
        /\ Install(p, victim, Overwrite(disk, after))
        /\ disk' = [c \in Cells |->
                      IF PageOf[c] = p THEN after[c]
                      ELSE IF InFile(c, FileOf[p]) THEN Zero
                      ELSE IF PageOf[c] \in victim \cap dirty THEN data[c] ELSE disk[c]]
  BY DEF InitTableFile
<1>5. victim \subseteq cached /\ \A c \in Cells : InFile(c, FileOf[p]) => View(c) = Zero
  BY <1>4 DEF Victims, InitTableFile
<1>6. /\ cached' = (cached \ victim) \cup {p}
      /\ \A c \in Cells : PageOf[c] # p =>
           data'[c] = IF PageOf[c] \in victim THEN Zero ELSE data[c]
      /\ \A c \in Cells : PageOf[c] # p =>
           disk'[c] = IF InFile(c, FileOf[p]) THEN Zero
                      ELSE IF PageOf[c] \in victim \cap dirty THEN data[c] ELSE disk[c]
  BY <1>4 DEF Install
<1>7. \A c \in Cells : PageOf[c] # p => View(c)' = View(c)
  BY <1>5, <1>6 DEF View, IInv, CoreInv, FrameInv
<1>8. \A c \in Cells : c \in DOMAIN after <=> PageOf[c] = p
  BY <1>3 DEF CellsOf
<1>9. /\ mode = "up" /\ txn # NoTxn /\ UNCHANGED <<txn, pending, mode, committed>>
      /\ wal' = Append(wal, PagePatch(txn, zeros, after))
  BY DEF InitTableFile
<1>10. \A c \in Cells : c \in DOMAIN after \/ View(c)' = View(c)
  BY <1>7, <1>8
<1> QED BY <1>3, <1>9, <1>10, PatchMaps

\* remove_table_file empties the file's words for the open transaction.
LEMMA DropMaps ==
  ASSUME IInv, NEW f \in Files, RemoveTableFile(f)
  PROVE  Store!Drop({c \in Cells : InFile(c, f)})
<1> DEFINE r == DropFile(txn, f)
<1>1. /\ mode = "up" /\ txn # NoTxn /\ wal' = Append(wal, r) /\ pending' = pending \cup {f}
      /\ UNCHANGED <<txn, mode, committed>>
      /\ wal \in Seq(Records) /\ r \in Records /\ r.op = "DropFile" /\ r.txn = txn
      /\ \A c : ~Patches(r, c)
  BY RecordTypes DEF RemoveTableFile, IInv, CoreInv, TypeOK, DropFile, Patches
<1>2. InFlight(wal, txn)
  BY <1>1 DEF IInv, CoreInv, TxnInv, Running
<1>3. UndoneCells' = UndoneCells /\ ResidueCells' = ResidueCells
  <2>1. {c \in Cells : Patches(r, c)} = {}
    BY <1>1
  <2>2. UndoneCells' = UndoneCells \cup {c \in Cells : Patches(r, c)} /\ ResidueCells' = ResidueCells
    BY <1>1, <1>2, LoggedWrite
  <2> QED BY <2>1, <2>2
<1>4. \A c \in Cells : View(c)' = View(c)
  BY DEF RemoveTableFile, WriteBack, View, IInv, CoreInv, FrameInv
<1>5. Visible' = [c \in Cells |-> IF c \in {d \in Cells : InFile(d, f)} THEN Zero ELSE Visible[c]]
  BY <1>1, <1>4 DEF Visible, InFile
<1> QED BY <1>1, <1>3, <1>5
        DEF Store!Drop, MappedWork, MappedStatus, MappedTouched, MappedTainted, Running

-----------------------------------------------------------------------------
(* The ends of transactions *)

\* Between transactions, and once everything is restored, readers see the
\* committed contents.
LEMMA VisibleIsCommitted ==
  ASSUME IInv, mode \in {"up", "ckpt", "close"}, txn = NoTxn
  PROVE  Visible = committed
<1>1. undo = <<>> /\ pending = {}
  BY DEF IInv, CoreInv, IdleInv
<1>2. \A c \in Cells : View(c) = committed[c]
  BY <1>1, EmptyUndo DEF IInv, CoreInv, ViewInv
<1>3. committed \in [Cells -> Values]
  BY DEF IInv, CoreInv, TypeOK
<1> QED BY <1>1, <1>2, <1>3 DEF Visible

\* The same of the state after a step.
LEMMA VisibleIsCommittedNext ==
  ASSUME IInv', mode' \in {"up", "ckpt", "close"}, txn' = NoTxn
  PROVE  Visible' = committed'
<1>1. undo' = <<>> /\ pending' = {}
  BY DEF IInv, CoreInv, IdleInv
<1>2. \A c \in Cells : View(c)' = committed'[c]
  BY <1>1, EmptyUndo DEF IInv, CoreInv, ViewInv
<1>3. committed' \in [Cells -> Values]
  BY DEF IInv, CoreInv, TypeOK
<1> QED BY <1>1, <1>2, <1>3 DEF Visible

\* The step that writes the Commit record publishes the transaction's work.
LEMMA CommitMaps == ASSUME IInv, IInv', CommitTxn PROVE Store!Publish
<1>1. /\ mode = "up" /\ txn # NoTxn /\ committed' = Visible
      /\ wal' = IF wrote THEN Append(wal, Commit(txn)) ELSE wal
      /\ (txn' = NoTxn /\ mode' = "up") \/ (txn' = txn /\ mode' = "unlink")
  BY DEF CommitTxn, Visible
<1>2. /\ wal \in Seq(Records) /\ txn \in Nat /\ InFlight(wal, txn)
      /\ \A i \in 1..Len(wal) : InFlight(wal, wal[i].txn) => wal[i].txn = txn
  BY <1>1 DEF IInv, CoreInv, TypeOK, TxnInv, Running
<1>3. UndoneCells' = {} /\ ResidueCells' \subseteq ResidueCells \ UndoneCells
  <2>1. CASE wrote
    BY <1>1, <1>2, <2>1, LoggedEnd
  <2>2. CASE wrote = FALSE
    <3>1. UndoneCells = {}
      BY <1>1, <2>2, NothingUndone DEF Running
    <3> QED BY <1>1, <2>2, <3>1, SameLog
  <2> QED BY <2>1, <2>2 DEF IInv, CoreInv, TypeOK
<1>4. MappedWork' = Visible
  <2>1. CASE mode' = "up"
    <3>1. Visible' = committed'
      BY <1>1, <2>1, VisibleIsCommittedNext
    <3> QED BY <1>1, <2>1, <3>1 DEF MappedWork
  <2>2. CASE mode' = "unlink"
    BY <1>1, <2>2 DEF MappedWork
  <2> QED BY <1>1, <2>1, <2>2
<1> QED BY <1>1, <1>3, <1>4
        DEF Store!Publish, MappedWork, MappedStatus, MappedTouched, MappedTainted, Running

\* rollback_txn gives up the open transaction's work.
LEMMA RollbackMaps == ASSUME IInv, RollbackTxn PROVE Store!Discard
<1>1. mode = "up" /\ txn # NoTxn /\ mode' = "rollback" /\ UNCHANGED <<wal, txn, committed>>
  BY DEF RollbackTxn, context
<1>2. UndoneCells' = UndoneCells /\ ResidueCells' = ResidueCells
  BY <1>1, SameLog
<1> QED BY <1>1, <1>2
        DEF Store!Discard, MappedWork, MappedStatus, MappedTouched, MappedTainted, Running

\* The Abort record ends the roll-back.
LEMMA AbortMaps == ASSUME IInv, IInv', FinishRollback PROVE Store!Discarded
<1>1. /\ mode = "rollback" /\ mode' = "up" /\ txn' = NoTxn /\ committed' = committed
      /\ wal' = IF wrote THEN Append(wal, Abort(txn)) ELSE wal
  BY DEF FinishRollback
<1>2. /\ wal \in Seq(Records) /\ txn \in Nat /\ InFlight(wal, txn)
      /\ \A i \in 1..Len(wal) : InFlight(wal, wal[i].txn) => wal[i].txn = txn
  BY <1>1 DEF IInv, CoreInv, TypeOK, IdleInv, TxnInv, Running
<1>3. UndoneCells' = {} /\ ResidueCells' \subseteq ResidueCells \cup UndoneCells
  <2>1. CASE wrote
    BY <1>1, <1>2, <2>1, LoggedEnd
  <2>2. CASE wrote = FALSE
    <3>1. UndoneCells = {}
      BY <1>1, <2>2, NothingUndone DEF Running
    <3> QED BY <1>1, <2>2, <3>1, SameLog
  <2> QED BY <2>1, <2>2 DEF IInv, CoreInv, TypeOK
<1>4. Visible' = committed
  BY <1>1, VisibleIsCommittedNext
<1> QED BY <1>1, <1>3, <1>4
        DEF Store!Discarded, MappedWork, MappedStatus, MappedTouched, MappedTainted, Running

-----------------------------------------------------------------------------
(* Checkpoint, crash and the end of recovery *)

\* An empty log holds nothing to undo and no residue.
LEMMA EmptyLogMaps ==
  ASSUME wal' = <<>>
  PROVE  UndoneCells' = {} /\ ResidueCells' = {}
<1>1. Len(wal') = 0 /\ \A c \in Cells : ~AnyUndo(wal', c, 1)
  BY EmptyLog
<1> QED BY <1>1 DEF UndoneCells, ResidueCells

\* Emptying the log ends a checkpoint.
LEMMA ResetMaps == ASSUME IInv, IInv', CheckpointReset PROVE Store!Checkpoint
<1>1. /\ mode \in {"ckpt", "close"} /\ mode' \in {"down", "up"} /\ wal' = <<>>
      /\ UNCHANGED <<txn, committed>>
  BY DEF CheckpointReset, context
<1>2. txn = NoTxn /\ txn' = NoTxn
  BY <1>1 DEF IInv, CoreInv, IdleInv
<1>3. UndoneCells' = {} /\ ResidueCells' = {} /\ UndoneCells = {}
  BY <1>1, <1>2, EmptyLogMaps, NothingUndone DEF Running
<1>4. Visible = committed /\ (mode' = "up" => Visible' = committed')
  BY <1>1, <1>2, VisibleIsCommitted, VisibleIsCommittedNext
<1> QED BY <1>1, <1>2, <1>3, <1>4
        DEF Store!Checkpoint, MappedWork, MappedStatus, MappedTouched, MappedTainted, Running

\* A crash discards the open transaction; during recovery it is invisible.
LEMMA CrashMaps == ASSUME IInv, Crash PROVE Store!Crash \/ UNCHANGED Store!storeVars
<1>1. mode # "down" /\ mode' = "down" /\ UNCHANGED <<wal, committed>>
  BY DEF Crash
<1>2. UndoneCells' = UndoneCells /\ ResidueCells' = ResidueCells
  BY <1>1, SameLog
<1>3. CASE Running
  BY <1>1, <1>2, <1>3
  DEF Store!Crash, MappedWork, MappedStatus, MappedTouched, MappedTainted, Running
<1>4. CASE ~Running
  <2>1. mode \in {"redo", "undo"}
    BY <1>1, <1>4 DEF IInv, CoreInv, TypeOK, Modes, Running
  <2> QED BY <1>1, <1>2, <2>1, Stutter
          DEF MappedWork, MappedStatus, MappedTouched, MappedTainted, Running
<1> QED BY <1>3, <1>4

\* Recovery brings back the committed contents outside the residue.
LEMMA RecoverMaps == ASSUME IInv, IInv', RecoverDone PROVE Store!Restart
<1>1. /\ mode = "undo" /\ ri = 0 /\ mode' = "up" /\ wal' = <<>> /\ committed' = disk
      /\ txn' = txn /\ txn = NoTxn
  BY DEF RecoverDone, context, IInv, CoreInv, IdleInv, Running
<1>2. UndoneCells' = {} /\ ResidueCells' = {}
  BY <1>1, EmptyLogMaps
<1>3. ASSUME NEW c \in Cells, disk[c] # committed[c] PROVE c \in ResidueCells \ UndoneCells
  <2>1. AbortedOnly(c)
    BY <1>1, <1>3, RecoveredOrResidue
  <2>2. /\ \E i \in 1..Len(wal) : Patches(wal[i], c) /\ Aborted(wal, wal[i].txn)
        /\ \A i \in 1..Len(wal) : Patches(wal[i], c) => ~InFlight(wal, wal[i].txn)
    BY <2>1 DEF AbortedOnly, InFlight
  <2>3. ~AnyRedo(wal, c, Len(wal))
    BY <1>1, <1>3, RecoveredOrResidue
  <2> QED BY <2>2, <2>3 DEF ResidueCells, UndoneCells, AnyUndo, Undoes
<1>4. disk \in [Cells -> Values]
  BY DEF IInv, CoreInv, TypeOK
<1>5. Visible' = committed'
  BY <1>1, VisibleIsCommittedNext
<1> QED BY <1>1, <1>2, <1>3, <1>4, <1>5
        DEF Store!Restart, MappedWork, MappedStatus, MappedTouched, MappedTainted, Running

-----------------------------------------------------------------------------
(* The refinement *)

\* The storage engine implements the transactional store: its callers cannot
\* tell the engine, with its evictions, undo lists, log and recovery, from a
\* store that commits, discards and restarts in single steps.
THEOREM EngineImplements == Spec => Implements
<1>1. Init => Store!Init
  <2> SUFFICES ASSUME Init PROVE Store!Init
    OBVIOUS
  <2>1. /\ mode = "down" /\ wal = <<>> /\ committed = [c \in Cells |-> Zero]
    BY DEF Init
  <2>2. UndoneCells = {} /\ ResidueCells = {}
    BY <2>1 DEF UndoneCells, ResidueCells, AnyUndo
  <2> QED BY <2>1, <2>2
          DEF Store!Init, MappedWork, MappedStatus, MappedTouched, MappedTainted, Running
<1>2. ASSUME IInv, IInv', [Next]_vars PROVE Store!Next \/ UNCHANGED Store!storeVars
  <2> USE <1>2
  <2>0. TypeOK'
    BY DEF IInv, CoreInv
  <2>1. ASSUME NEW p \in Pages, Read(p) \/ Allocate(p) \/ CheckpointFlush(p)
        PROVE  UNCHANGED Store!storeVars
    BY <2>1, MoveMaps
  <2>2. ASSUME NEW p \in Pages, NEW r \in SUBSET CellsOf(p), NEW after \in [r -> Values],
               Modify(p, after)
        PROVE  Store!Next
    BY <2>0, <2>2, ModifyMaps DEF Store!Next
  <2>3. ASSUME NEW p \in HeaderPages, NEW after \in [CellsOf(p) -> Values], InitTableFile(p, after)
        PROVE  Store!Next
    BY <2>0, <2>3, InitFileMaps DEF Store!Next
  <2>4. ASSUME NEW f \in Files, RemoveTableFile(f) PROVE Store!Next
    BY <2>4, DropMaps DEF Store!Next
  <2>5. ASSUME NEW f \in Files, Unlink(f) PROVE UNCHANGED Store!storeVars
    BY <2>5, UnlinkMaps
  <2>6. CASE Checkpoint \/ RestoreRegion \/ Open \/ RedoRecord \/ RedoDone \/ UndoRecord
    BY <2>6, PassMaps
  <2>7. CASE BeginTxn \/ CommitTxn \/ RollbackTxn \/ FinishRollback
    BY <2>7, BeginMaps, CommitMaps, RollbackMaps, AbortMaps DEF Store!Next
  <2>8. CASE CheckpointReset \/ RecoverDone \/ Crash
    BY <2>8, ResetMaps, RecoverMaps, CrashMaps DEF Store!Next
  <2>9. CASE UNCHANGED vars
    <3>1. UNCHANGED <<disk, cached, data, wal, txn, pending, mode, committed>>
      BY <2>9 DEF vars
    <3>2. \A c \in Cells : View(c)' = View(c)
      BY <3>1 DEF View
    <3>3. Visible' = Visible /\ UndoneCells' = UndoneCells /\ ResidueCells' = ResidueCells
      BY <3>1, <3>2, SameVisible, SameLog
    <3> QED BY <3>1, <3>3, Stutter
            DEF MappedWork, MappedStatus, MappedTouched, MappedTainted, Running
  <2> QED BY <2>1, <2>2, <2>3, <2>4, <2>5, <2>6, <2>7, <2>8, <2>9 DEF Next, Step
<1>3. IInv /\ IInv' /\ [Next]_vars => [Store!Next]_(Store!storeVars)
  BY <1>2
<1> QED BY <1>1, <1>3, InvariantHolds, PTL DEF Spec, Implements, Store!Spec

-----------------------------------------------------------------------------
(* Power loss. A cut may leave any values in the files and only a prefix of  *)
(* the log. CoreInv does not speak of words without a record: SpoiltInv says *)
(* that the platter has the committed content of those, or they are exposed. *)
(* Of the others every such prefix still says what the whole log said: it    *)
(* has all the Commit records (SyncInv) and the records of their             *)
(* transactions, which lie before them (OrderInv). But a transaction whose Abort record is cut off is in flight again and    *)
(* will be undone: LooseInv says that this too brings the committed contents *)
(* back.                                                                     *)

Ends(r) == r.op \in {"Commit", "Abort"}

\* A transaction logs nothing after its end.
OrderInv == \A i, k \in 1..Len(wal) : Ends(wal[k]) /\ wal[i].txn = wal[k].txn => i <= k

\* Every Commit record is durable.
SyncInv ==
  /\ synced \in 0..Len(wal)
  /\ \A i \in 1..Len(wal) : wal[i].op = "Commit" => i <= synced

\* A word without a committed record has its committed content in the file and,
\* after any power cut, on the platter, unless it is exposed.
SpoiltInv ==
  \A c \in Cells : AnyRedo(wal, c, Len(wal)) \/ c \in exposed
                   \/ (disk[c] = committed[c] /\ maybe[c] = {committed[c]})

\* Transaction t is in flight in some prefix that a power cut may leave of w
\* when the first s records are durable.
Loose(w, t, s) == \A k \in 1..Len(w) : Ends(w[k]) /\ w[k].txn = t => k > s

\* Record i is its transaction's first patch of cell c.
FirstPatch(w, i, c) ==
  /\ i \in 1..Len(w) /\ Patches(w[i], c)
  /\ \A j \in 1..Len(w) : j < i /\ w[j].txn = w[i].txn => ~Patches(w[j], c)

\* Undoing such a transaction restores the committed contents: nothing was
\* committed after it.
LooseInv ==
  \A c \in Cells : \A i \in 1..Len(wal) :
    FirstPatch(wal, i, c) /\ Loose(wal, wal[i].txn, synced) => wal[i].before[c] = committed[c]

PInv == CoreInv /\ OrderInv /\ SyncInv /\ LooseInv /\ SpoiltInv

-----------------------------------------------------------------------------
(* A power cut *)

\* A set of positions has a first.
LEMMA FirstPosition ==
  ASSUME NEW S, S \subseteq Nat, S # {}
  PROVE  \E x \in S : \A y \in S : ~(y < x)
<1>1. PICK x \in S : \A y \in S : ~(<<y, x>> \in OpToRel(<, Nat))
  BY NatLessThanWellFounded, WFMin, Zenon
<1>2. \A y \in S : ~(<<y, x>> \in {ss \in Nat \X Nat : ss[1] < ss[2]})
  BY <1>1 DEF OpToRel
<1> QED BY <1>2

\* A prefix with all the Commit records redoes what the whole log does, and a
\* transaction in flight in it is loose.
LEMMA CutLog ==
  ASSUME PInv, NEW n \in synced..Len(wal), NEW w, w = SubSeq(wal, 1, n)
  PROVE  /\ Len(w) = n /\ n \in Nat /\ n <= Len(wal)
         /\ \A i \in 1..n : w[i] = wal[i] /\ i \in 1..Len(wal)
         /\ \A i \in 1..n, c \in Cells : Redoes(w, i, c) <=> Redoes(wal, i, c)
         /\ \A i \in 1..Len(wal), c \in Cells : Redoes(wal, i, c) => i \in 1..n
         /\ \A t : InFlight(w, t) \/ Loose(w, t, n) => Loose(wal, t, synced) /\ InFlight(w, t)
<1>0. wal \in Seq(Records) /\ Len(wal) \in Nat /\ synced \in Nat /\ n \in Nat /\ synced <= n /\ n <= Len(wal)
  BY DEF PInv, CoreInv, TypeOK, SyncInv
<1>1. /\ Len(w) = n
      /\ \A i \in 1..n : w[i] = wal[i] /\ i \in 1..Len(wal)
  BY <1>0
<1>2. \A i \in 1..Len(wal) : wal[i].op = "Commit" => i \in 1..n
  <2>1. \A i \in 1..Len(wal) : wal[i].op = "Commit" => i <= synced
    BY DEF PInv, SyncInv
  <2> QED BY <1>0, <2>1
<1>3. \A t : Committed(w, t) <=> Committed(wal, t)
  BY <1>1, <1>2 DEF Committed
<1>4. \A i \in 1..n, c \in Cells : Redoes(w, i, c) <=> Redoes(wal, i, c)
  BY <1>1, <1>3 DEF Redoes
<1>5. ASSUME NEW i \in 1..Len(wal), NEW c \in Cells, Redoes(wal, i, c) PROVE i \in 1..n
  <2>1. PICK k \in 1..Len(wal) : wal[k].op = "Commit" /\ wal[k].txn = wal[i].txn
    BY <1>5 DEF Redoes, Committed
  <2>2. i <= k
    BY <2>1 DEF PInv, OrderInv, Ends
  <2> QED BY <1>0, <1>2, <2>1, <2>2
<1>6. ASSUME NEW t, InFlight(w, t) \/ Loose(w, t, n) PROVE Loose(wal, t, synced) /\ InFlight(w, t)
  <2>1. \A k \in 1..n : ~(Ends(w[k]) /\ w[k].txn = t)
    BY <1>0, <1>1, <1>6 DEF InFlight, Committed, Aborted, Loose, Ends
  <2>2. InFlight(w, t)
    BY <1>1, <2>1 DEF InFlight, Committed, Aborted, Ends
  <2>3. ASSUME NEW k \in 1..Len(wal), Ends(wal[k]), wal[k].txn = t PROVE k > synced
    <3>1. k \notin 1..n
      BY <1>1, <2>1, <2>3
    <3> QED BY <1>0, <3>1
  <2> QED BY <2>2, <2>3 DEF Loose
<1> QED BY <1>0, <1>1, <1>4, <1>5, <1>6

\* Whatever a power cut leaves, the log says the same of the committed
\* contents as before.
LEMMA PowerLossStep == ASSUME PInv, PowerLoss PROVE PInv'
<1>1. PICK n \in synced..Len(wal) : wal' = SubSeq(wal, 1, n) /\ synced' = n
  BY DEF PowerLoss
<1>2. /\ Len(wal') = n /\ n \in Nat /\ n <= Len(wal)
      /\ \A i \in 1..n : wal'[i] = wal[i] /\ i \in 1..Len(wal)
      /\ \A i \in 1..n, c \in Cells : Redoes(wal', i, c) <=> Redoes(wal, i, c)
      /\ \A i \in 1..Len(wal), c \in Cells : Redoes(wal, i, c) => i \in 1..n
      /\ \A t : InFlight(wal', t) \/ Loose(wal', t, n) => Loose(wal, t, synced) /\ InFlight(wal', t)
  BY <1>1, CutLog
<1>3. /\ disk' \in [Cells -> Values] /\ committed' = committed /\ exposed' = exposed
      /\ cached' = {} /\ dirty' = {} /\ data' = [c \in Cells |-> Zero]
      /\ txn' = NoTxn /\ wrote' = FALSE /\ undo' = <<>> /\ pending' = {}
      /\ nextTxn' = 1 /\ mode' = "down" /\ ri' = 0
  BY DEF PowerLoss
<1>4. ASSUME NEW c \in Cells, NEW i \in 1..n, FirstPatch(wal', i, c), InFlight(wal', wal'[i].txn)
      PROVE  wal'[i].before[c] = committed[c]
  <2>1. FirstPatch(wal, i, c)
    BY <1>2, <1>4 DEF FirstPatch
  <2> QED BY <1>2, <1>4, <2>1 DEF PInv, LooseInv
<1>5. TypeOK'
  <2>1. wal' \in Seq(Records)
    BY <1>1, <1>2 DEF PInv, CoreInv, TypeOK
  <2>2. \A i \in 1..Len(wal') : wal'[i].op = "PagePatch" => DOMAIN wal'[i].before = DOMAIN wal'[i].after
    BY <1>2 DEF PInv, CoreInv, TypeOK
  <2>3. data' \in [Cells -> Values] /\ committed' \in [Cells -> Values]
    BY <1>3, ConstantsOK DEF PInv, CoreInv, TypeOK
  <2>4. wrote' \in BOOLEAN
    BY <1>3, Zenon
  <2> DEFINE nothing == <<>>
  <2>5. nothing \in Seq(Images)
    OBVIOUS
  <2>6. undo' \in Seq(Images)
    BY <1>3, <2>5
  <2>7. dirty' \subseteq cached' /\ cached' \subseteq Pages /\ pending' \subseteq Files
    BY <1>3
  <2>8. nextTxn' \in Nat \ {0} /\ txn' \in Nat /\ mode' \in Modes
    BY <1>3 DEF Modes, NoTxn
  <2> QED BY <1>3, <2>1, <2>2, <2>3, <2>4, <2>6, <2>7, <2>8 DEF TypeOK
<1>6. IdleInv' /\ TxnInv' /\ PendingInv' /\ FrameInv' /\ ViewInv' /\ RedoInv' /\ UndoInv'
  BY <1>3 DEF IdleInv, TxnInv, PendingInv, FrameInv, ViewInv, RedoInv, UndoInv, Running
<1>7. \A c \in Cells : AnyRedo(wal', c, n) <=> AnyRedo(wal, c, Len(wal))
  BY <1>2 DEF AnyRedo
<1>8. ASSUME NEW c \in Cells, AnyRedo(wal', c, n)
      PROVE  \E i \in 1..n : LastRedo(wal', i, c, n) /\ Image(wal'[i], c) = committed[c]
  <2>1. PICK i \in 1..Len(wal) : LastRedo(wal, i, c, Len(wal)) /\ Image(wal[i], c) = committed[c]
    BY <1>7, <1>8 DEF PInv, CoreInv, LogInv
  <2>2. i \in 1..n
    BY <1>2, <2>1 DEF LastRedo
  <2>3. LastRedo(wal', i, c, n)
    BY <1>2, <2>1, <2>2 DEF LastRedo
  <2> QED BY <1>2, <2>1, <2>2, <2>3
<1>9. ASSUME NEW c \in Cells, AnyUndo(wal', c, 1)
      PROVE  \E i \in 1..n : FirstUndo(wal', i, c, 1) /\ wal'[i].before[c] = committed[c]
  <2> DEFINE S == {i \in 1..n : Undoes(wal', i, c)}
  <2>1. S \subseteq Nat /\ S # {}
    BY <1>2, <1>9 DEF AnyUndo
  <2>2. PICK i \in S : \A j \in S : ~(j < i)
    <3> HIDE DEF S
    <3> QED BY <2>1, FirstPosition
  <2>3. FirstUndo(wal', i, c, 1)
    BY <1>2, <2>2 DEF FirstUndo
  <2>4. FirstPatch(wal', i, c)
    BY <1>2, <2>2 DEF FirstPatch, Undoes
  <2> QED BY <1>4, <2>2, <2>3, <2>4 DEF Undoes
<1>10. LogInv'
  BY <1>2, <1>3, <1>8, <1>9 DEF LogInv
<1>11. OrderInv'
  BY <1>2 DEF PInv, OrderInv
<1>12. SyncInv'
  BY <1>1, <1>2, <1>3, <1>7 DEF PInv, SyncInv
<1>14. SpoiltInv'
  <2> SUFFICES ASSUME NEW c \in Cells, ~AnyRedo(wal', c, Len(wal')), c \notin exposed
               PROVE  disk'[c] = committed[c] /\ maybe'[c] = {committed[c]}
    BY <1>3 DEF SpoiltInv
  <2>1. maybe[c] = {committed[c]}
    BY <1>2, <1>7 DEF PInv, SpoiltInv
  <2>2. disk'[c] \in maybe[c] /\ maybe'[c] = {disk'[c]}
    BY DEF PowerLoss
  <2> QED BY <2>1, <2>2
<1>13. LooseInv'
  BY <1>1, <1>2, <1>3, <1>4 DEF LooseInv
<1> QED BY <1>5, <1>6, <1>10, <1>11, <1>12, <1>13, <1>14 DEF PInv, CoreInv

-----------------------------------------------------------------------------
(* The engine's steps *)

\* A page write either exposes a word or keeps its committed content.
LEMMA WriteSpoils ==
  ASSUME SpoiltInv, Unsynced, committed' = committed,
         \A c \in Cells : AnyRedo(wal, c, Len(wal)) => AnyRedo(wal', c, Len(wal'))
  PROVE  SpoiltInv'
<1> SUFFICES ASSUME NEW c \in Cells, ~AnyRedo(wal', c, Len(wal')), c \notin exposed'
             PROVE  disk'[c] = committed[c] /\ maybe'[c] = {committed[c]}
  BY DEF SpoiltInv
<1>1. ~AnyRedo(wal, c, Len(wal)) /\ c \notin exposed /\ c \notin Exposed
  BY DEF Unsynced
<1>2. disk[c] = committed[c] /\ maybe[c] = {committed[c]}
  BY <1>1 DEF SpoiltInv
<1>3. disk'[c] = disk[c] \/ disk'[c] = committed[c]
  BY <1>1 DEF Exposed, AnyRedo, Redoes
<1>4. maybe'[c] = maybe[c] \cup {disk'[c]}
  BY DEF Unsynced
<1> QED BY <1>2, <1>3, <1>4

\* A record at the end of the log.
LEMMA AppendRecord ==
  ASSUME PInv, NEW r \in Records, wal' = Append(wal, r), r.txn = txn,
         mode \in {"up", "rollback"}, txn # NoTxn
  PROVE  /\ Len(wal') = Len(wal) + 1 /\ Len(wal) \in Nat /\ wal'[Len(wal) + 1] = r
         /\ \A i \in 1..Len(wal) : wal'[i] = wal[i] /\ i \in 1..Len(wal')
         /\ OrderInv'
         /\ \A c \in Cells : AnyRedo(wal, c, Len(wal)) => AnyRedo(wal', c, Len(wal'))
<1>1. /\ Len(wal') = Len(wal) + 1 /\ Len(wal) \in Nat /\ wal'[Len(wal) + 1] = r
      /\ \A i \in 1..Len(wal) : wal'[i] = wal[i] /\ i \in 1..Len(wal')
  BY AppendLog DEF PInv, CoreInv, TypeOK
<1>2. \A k \in 1..Len(wal) : Ends(wal[k]) => wal[k].txn # txn
  BY DEF PInv, CoreInv, TxnInv, Running, InFlight, Committed, Aborted, Ends
<1>3. OrderInv'
  <2> SUFFICES ASSUME NEW i \in 1..Len(wal'), NEW k \in 1..Len(wal'), Ends(wal'[k]), wal'[i].txn = wal'[k].txn
               PROVE  i <= k
    BY DEF OrderInv
  <2>1. CASE k = Len(wal')
    BY <1>1, <2>1
  <2>2. CASE i = Len(wal') /\ k # Len(wal')
    <3>1. k \in 1..Len(wal) /\ wal'[i].txn = txn
      BY <1>1, <2>2
    <3> QED BY <1>1, <1>2, <3>1
  <2>3. CASE i # Len(wal') /\ k # Len(wal')
    <3>1. i \in 1..Len(wal) /\ k \in 1..Len(wal)
      BY <1>1, <2>3
    <3> QED BY <1>1, <3>1 DEF PInv, OrderInv
  <2> QED BY <2>1, <2>2, <2>3
<1>4. \A t : Committed(wal, t) => Committed(wal', t)
  BY <1>1 DEF Committed
<1>5. \A c \in Cells : AnyRedo(wal, c, Len(wal)) => AnyRedo(wal', c, Len(wal'))
  BY <1>1, <1>4 DEF AnyRedo, Redoes
<1> QED BY <1>1, <1>3, <1>5

\* A step that logs no commit and fsyncs nothing, when its record, if it is a
\* first patch, has the committed content as before image.
LEMMA AppendStep ==
  ASSUME PInv, CoreInv', Unsynced, committed' = committed,
         NEW r \in Records, wal' = Append(wal, r), r.txn = txn, r.op # "Commit",
         mode \in {"up", "rollback"}, txn # NoTxn,
         \A c \in Cells : Patches(r, c) => AnyUndo(wal, c, 1) \/ r.before[c] = committed[c]
  PROVE  PInv'
<1> DEFINE n == Len(wal) + 1
<1>1. /\ Len(wal') = n /\ Len(wal) \in Nat /\ wal'[n] = r /\ n \in Nat
      /\ \A i \in 1..Len(wal) : wal'[i] = wal[i] /\ i \in 1..Len(wal')
      /\ OrderInv'
      /\ \A c \in Cells : AnyRedo(wal, c, Len(wal)) => AnyRedo(wal', c, Len(wal'))
  BY AppendRecord
<1>2. synced' = synced
  BY DEF Unsynced
<1>3. synced \in Nat /\ synced <= Len(wal)
  BY <1>1 DEF PInv, SyncInv
<1>4. \A i \in 1..n : i = n \/ i \in 1..Len(wal)
  BY <1>1
<1> HIDE DEF n
<1>5. SyncInv'
  <2>1. \A i \in 1..Len(wal') : wal'[i].op = "Commit" => i <= synced'
    BY <1>1, <1>2, <1>4 DEF PInv, SyncInv
  <2>2. synced' \in 0..Len(wal')
    BY <1>1, <1>2, <1>3 DEF n
  <2> QED BY <2>1, <2>2 DEF SyncInv
<1>6. LooseInv'
  <2> SUFFICES ASSUME NEW c \in Cells, NEW i \in 1..n, FirstPatch(wal', i, c), Loose(wal', wal'[i].txn, synced)
               PROVE  wal'[i].before[c] = committed[c]
    BY <1>1, <1>2 DEF LooseInv
  <2>1. CASE i \in 1..Len(wal)
    <3>1. FirstPatch(wal, i, c)
      BY <1>1, <2>1 DEF FirstPatch
    <3>2. Loose(wal, wal[i].txn, synced)
      BY <1>1, <2>1 DEF Loose
    <3> QED BY <1>1, <2>1, <3>1, <3>2 DEF PInv, LooseInv
  <2>2. CASE i = n
    <3>1. Patches(r, c)
      BY <1>1, <2>2 DEF FirstPatch
    <3>2. ~AnyUndo(wal, c, 1)
      <4> SUFFICES ASSUME NEW j \in 1..Len(wal), Undoes(wal, j, c) PROVE FALSE
        BY DEF AnyUndo
      <4>1. wal[j].txn = txn
        BY DEF Undoes, PInv, CoreInv, TxnInv, Running
      <4>2. j < n
        BY <1>1 DEF n
      <4> QED BY <1>1, <2>2, <4>1, <4>2 DEF FirstPatch, Undoes
    <3> QED BY <1>1, <2>2, <3>1, <3>2
  <2> QED BY <1>4, <2>1, <2>2
<1>7. SpoiltInv'
  BY <1>1, WriteSpoils DEF PInv
<1> QED BY <1>1, <1>5, <1>6, <1>7 DEF PInv

\* A step that leaves log and committed contents alone and fsyncs nothing.
LEMMA SameLogStep ==
  ASSUME PInv, CoreInv', UNCHANGED <<wal, committed>>, Unsynced
  PROVE  PInv'
<1>1. OrderInv' /\ SyncInv' /\ LooseInv'
  BY DEF PInv, OrderInv, SyncInv, LooseInv, FirstPatch, Loose, Unsynced
<1>2. SpoiltInv'
  BY WriteSpoils DEF PInv
<1> QED BY <1>1, <1>2 DEF PInv

\* Patches: what a page's words had before is what readers saw.
LEMMA PatchLogged ==
  ASSUME PInv, CoreInv', Unsynced, NEW p \in Pages,
         \/ \E r \in SUBSET CellsOf(p) : \E after \in [r -> Values] : Modify(p, after)
         \/ \E after \in [CellsOf(p) -> Values] : InitTableFile(p, after)
  PROVE  PInv'
<1> DEFINE Logged(before, after) ==
             /\ mode = "up" /\ txn # NoTxn /\ committed' = committed
             /\ wal' = Append(wal, PagePatch(txn, before, after))
             /\ \A c \in Cells : c \in DOMAIN after => before[c] = View(c)
<1>1. PICK before, after : Logged(before, after)
  <2>1. ASSUME NEW r \in SUBSET CellsOf(p), NEW after \in [r -> Values], Modify(p, after)
        PROVE  Logged([d \in DOMAIN after |-> data[d]], after)
    BY <2>1 DEF Modify, View, CellsOf
  <2>2. ASSUME NEW after \in [CellsOf(p) -> Values], InitTableFile(p, after)
        PROVE  Logged([d \in CellsOf(p) |-> Zero], after)
    BY <2>2 DEF InitTableFile, View, CellsOf, InFile
  <2> HIDE DEF Logged
  <2> QED BY <2>1, <2>2
<1> DEFINE r == PagePatch(txn, before, after)
<1>2. /\ r.txn = txn /\ r.op = "PagePatch" /\ r.before = before
      /\ \A c \in Cells : Patches(r, c) => c \in DOMAIN after
  BY DEF PagePatch, Patches
<1>3. r \in Records
  <2>1. wal \in Seq(Records) /\ wal' \in Seq(Records)
    BY DEF PInv, CoreInv, TypeOK
  <2> HIDE DEF r
  <2>2. wal'[Len(wal')] = r /\ Len(wal') \in Nat /\ Len(wal') >= 1
    BY <1>1, <2>1 DEF r
  <2> QED BY <2>1, <2>2
<1>4. ASSUME NEW c \in Cells, Patches(r, c), ~AnyUndo(wal, c, 1) PROVE r.before[c] = committed[c]
  <2>1. View(c) = committed[c]
    BY <1>1, <1>4 DEF PInv, CoreInv, ViewInv
  <2> QED BY <1>1, <1>2, <1>4, <2>1
<1> HIDE DEF r
<1> QED BY <1>1, <1>2, <1>3, <1>4, AppendStep DEF r

\* Drops and Abort records patch nothing.
LEMMA DropOrAbortLogged ==
  ASSUME PInv, CoreInv', Unsynced, FinishRollback \/ \E f \in Files : RemoveTableFile(f)
  PROVE  PInv'
<1>1. CASE FinishRollback /\ ~wrote
  BY <1>1, SameLogStep DEF FinishRollback
<1>2. CASE FinishRollback /\ wrote
  <2>1. /\ Abort(txn).txn = txn /\ Abort(txn).op # "Commit" /\ Abort(txn) \in Records
        /\ \A c \in Cells : ~Patches(Abort(txn), c)
    BY RecordTypes DEF PInv, CoreInv, TypeOK, Abort, Patches
  <2>2. mode = "rollback" /\ txn # NoTxn /\ wal' = Append(wal, Abort(txn)) /\ committed' = committed
    BY <1>2 DEF FinishRollback, PInv, CoreInv, IdleInv
  <2> QED BY <2>1, <2>2, AppendStep
<1>3. ASSUME NEW f \in Files, RemoveTableFile(f) PROVE PInv'
  <2>1. /\ DropFile(txn, f).txn = txn /\ DropFile(txn, f).op # "Commit" /\ DropFile(txn, f) \in Records
        /\ \A c \in Cells : ~Patches(DropFile(txn, f), c)
    BY RecordTypes DEF PInv, CoreInv, TypeOK, DropFile, Patches
  <2>2. mode = "up" /\ txn # NoTxn /\ wal' = Append(wal, DropFile(txn, f)) /\ committed' = committed
    BY <1>3 DEF RemoveTableFile
  <2> QED BY <2>1, <2>2, AppendStep
<1> QED BY <1>1, <1>2, <1>3

\* A commit makes the whole log durable: no transaction in it is loose any
\* more, and what the committed one wrote has a durable record.
LEMMA CommitLogged ==
  ASSUME PInv, CoreInv', CommitTxn, IF wrote THEN WalSync ELSE Unsynced
  PROVE  PInv'
<1>1. mode = "up" /\ txn # NoTxn
  BY DEF CommitTxn
<1>2. CASE ~wrote
  <2>1. wrote = FALSE
    BY <1>2 DEF PInv, CoreInv, TypeOK
  <2>2. pending = {} /\ \A c \in Cells : View(c) = committed[c]
    BY <1>1, <2>1, NothingLogged DEF PInv
  <2>3. committed' = [c \in Cells |-> View(c)]
    BY <2>2 DEF CommitTxn
  <2>4. committed' = committed
    BY <2>2, <2>3 DEF PInv, CoreInv, TypeOK
  <2>5. UNCHANGED wal /\ Unsynced
    BY <1>2 DEF CommitTxn
  <2> QED BY <2>4, <2>5, SameLogStep
<1>3. CASE wrote
  <2> DEFINE n == Len(wal) + 1
  <2>1. /\ Commit(txn).txn = txn /\ Commit(txn).op = "Commit" /\ Commit(txn) \in Records
        /\ \A c \in Cells : ~Patches(Commit(txn), c)
    BY RecordTypes DEF PInv, CoreInv, TypeOK, Commit, Patches
  <2>2. wal' = Append(wal, Commit(txn)) /\ synced' = Len(wal') /\ exposed' = exposed \ Touched /\ maybe' = maybe /\ disk' = disk
    BY <1>3 DEF CommitTxn, WalSync
  <2>3. /\ Len(wal') = n /\ Len(wal) \in Nat /\ wal'[n] = Commit(txn) /\ n \in Nat
        /\ \A i \in 1..Len(wal) : wal'[i] = wal[i] /\ i \in 1..Len(wal')
        /\ OrderInv'
        /\ \A c \in Cells : AnyRedo(wal, c, Len(wal)) => AnyRedo(wal', c, Len(wal'))
    BY <1>1, <2>1, <2>2, AppendRecord
  <2>4. n \in 1..n /\ \A i \in 1..n : i = n \/ i \in 1..Len(wal)
    BY <2>3
  <2> HIDE DEF n
  <2>5. SpoiltInv'
    <3> SUFFICES ASSUME NEW c \in Cells, ~AnyRedo(wal', c, Len(wal')), c \notin exposed'
                 PROVE  disk'[c] = committed'[c] /\ maybe'[c] = {committed'[c]}
      BY DEF SpoiltInv
    <3>1. Committed(wal', txn)
      BY <2>1, <2>3, <2>4 DEF Committed
    <3>2. \A d \in Touched : AnyRedo(wal', d, Len(wal'))
      BY <2>3, <3>1 DEF Touched, AnyRedo, Redoes
    <3>3. c \notin Touched /\ c \notin exposed /\ ~AnyRedo(wal, c, Len(wal))
      BY <2>2, <2>3, <3>2
    <3>4. FileOf[PageOf[c]] \notin pending
      <4> SUFFICES ASSUME FileOf[PageOf[c]] \in pending PROVE c \in Touched
        BY <3>3
      <4>1. PICK i \in 1..Len(wal) : wal[i] = DropFile(txn, FileOf[PageOf[c]])
        BY <1>1 DEF PInv, CoreInv, PendingInv
      <4>2. wal[i].txn = txn /\ Drops(wal[i], c)
        BY <4>1 DEF DropFile, Drops, InFile
      <4> QED BY <4>2 DEF Touched
    <3>5. ~AnyUndo(wal, c, 1)
      BY <1>1, <3>3 DEF AnyUndo, Undoes, Touched, PInv, CoreInv, TxnInv, Running
    <3>6. View(c) = committed[c]
      BY <1>1, <3>5 DEF PInv, CoreInv, ViewInv
    <3>7. committed'[c] = committed[c]
      BY <3>4, <3>6 DEF CommitTxn
    <3>8. disk[c] = committed[c] /\ maybe[c] = {committed[c]}
      BY <3>3 DEF PInv, SpoiltInv
    <3> QED BY <2>2, <3>7, <3>8
  <2>6. SyncInv'
    BY <2>2, <2>3 DEF SyncInv
  <2>7. ASSUME NEW i \in 1..n PROVE ~Loose(wal', wal'[i].txn, n)
    <3>1. CASE wal'[i].txn = txn
      BY <2>1, <2>3, <2>4, <3>1 DEF Loose, Ends
    <3>2. CASE wal'[i].txn # txn
      <4>1. i \in 1..Len(wal)
        BY <2>1, <2>3, <2>4, <3>2
      <4>2. ~InFlight(wal, wal[i].txn)
        BY <1>1, <2>3, <3>2, <4>1 DEF PInv, CoreInv, TxnInv, Running
      <4>3. PICK k \in 1..Len(wal) : Ends(wal[k]) /\ wal[k].txn = wal[i].txn
        BY <4>2 DEF InFlight, Committed, Aborted, Ends
      <4>4. ~(k > n)
        BY <2>3 DEF n
      <4> QED BY <2>3, <4>1, <4>3, <4>4 DEF Loose
    <3> QED BY <3>1, <3>2
  <2>8. LooseInv'
    BY <2>2, <2>3, <2>7 DEF LooseInv
  <2> QED BY <2>3, <2>5, <2>6, <2>8 DEF PInv
<1> QED BY <1>2, <1>3

\* The end of a checkpoint or of recovery: the files hold what is committed from
\* then on, and are fsynced before the log is emptied, except for files that
\* recovery had no reason to write.
LEMMA FilesSynced ==
  ASSUME PInv, CoreInv', \/ CheckpointReset /\ FilesSync(Files)
                         \/ RecoverDone /\ FilesSync(RecoveredFiles)
  PROVE  PInv'
<1>1. wal' = <<>> /\ synced' = 0 /\ Len(wal') = 0 /\ disk' = disk
  BY DEF CheckpointReset, RecoverDone, FilesSync
<1>2. SpoiltInv'
  <2> SUFFICES ASSUME NEW c \in Cells, c \notin exposed'
               PROVE  disk[c] = committed'[c] /\ maybe'[c] = {committed'[c]}
    BY <1>1 DEF SpoiltInv
  <2>1. CASE CheckpointReset /\ FilesSync(Files)
    <3>1. disk[c] = committed[c] /\ committed' = committed
      BY <2>1, CheckpointedIsCommitted DEF PInv, CheckpointReset
    <3>2. maybe'[c] = {disk'[c]}
      BY <2>1, ConstantsOK DEF FilesSync
    <3> QED BY <1>1, <3>1, <3>2
  <2>2. CASE RecoverDone /\ FilesSync(RecoveredFiles)
    <3>1. committed' = disk
      BY <2>2 DEF RecoverDone
    <3>2. CASE FileOf[PageOf[c]] \in RecoveredFiles
      BY <1>1, <2>2, <3>1, <3>2 DEF FilesSync
    <3>3. CASE FileOf[PageOf[c]] \notin RecoveredFiles
      <4>1. c \notin exposed /\ maybe'[c] = maybe[c] \cup {disk[c]}
        BY <1>1, <2>2, <3>3 DEF FilesSync
      <4>2. ~AnyRedo(wal, c, Len(wal))
        BY <3>3 DEF RecoveredFiles, AnyRedo, Redoes
      <4>3. maybe[c] = {disk[c]}
        BY <4>1, <4>2 DEF PInv, SpoiltInv
      <4> QED BY <3>1, <4>1, <4>3
    <3> QED BY <3>2, <3>3
  <2> QED BY <2>1, <2>2
<1> QED BY <1>1, <1>2 DEF PInv, OrderInv, SyncInv, LooseInv

-----------------------------------------------------------------------------
(* Theorems *)

\* The inductive invariant under crashes and power cuts: every prefix of the log
\* that may be left says the same of the committed contents.
THEOREM PowerInvariant == PSpec => []PInv
<1>1. PInit => PInv
  <2> SUFFICES ASSUME PInit PROVE PInv
    OBVIOUS
  <2>1. CoreInv
    BY InitInv DEF PInit, IInv
  <2>2. wal = <<>> /\ Len(wal) = 0 /\ synced = 0
    BY DEF PInit, Init
  <2>3. SpoiltInv
    BY DEF PInit, Init, SpoiltInv
  <2> QED BY <2>1, <2>2, <2>3 DEF PInv, OrderInv, SyncInv, LooseInv
<1>2. PInv /\ [PNext]_pvars => PInv'
  <2> SUFFICES ASSUME PInv, [PNext]_pvars PROVE PInv'
    OBVIOUS
  <2>1. CASE PowerLoss
    BY <2>1, PowerLossStep
  <2>2. CASE CommitTxn /\ IF wrote THEN WalSync ELSE Unsynced
    <3>1. CoreInv'
      BY <2>2, CoreStep DEF PInv, Next, Step
    <3> QED BY <2>2, <3>1, CommitLogged
  <2>3. CASE \/ CheckpointReset /\ FilesSync(Files)
             \/ RecoverDone /\ FilesSync(RecoveredFiles)
    <3>1. CoreInv'
      BY <2>3, CoreStep DEF PInv, Next, Step
    <3> QED BY <2>3, <3>1, FilesSynced
  <2>4. CASE Next /\ ~CommitTxn /\ ~CheckpointReset /\ ~RecoverDone /\ Unsynced
    <3>1. CoreInv'
      BY <2>4, CoreStep DEF PInv
    <3>2. Unsynced
      BY <2>4
    <3>3. ASSUME NEW p \in Pages, Read(p) \/ Allocate(p) \/ CheckpointFlush(p) PROVE PInv'
      BY <3>1, <3>2, <3>3, SameLogStep DEF Read, Allocate, CheckpointFlush
    <3>4. ASSUME NEW p \in Pages, \E r \in SUBSET CellsOf(p) : \E after \in [r -> Values] : Modify(p, after)
          PROVE  PInv'
      BY <2>4, <3>1, <3>4, PatchLogged
    <3>5. ASSUME NEW p \in HeaderPages, \E after \in [CellsOf(p) -> Values] : InitTableFile(p, after)
          PROVE  PInv'
      BY <2>4, <3>1, <3>5, PatchLogged, ConstantsOK
    <3>6. CASE FinishRollback \/ \E f \in Files : RemoveTableFile(f)
      BY <2>4, <3>1, <3>6, DropOrAbortLogged
    <3>7. ASSUME NEW f \in Files, Unlink(f) PROVE PInv'
      BY <3>1, <3>2, <3>7, SameLogStep DEF Unlink
    <3>8. CASE BeginTxn \/ RollbackTxn \/ RestoreRegion \/ Checkpoint
      BY <3>1, <3>2, <3>8, SameLogStep DEF BeginTxn, RollbackTxn, RestoreRegion, Checkpoint
    <3>9. CASE Open \/ RedoRecord \/ RedoDone \/ UndoRecord \/ Crash
      BY <3>1, <3>2, <3>9, SameLogStep DEF Open, RedoRecord, RedoDone, UndoRecord, Crash
    <3> QED BY <2>4, <3>3, <3>4, <3>5, <3>6, <3>7, <3>8, <3>9 DEF Next, Step
  <2>5. CASE UNCHANGED pvars
    <3>1. UNCHANGED vars /\ UNCHANGED <<synced, maybe, exposed>>
      BY <2>5 DEF pvars
    <3>2. CoreInv'
      BY <3>1, CoreStep DEF PInv
    <3>3. UNCHANGED <<disk, wal, committed>>
      BY <3>1 DEF vars
    <3> QED BY <3>1, <3>2, <3>3 DEF PInv, OrderInv, SyncInv, LooseInv, FirstPatch, Loose, SpoiltInv
  <2> QED BY <2>1, <2>2, <2>3, <2>4, <2>5 DEF PNext
<1> QED BY <1>1, <1>2, PTL DEF PSpec

\* Every word has the content acknowledged transactions gave it when recovery
\* ends, wherever crashes and power cuts fell, unless it was exposed and the
\* records that could undo that are lost (write_back, commit_txn, Wal::sync, recover).
THEOREM AcknowledgedHolds == PSpec => []AcknowledgedSurvives
<1>1. PInv => AcknowledgedSurvives
  <2> SUFFICES ASSUME PInv, mode = "undo", ri = 0, NEW c \in Cells, disk[c] # committed[c]
               PROVE  /\ c \in exposed
                      /\ \A i \in 1..Len(wal) : Patches(wal[i], c) => Aborted(wal, wal[i].txn)
    BY DEF AcknowledgedSurvives
  <2>1. Len(wal) \in Nat
    BY DEF PInv, CoreInv, TypeOK
  <2>2. ~AnyUndo(wal, c, 1)
    <3> SUFFICES ASSUME AnyUndo(wal, c, 1) PROVE disk[c] = committed[c]
      OBVIOUS
    <3>1. PICK i \in 1..Len(wal) : FirstUndo(wal, i, c, 1) /\ disk[c] = wal[i].before[c]
      BY <2>1 DEF PInv, CoreInv, UndoInv
    <3>2. PICK j \in 1..Len(wal) : FirstUndo(wal, j, c, 1) /\ wal[j].before[c] = committed[c]
      BY <2>1 DEF PInv, CoreInv, LogInv
    <3>3. i = j
      BY <2>1, <3>1, <3>2 DEF FirstUndo
    <3> QED BY <3>1, <3>2, <3>3
  <2>3. ~AnyRedo(wal, c, Len(wal))
    BY <2>1, <2>2 DEF PInv, CoreInv, UndoInv
  <2>4. c \in exposed
    BY <2>3 DEF PInv, SpoiltInv
  <2>5. ASSUME NEW i \in 1..Len(wal), Patches(wal[i], c) PROVE Aborted(wal, wal[i].txn)
    BY <2>1, <2>2, <2>3, <2>5 DEF AnyUndo, AnyRedo, Undoes, Redoes, InFlight
  <2> QED BY <2>4, <2>5
<1> QED BY <1>1, PowerInvariant, PTL

=============================================================================
