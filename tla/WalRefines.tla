----------------------------- MODULE WalRefines -----------------------------
(***************************************************************************)
(* The refinement mapping from the engine (WalEngine) to the store its     *)
(* callers rely on (TxnStore). A commit takes effect when its Commit       *)
(* record is durable, a rollback when its Abort record is written; the     *)
(* unlinks, the flushes and recovery's passes are invisible.               *)
(***************************************************************************)
EXTENDS WalInvariant

\* What the open transaction, or else the next one, reads.
Visible == [c \in Cells |-> IF FileOf[PageOf[c]] \in pending THEN Zero ELSE View(c)]

\* Words with a patch of a transaction that recovery would undo, and words
\* whose content neither pass of recovery would write.
UndoneCells == {c \in Cells : AnyUndo(wal, c, 1)}
ResidueCells ==
  {c \in Cells : /\ \E i \in 1..Len(wal) : Patches(wal[i], c) /\ Aborted(wal, wal[i].txn)
                 /\ ~AnyRedo(wal, c, Len(wal))}

MappedStatus ==
  IF ~Running THEN "down"
  ELSE IF mode = "rollback" THEN "aborting"
  ELSE IF mode = "up" /\ txn # NoTxn THEN "open" ELSE "idle"
MappedWork    == IF mode \in {"up", "ckpt", "close"} THEN Visible ELSE committed
MappedTouched == IF Running THEN UndoneCells ELSE {}
MappedTainted == IF Running THEN ResidueCells ELSE ResidueCells \ UndoneCells

Store == INSTANCE TxnStore WITH
  Groups  <- {{c \in Cells : InFile(c, f)} : f \in Files},
  store   <- committed,
  work    <- MappedWork,
  status  <- MappedStatus,
  touched <- MappedTouched,
  tainted <- MappedTainted

\* The engine implements the transactional store: every step of the engine,
\* evictions, partial flushes, crashes and interrupted recoveries included, is
\* a step of TxnStore or changes nothing its callers can see.
Implements == Store!Spec

=============================================================================
