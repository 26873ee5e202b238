------------------------------ MODULE HeapFile ------------------------------
(***************************************************************************)
(* One table file: the page chain, the tail-page cache and the rowid       *)
(* counter of src/storage/engine.cpp over page.cpp's slotted pages.        *)
(*                                                                         *)
(* A page is its kind, its slots and its next_page. Bytes, the log and     *)
(* recovery are WalEngine's subject; here a rollback restores whole pages, *)
(* and a crash leaves what WalEngine's RecoveryExact says: the committed   *)
(* content of the words with a committed or in-flight patch, the file's    *)
(* bytes for the others. A row is named by its rowid.                      *)
(*                                                                         *)
(* The pool writes pages of the open transaction to the file (steal), and  *)
(* a rollback restores a cached page in its frame only. Until that frame   *)
(* is written the file has bytes of a rolled-back transaction ("residue"), *)
(* which a restart, or disk_tail_page, takes for the table's ("spoilt").   *)
(***************************************************************************)
EXTENDS Integers, Sequences, FiniteSets, FiniteSetsExt

CONSTANTS
  MaxPage,      \* bound: the highest page number
  MaxRow,       \* bound: rowids handed out
  PageCap       \* slots that fit on a heap page

ASSUME ConstantsOK == MaxPage \in Nat \ {0} /\ MaxRow \in Nat /\ PageCap \in Nat \ {0}

VARIABLES
  disk,       \* the file's pages
  size,       \* FileManager::page_count
  frame,      \* cached contents, NoPage for a page without a frame
  dirty,      \* pages whose frame is dirty
  txn,        \* is a transaction open?
  saved,      \* contents before the transaction, NoPage for untouched pages
  tail,       \* tail_pages_ of this file, NoTail when absent
  tailUndo,   \* TxnContext::tail_undo
  logged,     \* pages patched by committed transactions since the checkpoint
  committed,  \* history: the pages as the committed transactions left them
  rows,       \* history: the table's rows, as the open transaction sees them
  rows0,      \* history: the table's rows, as committed
  stolen,     \* history: pages the open transaction changed, since written to the file
  residue,    \* history: pages with bytes of a rolled-back transaction in the file
  spoilt      \* history: were such bytes taken for the table's?

pages   == <<disk, size, frame, dirty>>
context == <<txn, saved, tail, tailUndo>>
history == <<logged, committed, rows, rows0, stolen, residue, spoilt>>
vars    == <<pages, context, history>>

Tomb   == 0
NoTail == 0
NoPage == [kind |-> "none", slots |-> <<>>, next |-> 0]
Nos   == 0..MaxPage
ZeroPage == [kind |-> "zero", slots |-> <<>>, next |-> 0]
Header   == [kind |-> "header", slots |-> <<0>>, next |-> 0]   \* slots[1]: next_rowid
NewHeap  == [kind |-> "heap", slots |-> <<>>, next |-> 0]

View == [p \in Nos |-> IF frame[p] # NoPage THEN frame[p] ELSE disk[p]]
Touched == {p \in Nos : saved[p] # NoPage}
Live(page) == {s \in 1..Len(page.slots) : page.slots[s] # Tomb}

\* BufferPool::read succeeds: the page is cached, or page_valid on the file's bytes.
Readable(p, kind) == frame[p] # NoPage \/ disk[p].kind = kind

\* The pages Scanner, read_rows and row_count visit: no set without such a
\* page is closed under next_page, from the header on.
Chain(v) ==
  {p \in Nos \ {0} : ~\E S \in SUBSET (Nos \ {p}) :
     v[0].next \in S /\ \A q \in S \ {0} : v[q].next \in S}

RowsOf(v, p) == {v[p].slots[s] : s \in Live(v[p])}
ScanRows(v)  == UNION {RowsOf(v, p) : p \in Chain(v)}

-----------------------------------------------------------------------------
\* A table just created, committed and checkpointed.
Init ==
  /\ disk = [p \in Nos |-> IF p = 0 THEN Header ELSE ZeroPage]
  /\ size = 1
  /\ frame = [p \in Nos |-> NoPage] /\ dirty = {}
  /\ txn = FALSE /\ saved = [p \in Nos |-> NoPage]
  /\ tail = NoTail /\ tailUndo = <<>>
  /\ logged = {} /\ committed = disk
  /\ rows = {} /\ rows0 = {}
  /\ stolen = {} /\ residue = {} /\ spoilt = FALSE

\* In-place changes that turn the view into v: the changed pages are cached,
\* dirty and logged.
Change(v) ==
  LET ps == {p \in Nos : v[p] # View[p]}
  IN /\ frame' = [p \in Nos |-> IF p \in ps THEN v[p] ELSE frame[p]]
     /\ dirty' = dirty \cup ps
     /\ saved' = [p \in Nos |-> IF p \in ps \ Touched THEN View[p] ELSE saved[p]]

Begin ==
  /\ ~txn
  /\ txn' = TRUE
  /\ UNCHANGED <<pages, saved, tail, tailUndo, history>>

\* disk_tail_page: the highest page that is not all zero, in the file.
DiskTailPage == Max({0} \cup {p \in 1..(size - 1) : disk[p] # ZeroPage})

\* What disk_tail_page reads is not the table: a page of the residue is in use in
\* the file and not in its frame, or the other way round.
Misled == \E p \in residue \ {0} : ~(disk[p] = ZeroPage <=> View[p] = ZeroPage)

\* heap_append fits one more row; a zeroed page has no free space.
Room(page) == page.kind = "heap" /\ Len(page.slots) < PageCap

\* Faulty: the rowid counter is read from the file, not from the pool.
StaleRowid == disk[0].slots[1] + 1

\* The header page's rowid counter.
NextRowid == View[0].slots[1] + 1

\* Faulty: a tombstone's slot is used again.
ReuseSlot(page, row) ==
  IF \E s \in 1..Len(page.slots) : page.slots[s] = Tomb
  THEN [page EXCEPT !.slots[Min({s \in 1..Len(page.slots) : page.slots[s] = Tomb})] = row]
  ELSE [page EXCEPT !.slots = Append(@, row)]

\* heap_append: a new slot, whatever was deleted before.
HeapAppend(page, row) == [page EXCEPT !.slots = Append(@, row)]

\* insert_row: take a rowid, find the tail page, link the first data page when
\* there is none, extend the file when the tail page is full.
InsertRow ==
  LET row  == NextRowid
      t0   == IF tail # NoTail THEN tail ELSE DiskTailPage
      t1   == IF t0 = 0 THEN 1 ELSE t0
      v1   == [View EXCEPT ![0].slots = <<row>>]
      v2   == IF t0 = 0 THEN [v1 EXCEPT ![1] = NewHeap, ![0].next = 1] ELSE v1
      full == ~Room(v2[t1])
      new  == Max({size, t1 + 1})
      v3   == IF full THEN [v2 EXCEPT ![new] = NewHeap, ![t1].next = new] ELSE v2
      t2   == IF full THEN new ELSE t1
  IN /\ txn
     /\ row <= MaxRow /\ (full => new <= MaxPage)
     /\ t0 # 0 => Readable(t0, "heap")
     /\ Change([v3 EXCEPT ![t2] = HeapAppend(@, row)])
     /\ tail' = t2
     /\ tailUndo' = Append(tailUndo, tail)
     /\ rows' = rows \cup {row}
     /\ spoilt' = (spoilt \/ (tail = NoTail /\ Misled))
     /\ UNCHANGED <<disk, size, txn, logged, committed, rows0, stolen, residue>>

\* delete_row: a tombstone in the row's slot.
DeleteRow(p, s) ==
  /\ txn
  /\ Readable(p, "heap") /\ p <= Max({size - 1} \cup {tail})
  /\ s \in Live(View[p])
  /\ View[p].slots[s] \in rows
  /\ Change([View EXCEPT ![p].slots[s] = Tomb])
  /\ rows' = rows \ {View[p].slots[s]}
  /\ UNCHANGED <<disk, size, txn, tail, tailUndo, logged, committed, rows0, stolen, residue, spoilt>>

\* delete_all_rows: tombstones along the chain.
DeleteAllRows ==
  LET chain == Chain(View)
  IN /\ txn
     /\ \A p \in chain : Readable(p, "heap")
     /\ Change([p \in Nos |-> IF p \in chain
                              THEN [View[p] EXCEPT !.slots = [s \in DOMAIN @ |-> Tomb]]
                              ELSE View[p]])
     /\ rows' = {}
     /\ UNCHANGED <<disk, size, txn, tail, tailUndo, logged, committed, rows0, stolen, residue, spoilt>>

CommitTxn ==
  /\ txn
  /\ txn' = FALSE
  /\ logged' = logged \cup Touched
  /\ saved' = [p \in Nos |-> NoPage] /\ tailUndo' = <<>>
  /\ committed' = View /\ rows0' = rows
  /\ stolen' = {}
  /\ UNCHANGED <<pages, tail, rows, residue, spoilt>>

\* Faulty: the tail-page cache keeps what the transaction made of it.
RollbackKeepsTail ==
  LET cachedPages == {p \in Touched : frame[p] # NoPage}
  IN /\ txn
     /\ txn' = FALSE
     /\ frame' = [p \in Nos |-> IF p \in cachedPages THEN saved[p] ELSE frame[p]]
     /\ dirty' = dirty \cup cachedPages
     /\ disk' = [p \in Nos |-> IF p \in Touched \ cachedPages THEN saved[p] ELSE disk[p]]
     /\ saved' = [p \in Nos |-> NoPage] /\ tailUndo' = <<>>
     /\ rows' = rows0
     /\ stolen' = {} /\ residue' = residue \cup (stolen \cap cachedPages)
     /\ UNCHANGED <<size, tail, logged, committed, rows0, spoilt>>

\* rollback_txn: every changed page gets its old content back, in the frame if
\* it has one, in the file otherwise; the tail-page cache goes back too.
RollbackTxn ==
  LET cachedPages == {p \in Touched : frame[p] # NoPage}
  IN /\ txn
     /\ txn' = FALSE
     /\ frame' = [p \in Nos |-> IF p \in cachedPages THEN saved[p] ELSE frame[p]]
     /\ dirty' = dirty \cup cachedPages
     /\ disk' = [p \in Nos |-> IF p \in Touched \ cachedPages THEN saved[p] ELSE disk[p]]
     /\ saved' = [p \in Nos |-> NoPage] /\ tailUndo' = <<>>
     /\ tail' = IF tailUndo = <<>> THEN tail ELSE Head(tailUndo)
     /\ rows' = rows0
     /\ stolen' = {} /\ residue' = residue \cup (stolen \cap cachedPages)
     /\ UNCHANGED <<size, logged, committed, rows0, spoilt>>

(* The pool, checkpoints and restarts *)

\* evict with write_back, the open transaction's pages included.
Evict(p) ==
  /\ frame[p] # NoPage
  /\ frame' = [frame EXCEPT ![p] = NoPage]
  /\ dirty' = dirty \ {p}
  /\ disk' = IF p \in dirty THEN [disk EXCEPT ![p] = frame[p]] ELSE disk
  /\ size' = IF p \in dirty THEN Max({size, p + 1}) ELSE size
  /\ stolen' = IF p \in dirty \cap Touched THEN stolen \cup {p} ELSE stolen
  /\ residue' = residue \ {p}
  /\ UNCHANGED <<context, logged, committed, rows, rows0, spoilt>>

\* A reader brings a page into the pool.
Load(p) ==
  /\ frame[p] = NoPage
  /\ disk[p].kind \in {"header", "heap"}
  /\ frame' = [frame EXCEPT ![p] = disk[p]]
  /\ UNCHANGED <<disk, size, dirty, context, history>>

\* checkpoint; close and open also empty the pool and tail_pages_.
Checkpoint(reopen) ==
  /\ ~txn
  /\ disk' = [p \in Nos |-> IF p \in dirty THEN frame[p] ELSE disk[p]]
  /\ size' = Max({size} \cup {p + 1 : p \in dirty})
  /\ dirty' = {} /\ logged' = {} /\ residue' = {}
  /\ frame' = IF reopen THEN [p \in Nos |-> NoPage] ELSE frame
  /\ tail' = IF reopen THEN NoTail ELSE tail
  /\ UNCHANGED <<txn, saved, tailUndo, committed, rows, rows0, stolen, spoilt>>

\* The process dies, recovery runs, open clears the caches. Recovery skips rolled-
\* back transactions: of a page with their bytes in the file, those stay that no
\* committed or in-flight patch covers.
CrashRecover ==
  LET patched == logged \cup Touched
  IN /\ \E kept \in SUBSET (residue \cap patched) :
          disk' = [p \in Nos |-> IF p \in patched \ kept THEN committed[p] ELSE disk[p]]
     /\ size' = Max({size} \cup {p + 1 : p \in patched})
     /\ frame' = [p \in Nos |-> NoPage] /\ dirty' = {}
     /\ txn' = FALSE /\ saved' = [p \in Nos |-> NoPage]
     /\ tail' = NoTail /\ tailUndo' = <<>>
     /\ logged' = {}
     /\ rows' = rows0
     /\ stolen' = {} /\ residue' = {} /\ spoilt' = (spoilt \/ residue # {})
     /\ UNCHANGED <<committed, rows0>>

Next ==
  \/ Begin \/ InsertRow \/ DeleteAllRows \/ CommitTxn \/ RollbackTxn \/ CrashRecover
  \/ \E p \in Nos \ {0}, s \in 1..PageCap : DeleteRow(p, s)
  \/ \E p \in Nos : Evict(p) \/ Load(p)
  \/ \E reopen \in BOOLEAN : Checkpoint(reopen)

Spec == Init /\ [][Next]_vars

-----------------------------------------------------------------------------
(* Properties *)

\* A scan of the table returns exactly the rows inserted and not deleted
\* (insert_row, delete_row, rollback_txn, disk_tail_page), whatever was evicted,
\* rolled back or lost in a crash, unless bytes of a rolled-back transaction
\* in the file were taken for the table's: no row is appended to a page off
\* the chain, and no rolled-back row comes back.
ScanExact == ~spoilt => ScanRows(View) = rows

\* The place of a committed row never comes to hold another row: it keeps it or
\* becomes a tombstone for ever. Index entries of deleted rows are never removed
\* and rely on it (page.h, heap_delete). In a table that is not spoilt.
RowPlacesStable ==
  [][~spoilt' => \A p \in Nos \ {0} : \A s \in DOMAIN committed[p].slots :
       s \in DOMAIN committed'[p].slots /\ committed'[p].slots[s] \in {committed[p].slots[s], Tomb}]_vars

\* No two committed rows share a rowid, and the counter is never behind a
\* committed row, so the next insert takes an unused one (insert_row). In a
\* table that is not spoilt.
RowidsUnique ==
  ~spoilt => \A p, q \in Nos \ {0} : \A s \in Live(committed[p]), r \in Live(committed[q]) :
    /\ committed[p].slots[s] = committed[q].slots[r] => p = q /\ s = r
    /\ committed[p].slots[s] <= committed[0].slots[1]

\* storage-design.md: the tail page is found by skipping the zero pages at the
\* end of the file, and page allocation can be rolled back; so a scan returns
\* every committed row (disk_tail_page, insert_row).
CommittedRowsScanned == ~txn => rows0 \subseteq ScanRows(View)

=============================================================================
