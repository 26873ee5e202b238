------------------------------ MODULE Catalog ------------------------------
(***************************************************************************)
(* The catalog (src/catalog/) over the storage engine: metadata rows of    *)
(* schemas, tables, columns and indexes, the heap and index files they     *)
(* name, the id counters, and transactions over all of them.               *)
(*                                                                         *)
(* What WalEngine shows of the engine is taken here as given: a rollback   *)
(* restores what readers see, a crash leaves what the last synced Commit   *)
(* record covers, except that recovery skips rolled-back transactions:     *)
(* where the pool had written their pages to the file (stolen) and the     *)
(* rollback restored a frame not written since (residue), a restart takes  *)
(* their bytes for the database's (spoilt). db is what readers see, saved  *)
(* what a restart should bring back. Files, pending unlinks and the        *)
(* counters are not transactional.                                         *)
(*                                                                         *)
(* A table has one column that indexes can be made on. A heap file is its  *)
(* sequence of slots, never reused; an index file is its set of entries.   *)
(***************************************************************************)
EXTENDS Integers, Sequences, FiniteSets

CONSTANTS
  SchemaNames, TableNames, IndexNames,
  Vals,          \* values of the column, NULL included
  MaxFid,        \* bound: the highest file id
  MaxSlots,      \* bound: slots of a heap file
  MaxIds,        \* bound: the highest table id and schema id
  MaxStolen      \* bound: versions of the database with stolen pages or residue

ASSUME CatalogConstants ==
  /\ MaxFid \in Nat /\ MaxSlots \in Nat /\ MaxIds \in Nat /\ MaxStolen \in Nat

VARIABLES
  db,         \* metadata rows and file contents, as readers see them
  saved,      \* the same, as of the last Commit record
  undo,       \* the same, as the open transaction's undo list would restore it
  files,      \* file ids present in the data directory
  nextFid, nextTid, nextSid,      \* next_file_id_, next_table_id_, next_schema_id_
  txn,        \* "none", "begun", "dml", "ddl", "failed", "unlinking", "raised", "down"
  pending,    \* pending_drops
  stolen,     \* versions of the open transaction with a page in the file
  residue,    \* versions of rolled-back transactions with a page in the file
  spoilt      \* history: did a restart find residue?

pool == <<stolen, residue, spoilt>>
vars == <<db, saved, undo, files, nextFid, nextTid, nextSid, txn, pending, pool>>

Fids == 1..MaxFid
Ids  == 1..MaxIds

\* A database: the rows of db_schema [sid, name], db_table [tid, name, fid, sid],
\* db_column (by table id) and db_index [tid, name, fid]; the slots [val, live]
\* of each heap file; the entries [key, ref] of each index file.
EmptyDb == [schemas |-> {}, tables |-> {}, columns |-> {}, indexes |-> {},
            heap |-> [f \in Fids |-> <<>>], tree |-> [f \in Fids |-> {}]]

FileIds(d) == {t.fid : t \in d.tables} \cup {i.fid : i \in d.indexes}

\* The rows and entries of the files f go with them: nobody reads a file that
\* no metadata row names, and a file of the same id starts empty.
Without(d, f) == [d EXCEPT !.heap = [g \in Fids |-> IF g \in f THEN <<>> ELSE @[g]],
                           !.tree = [g \in Fids |-> IF g \in f THEN {} ELSE @[g]]]

\* table_indexes.
IndexesOf(d, t) == {i \in d.indexes : i.tid = t.tid}

\* A user's first ids come after the ones the bootstrap uses; those are 0 here.
Init ==
  /\ db = EmptyDb /\ saved = EmptyDb /\ undo = EmptyDb /\ files = {} /\ pending = {}
  /\ nextFid = 1 /\ nextTid = 1 /\ nextSid = 1 /\ txn = "none"
  /\ stolen = {} /\ residue = {} /\ spoilt = FALSE

-----------------------------------------------------------------------------
(* Transactions *)

ids == <<nextFid, nextTid, nextSid>>

BeginTxn == txn = "none" /\ txn' = "begun" /\ UNCHANGED <<db, saved, undo, files, ids, pending, pool>>

\* commit_txn up to the synced Commit record: the durability boundary.
CommitTxn ==
  /\ txn \in {"begun", "dml", "ddl"}
  /\ saved' = db
  /\ IF pending = {} THEN txn' = "none" /\ undo' = db ELSE txn' = "unlinking" /\ undo' = undo
  /\ stolen' = {}
  /\ UNCHANGED <<db, files, ids, pending, residue, spoilt>>

\* commit_txn's loop over pending_drops.
UnlinkNext ==
  /\ txn = "unlinking"
  /\ \E f \in pending :
       /\ files' = files \ {f}
       /\ pending' = pending \ {f}
       /\ IF pending = {f} THEN txn' = "none" /\ undo' = db ELSE txn' = txn /\ undo' = undo
  /\ UNCHANGED <<db, saved, ids, pool>>

\* unlink raises, or flush_dir after the last one: Catalog::commit_txn then
\* rolls the engine's transaction back, behind the Commit record; pending is
\* what the log's DropFile records name. The server may go on from here, with
\* an Abort record behind the Commit; the model follows it to its next end.
CommitRaises ==
  /\ txn = "unlinking" /\ txn' = "raised"
  /\ db' = undo
  /\ \E gone \in SUBSET pending : files' = files \ gone
  /\ UNCHANGED <<saved, undo, pending, ids, pool>>

\* rollback_txn: the bytes and the pending drops go, the ids stay used and a
\* file made by the transaction stays in the directory. Stolen pages that are
\* cached again are restored in their frames, the others in the file.
RollbackTxn ==
  /\ txn \in {"begun", "dml", "ddl", "failed"}
  /\ db' = undo /\ txn' = "none" /\ pending' = {}
  /\ stolen' = {} /\ \E cached \in SUBSET stolen : residue' = residue \cup cached
  /\ UNCHANGED <<saved, undo, files, ids, spoilt>>

\* Eviction writes a page of the open transaction.
Steal ==
  /\ txn \in {"dml", "ddl"}
  /\ Cardinality(stolen \cup residue \cup {db}) <= MaxStolen
  /\ stolen' = stolen \cup {db}
  /\ UNCHANGED <<db, saved, undo, files, ids, txn, pending, residue, spoilt>>

\* Evictions or a checkpoint have written the last of the restored frames.
WriteRestored ==
  /\ residue # {} /\ residue' = {}
  /\ UNCHANGED <<db, saved, undo, files, ids, txn, pending, stolen, spoilt>>

\* Every table of rows and every file as one of the versions has it.
Mixes(versions) ==
  {[schemas |-> s, tables |-> t, columns |-> c, indexes |-> i,
    heap |-> [f \in Fids |-> h[f].heap[f]], tree |-> [f \in Fids |-> e[f].tree[f]]] :
      s \in {d.schemas : d \in versions}, t \in {d.tables : d \in versions},
      c \in {d.columns : d \in versions}, i \in {d.indexes : d \in versions},
      h, e \in [Fids -> versions]}

\* Faulty: a transaction with an Abort record is not replayed, although its
\* Commit record comes first and some of its files are gone.
CrashAbortWins ==
  /\ txn # "down" /\ txn' = "down"
  /\ LET d == IF txn = "raised" THEN undo ELSE saved
     IN db' \in Mixes({d} \cup residue) /\ undo' = db' /\ saved' = db'
  /\ files' = IF txn = "unlinking" THEN files \ pending ELSE files
  /\ pending' = {}
  /\ stolen' = {} /\ residue' = {} /\ spoilt' = (spoilt \/ residue # {})
  /\ UNCHANGED ids

\* The process dies; recovery applies the transactions with a Commit record,
\* their DropFile records included, undoes the open one and leaves what rolled-
\* back ones have in the files (recovery.cpp).
Crash ==
  /\ txn # "down" /\ txn' = "down"
  /\ db' \in Mixes({saved} \cup residue) /\ undo' = db' /\ saved' = db'
  /\ files' = IF txn \in {"unlinking", "raised"} THEN files \ pending ELSE files
  /\ pending' = {}
  /\ stolen' = {} /\ residue' = {} /\ spoilt' = (spoilt \/ residue # {})
  /\ UNCHANGED ids

\* max + 1 over the ids in use.
After(next, used) == (next - 1) \in used \cup {0} /\ \A u \in used : u < next

AfterTables(next, d) == After(next, {t.fid : t \in d.tables})
AfterFiles(next, d)  == After(next, FileIds(d))

\* Catalog::open: the counters start after the ids of the metadata rows, the
\* index files' ids included (load_index_meta).
Open ==
  /\ txn = "down" /\ txn' = "none"
  /\ \E f \in 1..MaxFid + 1, t \in 1..MaxIds + 1, s \in 1..MaxIds + 1 :
       /\ AfterFiles(f, db)
       /\ After(t, {u.tid : u \in db.tables})
       /\ After(s, {u.sid : u \in db.schemas})
       /\ nextFid' = f /\ nextTid' = t /\ nextSid' = s
  /\ UNCHANGED <<db, saved, undo, files, pending, pool>>

-----------------------------------------------------------------------------
(* DDL: a statement that is its own transaction (session.cpp refuses it in  *)
(* an explicit one).                                                        *)

Ddl(d) == txn = "begun" /\ txn' = "ddl" /\ db' = d /\ UNCHANGED <<saved, undo, pool>>

CreateSchema(n) ==
  /\ ~\E s \in db.schemas : s.name = n
  /\ nextSid <= MaxIds /\ nextSid' = nextSid + 1
  /\ Ddl([db EXCEPT !.schemas = @ \cup {[sid |-> nextSid, name |-> n]}])
  /\ UNCHANGED <<files, nextFid, nextTid, pending>>

\* drop_schema: refused while a table names the schema.
DropSchema(s) ==
  /\ s \in db.schemas
  /\ ~\E t \in db.tables : t.sid = s.sid
  /\ Ddl([db EXCEPT !.schemas = @ \ {s}])
  /\ UNCHANGED <<files, ids, pending>>

\* create_table: the file first, then the metadata rows.
CreateTable(s, n) ==
  /\ s \in db.schemas
  /\ ~\E t \in db.tables : t.sid = s.sid /\ t.name = n
  /\ nextTid <= MaxIds /\ nextTid' = nextTid + 1
  /\ nextFid <= MaxFid /\ nextFid' = nextFid + 1
  /\ files' = files \cup {nextFid}
  /\ Ddl([db EXCEPT !.tables = @ \cup {[tid |-> nextTid, name |-> n, fid |-> nextFid, sid |-> s.sid]},
                    !.columns = @ \cup {nextTid},
                    !.heap[nextFid] = <<>>])
  /\ UNCHANGED <<nextSid, pending>>

\* A refused create_table has used up a table id: alloc_table_id comes before
\* the check for the name.
CreateTableRefused(s, n) ==
  /\ txn = "begun" /\ txn' = "failed"
  /\ s \in db.schemas /\ \E t \in db.tables : t.sid = s.sid /\ t.name = n
  /\ nextTid <= MaxIds /\ nextTid' = nextTid + 1
  /\ UNCHANGED <<db, saved, undo, files, nextFid, nextSid, pending, pool>>

DropTableAlone(t) ==
  /\ t \in db.tables
  /\ Ddl(Without([db EXCEPT !.tables = @ \ {t}, !.columns = @ \ {t.tid}], {t.fid}))
  /\ pending' = pending \cup {t.fid}
  /\ UNCHANGED <<files, ids>>

\* drop_table: the table's indexes, its metadata rows, its file.
DropTable(t) ==
  LET gone == {t.fid} \cup {i.fid : i \in IndexesOf(db, t)}
  IN /\ t \in db.tables
     /\ Ddl(Without([db EXCEPT !.tables = @ \ {t}, !.columns = @ \ {t.tid},
                               !.indexes = @ \ IndexesOf(db, t)], gone))
     /\ pending' = pending \cup gone
     /\ UNCHANGED <<files, ids>>

\* build_index: an entry for every live row.
Backfill(slots) == {[key |-> slots[r].val, ref |-> r] : r \in {q \in DOMAIN slots : slots[q].live}}

CreateIndex(t, n) ==
  /\ t \in db.tables
  /\ ~\E i \in IndexesOf(db, t) : i.name = n
  /\ nextFid <= MaxFid /\ nextFid' = nextFid + 1
  /\ files' = files \cup {nextFid}
  /\ Ddl([db EXCEPT !.indexes = @ \cup {[tid |-> t.tid, name |-> n, fid |-> nextFid]},
                    !.tree[nextFid] = Backfill(db.heap[t.fid])])
  /\ UNCHANGED <<nextTid, nextSid, pending>>

DropIndex(i) ==
  /\ i \in db.indexes
  /\ Ddl(Without([db EXCEPT !.indexes = @ \ {i}], {i.fid}))
  /\ pending' = pending \cup {i.fid}
  /\ UNCHANGED <<files, ids>>

-----------------------------------------------------------------------------
(* DML. A statement on several rows takes one step per row; the lock is     *)
(* held throughout and an error rolls the transaction back.                 *)

Dml(d) == /\ txn \in {"begun", "dml"} /\ txn' = "dml" /\ db' = d
          /\ UNCHANGED <<saved, undo, files, ids, pending, pool>>

\* The trees after every index of t got an entry for the row at ref.
WithEntries(d, t, v, ref) ==
  [f \in Fids |-> IF \E i \in IndexesOf(d, t) : i.fid = f
                    THEN d.tree[f] \cup {[key |-> v, ref |-> ref]} ELSE d.tree[f]]

\* Catalog::insert: the row, then an entry in every index of the table.
Insert(t, v) ==
  /\ t \in db.tables /\ Len(db.heap[t.fid]) < MaxSlots
  /\ Dml([db EXCEPT !.heap[t.fid] = Append(@, [val |-> v, live |-> TRUE]),
                    !.tree = WithEntries(db, t, v, Len(db.heap[t.fid]) + 1)])

\* delete_by_ref: a tombstone; the index entries stay.
DeleteByRef(t, r) ==
  /\ t \in db.tables /\ r \in DOMAIN db.heap[t.fid] /\ db.heap[t.fid][r].live
  /\ Dml([db EXCEPT !.heap[t.fid][r].live = FALSE])

UpdateInPlaceEntries(t, r, v) ==
  /\ t \in db.tables /\ r \in DOMAIN db.heap[t.fid] /\ db.heap[t.fid][r].live
  /\ Len(db.heap[t.fid]) < MaxSlots
  /\ Dml([db EXCEPT !.heap[t.fid] = Append([@ EXCEPT ![r].live = FALSE], [val |-> v, live |-> TRUE]),
                    !.tree = IF v = db.heap[t.fid][r].val THEN @
                             ELSE WithEntries(db, t, v, Len(db.heap[t.fid]) + 1)])

\* update_rows, one row: tombstone, append, an entry in every index.
UpdateRow(t, r, v) ==
  /\ t \in db.tables /\ r \in DOMAIN db.heap[t.fid] /\ db.heap[t.fid][r].live
  /\ Len(db.heap[t.fid]) < MaxSlots
  /\ Dml([db EXCEPT !.heap[t.fid] = Append([@ EXCEPT ![r].live = FALSE], [val |-> v, live |-> TRUE]),
                    !.tree = WithEntries(db, t, v, Len(db.heap[t.fid]) + 1)])

\* delete_all.
DeleteAll(t) ==
  /\ t \in db.tables
  /\ Dml([db EXCEPT !.heap[t.fid] = [r \in DOMAIN @ |-> [@[r] EXCEPT !.live = FALSE]]])

-----------------------------------------------------------------------------

DdlStep ==
  \/ \E n \in SchemaNames : CreateSchema(n)
  \/ \E s \in db.schemas : DropSchema(s)
  \/ \E s \in db.schemas, n \in TableNames : CreateTable(s, n) \/ CreateTableRefused(s, n)
  \/ \E t \in db.tables : DropTable(t)
  \/ \E t \in db.tables, n \in IndexNames : CreateIndex(t, n)
  \/ \E i \in db.indexes : DropIndex(i)

DmlStep ==
  \E t \in db.tables :
    \/ \E v \in Vals : Insert(t, v)
    \/ \E r \in DOMAIN db.heap[t.fid] : DeleteByRef(t, r)
    \/ \E r \in DOMAIN db.heap[t.fid], v \in Vals : UpdateRow(t, r, v)
    \/ DeleteAll(t)

Next ==
  \/ BeginTxn \/ CommitTxn \/ UnlinkNext \/ CommitRaises \/ RollbackTxn \/ Crash \/ Open
  \/ Steal \/ WriteRestored
  \/ DdlStep \/ DmlStep

Spec == Init /\ [][Next]_vars

-----------------------------------------------------------------------------

\* Every visible or committed metadata row names a file that is there, and no
\* two rows name the same one, whatever was created, dropped, rolled back or
\* crashed before ("保证元数据可见时数据文件必有效", catalog_ddl.cpp:69).
FilesValid(d) ==
  /\ FileIds(d) \subseteq files
  /\ \A t, u \in d.tables : t.fid = u.fid => t = u
  /\ \A i, j \in d.indexes : i.fid = j.fid => i = j
  /\ \A t \in d.tables, i \in d.indexes : t.fid # i.fid

\* FilesValid for what a restart brings back, at all times, and for what
\* readers see unless an error after the Commit record took the transaction's
\* rows back and its files not (Catalog::commit_txn): the restart repairs that.
\* Unless a restart found bytes of a rolled-back transaction.
MetaFilesValid == ~spoilt => FilesValid(saved) /\ (txn # "raised" => FilesValid(db))

\* catalog_ddl.cpp:69: what readers see names files that are there. TLC
\* refutes it by a removal that fails after the Commit record.
VisibleFilesValid == FilesValid(db)

\* Tables have an existing schema, a name of their own in it and their own
\* column rows; indexes have an existing table and a name of their own on it.
\* Ids freed by a drop and handed out again after a restart bring no row of
\* the old owner along (drop_schema, drop_table, open).
Resolves(d) ==
  /\ \A s, r \in d.schemas : s.sid = r.sid \/ s.name = r.name => s = r
  /\ \A t \in d.tables : \E s \in d.schemas : s.sid = t.sid
  /\ \A t, u \in d.tables : t.tid = u.tid \/ (t.sid = u.sid /\ t.name = u.name) => t = u
  /\ d.columns = {t.tid : t \in d.tables}
  /\ \A i \in d.indexes : \E t \in d.tables : t.tid = i.tid
  /\ \A i, j \in d.indexes : i.tid = j.tid /\ i.name = j.name => i = j

\* Resolves for what readers see and for what a restart brings back, unless one
\* found bytes of a rolled-back transaction.
NamesResolve == ~spoilt => Resolves(db) /\ Resolves(saved)

\* A query through an index finds exactly the live rows a scan finds, by any
\* value, although entries of deleted rows stay in the tree (insert,
\* update_rows, build_index; FetchOp skips tombstones), over rollbacks and
\* restarts, unless one found bytes of a rolled-back transaction.
IndexAgrees ==
  ~spoilt => \A t \in db.tables : \A i \in IndexesOf(db, t) : \A v \in Vals :
    LET slots == db.heap[t.fid]
    IN {e.ref : e \in {x \in db.tree[i.fid] : x.key = v /\ slots[x.ref].live}}
         = {r \in DOMAIN slots : slots[r].live /\ slots[r].val = v}

=============================================================================
