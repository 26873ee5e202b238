--------------------------- MODULE Catalog_proofs ---------------------------
(***************************************************************************)
(* Proofs about Catalog, for any names, values and bounds.                 *)
(*                                                                         *)
(* None of the three properties is inductive. A rollback or a crash brings *)
(* an earlier database back, so each part is stated of all three versions  *)
(* (Sound); new rows get unused ids because the counters are ahead of all  *)
(* versions (Ahead); which versions agree, and what may wait for removal,  *)
(* depends on how far the transaction is (Phases, Removals). All of it     *)
(* until a restart finds bytes of a rolled-back transaction (spoilt).      *)
(***************************************************************************)
EXTENDS Catalog, TLAPS

Slot      == [val : Vals, live : BOOLEAN]
SchemaRow == [sid : Nat, name : SchemaNames]
TableRow  == [tid : Nat, name : TableNames, fid : Fids, sid : Nat]
IndexRow  == [tid : Nat, name : IndexNames, fid : Fids]
Database  == [schemas : SUBSET SchemaRow, tables : SUBSET TableRow, columns : SUBSET Nat,
              indexes : SUBSET IndexRow, heap : [Fids -> Seq(Slot)],
              tree : [Fids -> SUBSET [key : Vals, ref : Nat]]]

\* No two metadata rows name the same file.
OwnFiles(d) ==
  /\ \A t, u \in d.tables : t.fid = u.fid => t = u
  /\ \A i, j \in d.indexes : i.fid = j.fid => i = j
  /\ \A t \in d.tables, i \in d.indexes : t.fid # i.fid

\* The entries of a tree against the slots of its table: every entry was made
\* for the row in its slot, deleted or not, and every live row has one.
Covers(entries, slots) ==
  /\ \A e \in entries : e.ref \in DOMAIN slots /\ slots[e.ref].val = e.key
  /\ \A r \in DOMAIN slots : slots[r].live => [key |-> slots[r].val, ref |-> r] \in entries

Indexed(d) ==
  \A t \in d.tables, i \in d.indexes : i.tid = t.tid => Covers(d.tree[i.fid], d.heap[t.fid])

\* The id counters are ahead of every row.
Ahead(d) ==
  /\ \A s \in d.schemas : s.sid < nextSid
  /\ \A t \in d.tables : t.tid < nextTid /\ t.fid < nextFid
  /\ \A i \in d.indexes : i.fid < nextFid

Sound(d) == d \in Database /\ OwnFiles(d) /\ Resolves(d) /\ Indexed(d)

\* Which versions agree, and when nothing waits for removal.
Phases ==
  /\ txn \in {"none", "begun", "dml", "ddl", "failed", "down"} => undo = saved
  /\ txn \in {"none", "begun", "failed", "unlinking", "down"} => db = saved
  /\ txn \in {"none", "begun", "dml", "failed", "down"} => pending = {}

\* The files of what readers see, and of what a restart brings back, are there
\* and are not about to be removed.
Removals ==
  /\ FileIds(saved) \subseteq files
  /\ txn # "raised" => FileIds(db) \subseteq files /\ FileIds(db) \cap pending = {}
  /\ txn \in {"unlinking", "raised"} => FileIds(saved) \cap pending = {}

Counters ==
  /\ nextFid \in 1..MaxFid + 1 /\ nextTid \in 1..MaxIds + 1 /\ nextSid \in 1..MaxIds + 1
  /\ txn # "down" => Ahead(db) /\ Ahead(saved) /\ Ahead(undo)

Versions == Sound(db) /\ Sound(saved) /\ Sound(undo)

Inv == Versions /\ Phases /\ Removals /\ Counters

-----------------------------------------------------------------------------

\* The empty directory.
LEMMA InitInv == Init => Inv
<1> SUFFICES ASSUME Init PROVE Inv
  OBVIOUS
<1>1. EmptyDb \in Database
  BY DEF EmptyDb, Database
<1>2. Sound(EmptyDb)
  BY <1>1 DEF Sound, OwnFiles, Resolves, Indexed, EmptyDb
<1>3. Versions /\ Phases
  BY <1>2 DEF Init, Versions, Phases
<1>4. FileIds(db) = {} /\ FileIds(saved) = {}
  BY DEF Init, FileIds, EmptyDb
<1>5. Removals
  BY <1>4 DEF Removals, Init
<1>6. Counters
  BY CatalogConstants DEF Counters, Ahead, Init, EmptyDb
<1> QED BY <1>3, <1>5, <1>6 DEF Inv

\* The ids of a set of rows with one row more.
LEMMA AddedIds ==
  ASSUME NEW R, NEW x
  PROVE  /\ {r.fid : r \in R \cup {x}} = {r.fid : r \in R} \cup {x.fid}
         /\ {r.tid : r \in R \cup {x}} = {r.tid : r \in R} \cup {x.tid}
OBVIOUS

\* CREATE SCHEMA: a new row with an unused id and name.
LEMMA CreateSchemaSound ==
  ASSUME Sound(db), Counters, Ahead(db), NEW n \in SchemaNames, CreateSchema(n)
  PROVE  Sound(db') /\ Ahead(db)' /\ FileIds(db') = FileIds(db)
<1> DEFINE s == [sid |-> nextSid, name |-> n]
<1>1. db' = [db EXCEPT !.schemas = @ \cup {s}]
  BY DEF CreateSchema, Ddl
<1>2. /\ db'.schemas = db.schemas \cup {s} /\ db'.tables = db.tables
      /\ db'.columns = db.columns /\ db'.indexes = db.indexes
      /\ db'.heap = db.heap /\ db'.tree = db.tree
  BY <1>1 DEF Sound, Database
<1>3. s \in SchemaRow
  BY CatalogConstants DEF SchemaRow, Counters
<1>4. db' \in Database
  BY <1>1, <1>3 DEF Sound, Database
<1>5. OwnFiles(db') /\ Indexed(db')
  BY <1>2 DEF Sound, OwnFiles, Indexed
<1>6. Resolves(db')
  <2>1. \A r \in db.schemas : r.sid # nextSid /\ r.name # n
    BY CatalogConstants DEF Ahead, CreateSchema, Counters, Sound, Database, SchemaRow
  <2> QED BY <1>2, <2>1 DEF Sound, Resolves
<1>7. Ahead(db)'
  BY <1>2, CatalogConstants DEF Ahead, CreateSchema, Counters, Sound, Database, SchemaRow
<1> QED BY <1>2, <1>4, <1>5, <1>6, <1>7 DEF Sound, FileIds

\* DROP SCHEMA: no table names it.
LEMMA DropSchemaSound ==
  ASSUME Sound(db), Ahead(db), NEW s \in db.schemas, DropSchema(s)
  PROVE  Sound(db') /\ Ahead(db)' /\ FileIds(db') = FileIds(db)
<1>1. db' = [db EXCEPT !.schemas = @ \ {s}]
  BY DEF DropSchema, Ddl
<1>2. /\ db'.schemas = db.schemas \ {s} /\ db'.tables = db.tables
      /\ db'.columns = db.columns /\ db'.indexes = db.indexes
      /\ db'.heap = db.heap /\ db'.tree = db.tree
  BY <1>1 DEF Sound, Database
<1>4. db' \in Database
  BY <1>1 DEF Sound, Database
<1>5. OwnFiles(db') /\ Indexed(db')
  BY <1>2 DEF Sound, OwnFiles, Indexed
<1>6. Resolves(db')
  BY <1>2 DEF Sound, Resolves, DropSchema
<1>7. Ahead(db)'
  BY <1>2 DEF Ahead, DropSchema, ids
<1> QED BY <1>2, <1>4, <1>5, <1>6, <1>7 DEF Sound, FileIds

\* CREATE TABLE: unused ids, its own empty file, its column rows.
LEMMA CreateTableSound ==
  ASSUME Sound(db), Counters, Ahead(db), NEW s \in db.schemas, NEW n \in TableNames,
         CreateTable(s, n)
  PROVE  Sound(db') /\ Ahead(db)' /\ FileIds(db') = FileIds(db) \cup {nextFid}
<1> DEFINE t == [tid |-> nextTid, name |-> n, fid |-> nextFid, sid |-> s.sid]
<1>1. db' = [db EXCEPT !.tables = @ \cup {t}, !.columns = @ \cup {nextTid}, !.heap[nextFid] = <<>>]
  BY DEF CreateTable, Ddl
<1>2. /\ db'.schemas = db.schemas /\ db'.tables = db.tables \cup {t}
      /\ db'.columns = db.columns \cup {nextTid} /\ db'.indexes = db.indexes
      /\ db'.heap = [db.heap EXCEPT ![nextFid] = <<>>] /\ db'.tree = db.tree
  BY <1>1 DEF Sound, Database
<1>3. nextFid \in Fids /\ nextTid \in Nat
  BY CatalogConstants DEF Counters, CreateTable, Fids
<1>4. t \in TableRow
  BY <1>3 DEF TableRow, Sound, Database, SchemaRow
<1>5. db' \in Database
  <2>1. db'.tables \subseteq TableRow /\ db'.columns \subseteq Nat
    BY <1>2, <1>3, <1>4 DEF Sound, Database
  <2>2. db'.heap \in [Fids -> Seq(Slot)]
    <3>1. <<>> \in Seq(Slot) /\ db.heap \in [Fids -> Seq(Slot)]
      BY DEF Sound, Database
    <3> QED BY <1>2, <3>1
  <2> QED BY <1>1, <1>2, <2>1, <2>2 DEF Sound, Database
<1>6. /\ \A u \in db.tables : u.fid # nextFid /\ u.tid # nextTid
      /\ \A i \in db.indexes : i.fid # nextFid
  BY CatalogConstants DEF Ahead, Counters, Sound, Database, TableRow, IndexRow, Fids
<1>7. OwnFiles(db')
  BY <1>2, <1>6 DEF Sound, OwnFiles
<1>8. Resolves(db')
  <2>1. \A u \in db.tables : ~(u.sid = s.sid /\ u.name = n)
    BY DEF CreateTable
  <2>2. db'.columns = {u.tid : u \in db'.tables}
    <3>1. t.tid = nextTid /\ db.columns = {u.tid : u \in db.tables}
      BY DEF Sound, Resolves
    <3> HIDE DEF t
    <3> QED BY <1>2, <3>1, AddedIds
  <2>3. \A u \in db'.tables : \E r \in db'.schemas : r.sid = u.sid
    BY <1>2 DEF Sound, Resolves
  <2>4. \A u, v \in db'.tables : u.tid = v.tid \/ (u.sid = v.sid /\ u.name = v.name) => u = v
    BY <1>2, <1>6, <2>1 DEF Sound, Resolves
  <2> QED BY <1>2, <2>2, <2>3, <2>4 DEF Sound, Resolves
<1>9. Indexed(db')
  <2> SUFFICES ASSUME NEW u \in db'.tables, NEW i \in db'.indexes, i.tid = u.tid
               PROVE  Covers(db'.tree[i.fid], db'.heap[u.fid])
    BY DEF Indexed
  <2>1. \E v \in db.tables : v.tid = i.tid
    BY <1>2 DEF Sound, Resolves
  <2>2. u \in db.tables
    BY <1>2, <1>6, <2>1
  <2>3. db'.heap[u.fid] = db.heap[u.fid]
    BY <1>2, <1>6, <2>2 DEF Sound, Database, TableRow
  <2> QED BY <1>2, <2>2, <2>3 DEF Sound, Indexed
<1>10. Ahead(db)'
  BY <1>2, <1>3, CatalogConstants DEF Ahead, CreateTable, Counters, Sound, Database, TableRow,
     IndexRow, Fids
<1>11. FileIds(db') = FileIds(db) \cup {nextFid}
  <2>1. t.fid = nextFid
    OBVIOUS
  <2> HIDE DEF t
  <2> QED BY <1>2, <2>1, AddedIds DEF FileIds
<1> QED BY <1>5, <1>7, <1>8, <1>9, <1>10, <1>11 DEF Sound

\* build_index: the new tree covers the table's rows.
LEMMA BackfillCovers ==
  ASSUME NEW slots \in Seq(Slot)
  PROVE  /\ Backfill(slots) \in SUBSET [key : Vals, ref : Nat]
         /\ Covers(Backfill(slots), slots)
<1>1. \A r \in DOMAIN slots : slots[r] \in Slot /\ r \in Nat
  OBVIOUS
<1>2. Backfill(slots) \in SUBSET [key : Vals, ref : Nat]
  BY <1>1 DEF Backfill, Slot
<1>3. \A e \in Backfill(slots) : e.ref \in DOMAIN slots /\ slots[e.ref].val = e.key
  BY DEF Backfill
<1>4. \A r \in DOMAIN slots : slots[r].live => [key |-> slots[r].val, ref |-> r] \in Backfill(slots)
  BY DEF Backfill
<1> QED BY <1>2, <1>3, <1>4 DEF Covers

\* CREATE INDEX: an unused file id and a tree of the table's rows.
LEMMA CreateIndexSound ==
  ASSUME Sound(db), Counters, Ahead(db), NEW t \in db.tables, NEW n \in IndexNames,
         CreateIndex(t, n)
  PROVE  Sound(db') /\ Ahead(db)' /\ FileIds(db') = FileIds(db) \cup {nextFid}
<1> DEFINE i == [tid |-> t.tid, name |-> n, fid |-> nextFid]
           entries == Backfill(db.heap[t.fid])
<1>1. db' = [db EXCEPT !.indexes = @ \cup {i}, !.tree[nextFid] = entries]
  BY DEF CreateIndex, Ddl
<1>2. /\ db'.schemas = db.schemas /\ db'.tables = db.tables
      /\ db'.columns = db.columns /\ db'.indexes = db.indexes \cup {i}
      /\ db'.heap = db.heap /\ db'.tree = [db.tree EXCEPT ![nextFid] = entries]
  BY <1>1 DEF Sound, Database
<1>3. nextFid \in Fids /\ t \in TableRow /\ db.heap[t.fid] \in Seq(Slot)
  BY CatalogConstants DEF Counters, CreateIndex, Fids, Sound, Database, TableRow
<1>4. i \in IndexRow
  BY <1>3 DEF IndexRow, TableRow
<1>5. db' \in Database
  <2>1. entries \in SUBSET [key : Vals, ref : Nat]
    BY <1>3, BackfillCovers
  <2> QED BY <1>1, <1>3, <1>4, <2>1 DEF Sound, Database
<1>6. /\ \A u \in db.tables : u.fid # nextFid
      /\ \A j \in db.indexes : j.fid # nextFid
  BY CatalogConstants DEF Ahead, Counters, Sound, Database, TableRow, IndexRow, Fids
<1>7. OwnFiles(db')
  BY <1>2, <1>6 DEF Sound, OwnFiles
<1>8. Resolves(db')
  <2>1. \A j \in db.indexes : ~(j.tid = t.tid /\ j.name = n)
    BY DEF CreateIndex, IndexesOf
  <2> QED BY <1>2, <2>1 DEF Sound, Resolves
<1>9. Indexed(db')
  <2> SUFFICES ASSUME NEW u \in db'.tables, NEW j \in db'.indexes, j.tid = u.tid
               PROVE  Covers(db'.tree[j.fid], db'.heap[u.fid])
    BY DEF Indexed
  <2>1. CASE j = i
    <3>1. u = t
      BY <1>2, <2>1 DEF Sound, Resolves
    <3>2. db'.tree[j.fid] = entries
      BY <1>2, <1>3, <2>1 DEF Sound, Database
    <3> QED BY <1>2, <1>3, <3>1, <3>2, BackfillCovers
  <2>2. CASE j \in db.indexes
    <3>1. db'.tree[j.fid] = db.tree[j.fid]
      BY <1>2, <1>6, <2>2 DEF Sound, Database, IndexRow
    <3> QED BY <1>2, <2>2, <3>1 DEF Sound, Indexed
  <2> QED BY <1>2, <2>1, <2>2
<1>10. Ahead(db)'
  BY <1>2, <1>3, CatalogConstants, SMTT(30) DEF Ahead, CreateIndex, Counters, Sound, Database, TableRow,
     IndexRow, Fids
<1>11. FileIds(db') = FileIds(db) \cup {nextFid}
  <2>1. i.fid = nextFid
    OBVIOUS
  <2> HIDE DEF i
  <2> QED BY <1>2, <2>1, AddedIds DEF FileIds
<1> QED BY <1>5, <1>7, <1>8, <1>9, <1>10, <1>11 DEF Sound

\* Files that no row names any more are emptied.
LEMMA WithoutFields ==
  ASSUME NEW d \in Database, NEW gone
  PROVE  LET w == Without(d, gone)
         IN /\ w \in Database
            /\ w.schemas = d.schemas /\ w.tables = d.tables
            /\ w.columns = d.columns /\ w.indexes = d.indexes
            /\ \A f \in Fids \ gone : w.heap[f] = d.heap[f] /\ w.tree[f] = d.tree[f]
<1> DEFINE h == [g \in Fids |-> IF g \in gone THEN <<>> ELSE d.heap[g]]
           t == [g \in Fids |-> IF g \in gone THEN {} ELSE d.tree[g]]
<1>1. Without(d, gone) = [d EXCEPT !.heap = h, !.tree = t]
  BY DEF Without
<1>2. h \in [Fids -> Seq(Slot)]
  <2>1. <<>> \in Seq(Slot) /\ d.heap \in [Fids -> Seq(Slot)]
    BY DEF Database
  <2> QED BY <2>1
<1>3. t \in [Fids -> SUBSET [key : Vals, ref : Nat]]
  BY DEF Database
<1>4. \A f \in Fids \ gone : h[f] = d.heap[f] /\ t[f] = d.tree[f]
  OBVIOUS
<1> HIDE DEF h, t
<1> QED BY <1>1, <1>2, <1>3, <1>4 DEF Database

\* A database that has lost rows, and the contents of files that the remaining
\* rows do not name, is still sound.
LEMMA FewerRowsSound ==
  ASSUME NEW d, Sound(d), NEW e \in Database,
         e.schemas = d.schemas, e.tables \subseteq d.tables, e.indexes \subseteq d.indexes,
         e.columns = {t.tid : t \in e.tables},
         \A i \in e.indexes : \E t \in e.tables : t.tid = i.tid,
         \A f \in FileIds(e) : e.heap[f] = d.heap[f] /\ e.tree[f] = d.tree[f]
  PROVE  Sound(e)
<1>1. OwnFiles(e)
  BY DEF Sound, OwnFiles
<1>2. Resolves(e)
  BY DEF Sound, Resolves
<1>3. Indexed(e)
  <2> SUFFICES ASSUME NEW t \in e.tables, NEW i \in e.indexes, i.tid = t.tid
               PROVE  Covers(e.tree[i.fid], e.heap[t.fid])
    BY DEF Indexed
  <2>1. t.fid \in FileIds(e) /\ i.fid \in FileIds(e)
    BY DEF FileIds
  <2> QED BY <2>1 DEF Sound, Indexed
<1> QED BY <1>1, <1>2, <1>3 DEF Sound

\* DROP TABLE: its rows, its indexes and their files, and no others.
LEMMA DropTableSound ==
  ASSUME Sound(db), Ahead(db), NEW t \in db.tables, DropTable(t)
  PROVE  /\ Sound(db') /\ Ahead(db)' /\ FileIds(db') \subseteq FileIds(db)
         /\ FileIds(db') \cap (pending' \ pending) = {}
<1> DEFINE gone == {t.fid} \cup {i.fid : i \in IndexesOf(db, t)}
           d == [db EXCEPT !.tables = @ \ {t}, !.columns = @ \ {t.tid},
                           !.indexes = @ \ IndexesOf(db, t)]
<1>1. db' = Without(d, gone) /\ pending' = pending \cup gone
  BY DEF DropTable, Ddl
<1>2. /\ d \in Database /\ d.schemas = db.schemas /\ d.tables = db.tables \ {t}
      /\ d.columns = db.columns \ {t.tid} /\ d.indexes = db.indexes \ IndexesOf(db, t)
      /\ d.heap = db.heap /\ d.tree = db.tree
  BY DEF Sound, Database
<1> HIDE DEF d, gone
<1>3. /\ db' \in Database /\ db'.schemas = db.schemas /\ db'.tables = db.tables \ {t}
      /\ db'.columns = db.columns \ {t.tid} /\ db'.indexes = db.indexes \ IndexesOf(db, t)
      /\ \A f \in Fids \ gone : db'.heap[f] = db.heap[f] /\ db'.tree[f] = db.tree[f]
  BY <1>1, <1>2, WithoutFields
<1>4. FileIds(db') \subseteq FileIds(db) /\ FileIds(db') \cap gone = {} /\ FileIds(db') \subseteq Fids
  <2>1. /\ \A u \in db'.tables : u.fid \in Fids /\ u.fid \notin gone
        /\ \A i \in db'.indexes : i.fid \in Fids /\ i.fid \notin gone
    BY <1>3 DEF gone, Sound, OwnFiles, IndexesOf, Database, TableRow, IndexRow
  <2> QED BY <1>3, <2>1 DEF FileIds
<1>5. db'.columns = {u.tid : u \in db'.tables}
  BY <1>3 DEF Sound, Resolves
<1>6. \A i \in db'.indexes : \E u \in db'.tables : u.tid = i.tid
  BY <1>3 DEF Sound, Resolves, IndexesOf
<1>7. \A f \in FileIds(db') : db'.heap[f] = db.heap[f] /\ db'.tree[f] = db.tree[f]
  BY <1>3, <1>4
<1>8. Sound(db')
  <2>1. db'.tables \subseteq db.tables /\ db'.indexes \subseteq db.indexes
    BY <1>3
  <2> QED BY <1>3, <1>5, <1>6, <1>7, <2>1, FewerRowsSound
<1>9. Ahead(db)'
  BY <1>3 DEF Ahead, DropTable, ids
<1> QED BY <1>1, <1>4, <1>8, <1>9

\* DROP INDEX: its row and its file.
LEMMA DropIndexSound ==
  ASSUME Sound(db), Ahead(db), NEW i \in db.indexes, DropIndex(i)
  PROVE  /\ Sound(db') /\ Ahead(db)' /\ FileIds(db') \subseteq FileIds(db)
         /\ FileIds(db') \cap (pending' \ pending) = {}
<1> DEFINE d == [db EXCEPT !.indexes = @ \ {i}]
<1>1. db' = Without(d, {i.fid}) /\ pending' = pending \cup {i.fid}
  BY DEF DropIndex, Ddl
<1>2. /\ d \in Database /\ d.schemas = db.schemas /\ d.tables = db.tables
      /\ d.columns = db.columns /\ d.indexes = db.indexes \ {i}
      /\ d.heap = db.heap /\ d.tree = db.tree
  BY DEF Sound, Database
<1> HIDE DEF d
<1>3. /\ db' \in Database /\ db'.schemas = db.schemas /\ db'.tables = db.tables
      /\ db'.columns = db.columns /\ db'.indexes = db.indexes \ {i}
      /\ \A f \in Fids \ {i.fid} : db'.heap[f] = db.heap[f] /\ db'.tree[f] = db.tree[f]
  BY <1>1, <1>2, WithoutFields
<1>4. FileIds(db') \subseteq FileIds(db) /\ i.fid \notin FileIds(db') /\ FileIds(db') \subseteq Fids
  <2>1. /\ \A u \in db'.tables : u.fid \in Fids /\ u.fid # i.fid
        /\ \A j \in db'.indexes : j.fid \in Fids /\ j.fid # i.fid
    BY <1>3 DEF Sound, OwnFiles, Database, TableRow, IndexRow
  <2> QED BY <1>3, <2>1 DEF FileIds
<1>5. Sound(db')
  <2>1. db'.columns = {u.tid : u \in db'.tables}
    BY <1>3 DEF Sound, Resolves
  <2>2. \A j \in db'.indexes : \E u \in db'.tables : u.tid = j.tid
    BY <1>3 DEF Sound, Resolves
  <2>3. \A f \in FileIds(db') : db'.heap[f] = db.heap[f] /\ db'.tree[f] = db.tree[f]
    BY <1>3, <1>4
  <2> QED BY <1>3, <2>1, <2>2, <2>3, FewerRowsSound
<1>6. Ahead(db)'
  BY <1>3 DEF Ahead, DropIndex, ids
<1> QED BY <1>1, <1>4, <1>5, <1>6

\* The slots after some rows became tombstones.
Buried(slots, later) ==
  /\ later \in Seq(Slot) /\ DOMAIN later = DOMAIN slots
  /\ \A r \in DOMAIN slots : later[r].val = slots[r].val /\ (later[r].live => slots[r].live)

\* A tombstone keeps its value, so that a tree still covers the slots.
LEMMA BuriedCovers ==
  ASSUME NEW slots, NEW later, NEW entries, Buried(slots, later), Covers(entries, slots)
  PROVE  Covers(entries, later)
BY DEF Buried, Covers

\* A tombstone in place of a row.
LEMMA TombstoneSlot ==
  ASSUME NEW x \in Slot
  PROVE  LET y == [x EXCEPT !.live = FALSE]
         IN y \in Slot /\ y.val = x.val /\ y.live = FALSE
<1>1. [x EXCEPT !.live = FALSE] \in Slot
  BY Zenon DEF Slot
<1>2. [x EXCEPT !.live = FALSE].val = x.val
  BY DEF Slot
<1>3. [x EXCEPT !.live = FALSE].live = FALSE
  BY DEF Slot
<1> QED BY <1>1, <1>2, <1>3

\* The tombstone of delete_by_ref and update_rows.
LEMMA TombstoneBuried ==
  ASSUME NEW slots \in Seq(Slot), NEW r \in DOMAIN slots
  PROVE  Buried(slots, [slots EXCEPT ![r].live = FALSE])
<1> DEFINE later == [slots EXCEPT ![r].live = FALSE]
<1>1. slots[r] \in Slot
  OBVIOUS
<1>2. later[r] \in Slot /\ later[r].val = slots[r].val /\ later[r].live = FALSE
  BY <1>1, TombstoneSlot
<1>3. later \in Seq(Slot) /\ DOMAIN later = DOMAIN slots
  <2> DEFINE x == [slots[r] EXCEPT !.live = FALSE]
  <2>1. x \in Slot
    BY <1>1, TombstoneSlot
  <2>2. later = [slots EXCEPT ![r] = x]
    OBVIOUS
  <2> HIDE DEF x, later
  <2> QED BY <2>1, <2>2
<1>5. \A q \in DOMAIN slots : q # r => later[q] = slots[q]
  OBVIOUS
<1> HIDE DEF later
<1>6. \A q \in DOMAIN slots : later[q].val = slots[q].val /\ (later[q].live => slots[q].live)
  BY <1>2, <1>5
<1> QED BY <1>3, <1>6 DEF Buried, later

\* An appended row and its entry keep slots and tree together.
LEMMA AppendCovers ==
  ASSUME NEW slots \in Seq(Slot), NEW v \in Vals, NEW entries, Covers(entries, slots)
  PROVE  Covers(entries \cup {[key |-> v, ref |-> Len(slots) + 1]},
                Append(slots, [val |-> v, live |-> TRUE]))
<1> DEFINE row == [val |-> v, live |-> TRUE]
           e == [key |-> v, ref |-> Len(slots) + 1]
           later == Append(slots, row)
<1>1. /\ DOMAIN later = DOMAIN slots \cup {Len(slots) + 1}
      /\ later[Len(slots) + 1] = row
      /\ \A r \in DOMAIN slots : later[r] = slots[r]
  OBVIOUS
<1>2. e.ref = Len(slots) + 1 /\ e.key = v /\ row.val = v
  OBVIOUS
<1> HIDE DEF later, row
<1>3. \A x \in entries \cup {e} : x.ref \in DOMAIN later /\ later[x.ref].val = x.key
  <2>1. \A x \in entries : x.ref \in DOMAIN later /\ later[x.ref].val = x.key
    BY <1>1 DEF Covers
  <2>2. e.ref \in DOMAIN later /\ later[e.ref].val = e.key
    BY <1>1, <1>2
  <2> HIDE DEF e
  <2> QED BY <2>1, <2>2
<1>4. ASSUME NEW r \in DOMAIN later, later[r].live
      PROVE  [key |-> later[r].val, ref |-> r] \in entries \cup {e}
  <2>1. CASE r = Len(slots) + 1
    BY <1>1, <1>2, <2>1
  <2>2. CASE r \in DOMAIN slots
    BY <1>1, <1>4, <2>2 DEF Covers
  <2> QED BY <1>1, <2>1, <2>2
<1> QED BY <1>3, <1>4 DEF Covers, later, row

\* A statement on rows keeps the metadata; the rest is the indexes' affair.
LEMMA RowsSound ==
  ASSUME Sound(db), Ahead(db), UNCHANGED ids, NEW h, NEW w,
         db' = [db EXCEPT !.heap = h, !.tree = w],
         h \in [Fids -> Seq(Slot)], w \in [Fids -> SUBSET [key : Vals, ref : Nat]],
         \A t \in db.tables, i \in db.indexes : i.tid = t.tid => Covers(w[i.fid], h[t.fid])
  PROVE  Sound(db') /\ Ahead(db)' /\ FileIds(db') = FileIds(db)
<1>1. /\ db' \in Database /\ db'.schemas = db.schemas /\ db'.tables = db.tables
      /\ db'.columns = db.columns /\ db'.indexes = db.indexes /\ db'.heap = h /\ db'.tree = w
  BY DEF Sound, Database
<1> QED BY <1>1 DEF Sound, OwnFiles, Resolves, Indexed, Ahead, ids, FileIds

\* delete_by_ref, delete_all: the slots of one table become tombstones.
LEMMA BurySound ==
  ASSUME Sound(db), Ahead(db), UNCHANGED ids, NEW t \in db.tables, NEW later,
         Buried(db.heap[t.fid], later), db' = [db EXCEPT !.heap[t.fid] = later]
  PROVE  Sound(db') /\ Ahead(db)' /\ FileIds(db') = FileIds(db)
<1> DEFINE h == [db.heap EXCEPT ![t.fid] = later]
<1>1. t.fid \in Fids /\ db.heap \in [Fids -> Seq(Slot)]
      /\ db.tree \in [Fids -> SUBSET [key : Vals, ref : Nat]]
  BY DEF Sound, Database, TableRow
<1>2. h \in [Fids -> Seq(Slot)]
  BY <1>1 DEF Buried
<1>3. db' = [db EXCEPT !.heap = h, !.tree = db.tree]
  BY DEF Sound, Database
<1>4. ASSUME NEW u \in db.tables, NEW i \in db.indexes, i.tid = u.tid
      PROVE  Covers(db.tree[i.fid], h[u.fid])
  <2>1. Covers(db.tree[i.fid], db.heap[u.fid]) /\ u.fid \in Fids
    BY <1>4 DEF Sound, Indexed, Database, TableRow
  <2>2. CASE u.fid = t.fid
    BY <1>1, <2>1, <2>2, BuriedCovers
  <2>3. CASE u.fid # t.fid
    BY <1>1, <2>1, <2>3
  <2> QED BY <2>2, <2>3
<1> HIDE DEF h
<1> QED BY <1>1, <1>2, <1>3, <1>4, RowsSound

\* insert and update_rows: some rows of one table are tombstones, one row is
\* appended and every index of the table gets its entry.
LEMMA AppendSound ==
  ASSUME Sound(db), Ahead(db), UNCHANGED ids, NEW t \in db.tables, NEW v \in Vals, NEW later,
         Buried(db.heap[t.fid], later),
         db' = [db EXCEPT !.heap[t.fid] = Append(later, [val |-> v, live |-> TRUE]),
                          !.tree = WithEntries(db, t, v, Len(db.heap[t.fid]) + 1)]
  PROVE  Sound(db') /\ Ahead(db)' /\ FileIds(db') = FileIds(db)
<1> DEFINE slots == Append(later, [val |-> v, live |-> TRUE])
           h == [db.heap EXCEPT ![t.fid] = slots]
           e == [key |-> v, ref |-> Len(db.heap[t.fid]) + 1]
           w == WithEntries(db, t, v, Len(db.heap[t.fid]) + 1)
<1>1. /\ t.fid \in Fids /\ db.heap \in [Fids -> Seq(Slot)]
      /\ db.tree \in [Fids -> SUBSET [key : Vals, ref : Nat]]
  BY DEF Sound, Database, TableRow
<1>2. db.heap[t.fid] \in Seq(Slot) /\ later \in Seq(Slot) /\ Len(later) = Len(db.heap[t.fid])
  BY <1>1 DEF Buried
<1>3. h \in [Fids -> Seq(Slot)]
  <2>1. [val |-> v, live |-> TRUE] \in Slot
    BY DEF Slot
  <2>2. slots \in Seq(Slot)
    BY <1>2, <2>1
  <2> HIDE DEF slots
  <2> QED BY <1>1, <2>2
<1>4. w \in [Fids -> SUBSET [key : Vals, ref : Nat]]
  <2>1. e \in [key : Vals, ref : Nat]
    BY <1>2
  <2> HIDE DEF e
  <2> QED BY <1>1, <2>1 DEF WithEntries, e
<1>5. db' = [db EXCEPT !.heap = h, !.tree = w]
  BY DEF Sound, Database
<1>6. ASSUME NEW u \in db.tables, NEW i \in db.indexes, i.tid = u.tid
      PROVE  Covers(w[i.fid], h[u.fid])
  <2>1. /\ Covers(db.tree[i.fid], db.heap[u.fid]) /\ u.fid \in Fids /\ i.fid \in Fids
    BY <1>6 DEF Sound, Indexed, Database, TableRow, IndexRow
  <2>2. CASE u = t
    <3>1. w[i.fid] = db.tree[i.fid] \cup {e}
      BY <1>6, <2>1, <2>2 DEF WithEntries, IndexesOf
    <3>2. Covers(db.tree[i.fid], later)
      BY <2>1, <2>2, BuriedCovers
    <3>3. Covers(db.tree[i.fid] \cup {e}, slots)
      BY <1>2, <3>2, AppendCovers
    <3> HIDE DEF w, slots, e
    <3> QED BY <1>1, <2>2, <3>1, <3>3
  <2>3. CASE u # t
    <3>1. u.fid # t.fid
      BY <2>3 DEF Sound, OwnFiles
    <3>2. \A j \in IndexesOf(db, t) : j.fid # i.fid
      <4>1. u.tid # t.tid
        BY <2>3 DEF Sound, Resolves
      <4> QED BY <1>6, <4>1 DEF Sound, OwnFiles, IndexesOf
    <3>3. w[i.fid] = db.tree[i.fid]
      BY <2>1, <3>2 DEF WithEntries
    <3> HIDE DEF w, slots
    <3> QED BY <1>1, <2>1, <3>1, <3>3
  <2> QED BY <2>2, <2>3
<1> HIDE DEF h, w
<1> QED BY <1>3, <1>4, <1>5, <1>6, RowsSound

-----------------------------------------------------------------------------

\* Counters that have grown are still ahead.
LEMMA StillAhead ==
  ASSUME NEW d \in Database, Ahead(d), Counters,
         nextFid' \in Nat, nextTid' \in Nat, nextSid' \in Nat,
         nextFid <= nextFid', nextTid <= nextTid', nextSid <= nextSid'
  PROVE  Ahead(d)'
BY CatalogConstants DEF Ahead, Counters, Database, SchemaRow, TableRow, IndexRow, Fids

\* What a statement has to show: its database is sound, its rows have files,
\* none of them about to be removed.
LEMMA StatementInv ==
  ASSUME Inv, txn \in {"begun", "dml"}, txn' \in {"dml", "ddl"}, UNCHANGED <<saved, undo>>,
         txn' = "dml" => pending' = {},
         Sound(db'), Ahead(db)', Ahead(saved)', Ahead(undo)',
         nextFid' \in 1..MaxFid + 1, nextTid' \in 1..MaxIds + 1, nextSid' \in 1..MaxIds + 1,
         files \subseteq files', FileIds(db') \subseteq files', FileIds(db') \cap pending' = {}
  PROVE  Inv'
<1>1. Versions'
  BY DEF Inv, Versions
<1>2. Phases'
  BY DEF Inv, Phases
<1>3. Removals'
  BY DEF Inv, Removals
<1>4. Counters'
  BY DEF Counters
<1> QED BY <1>1, <1>2, <1>3, <1>4 DEF Inv

\* DDL statements.
LEMMA DdlInv == ASSUME Inv, DdlStep PROVE Inv'
<1> USE CatalogConstants
<1>1. /\ txn = "begun" /\ pending = {} /\ Sound(db) /\ Ahead(db) /\ Counters
      /\ FileIds(db) \subseteq files /\ saved \in Database /\ undo \in Database
      /\ Ahead(saved) /\ Ahead(undo)
  BY DEF Inv, DdlStep, CreateSchema, DropSchema, CreateTable, CreateTableRefused, DropTable,
     CreateIndex, DropIndex, Ddl, Versions, Phases, Removals, Counters, Sound
<1>2. ASSUME NEW n \in SchemaNames, CreateSchema(n) PROVE Inv'
  <2>1. /\ txn' = "ddl" /\ UNCHANGED <<saved, undo, files, nextFid, nextTid, pending>>
        /\ nextSid' = nextSid + 1 /\ nextSid <= MaxIds
    BY <1>2 DEF CreateSchema, Ddl
  <2>2. nextSid' \in 1..MaxIds + 1 /\ nextFid' \in 1..MaxFid + 1 /\ nextTid' \in 1..MaxIds + 1
    BY <1>1, <2>1 DEF Counters
  <2>3. Ahead(saved)' /\ Ahead(undo)'
    BY <1>1, <2>1, <2>2, StillAhead DEF Counters
  <2>4. Sound(db') /\ Ahead(db)' /\ FileIds(db') = FileIds(db)
    BY <1>1, <1>2, CreateSchemaSound
  <2> QED BY <1>1, <2>1, <2>2, <2>3, <2>4, StatementInv
<1>3. ASSUME NEW s \in db.schemas, DropSchema(s) PROVE Inv'
  <2>1. txn' = "ddl" /\ UNCHANGED <<saved, undo, files, nextFid, nextTid, nextSid, pending>>
    BY <1>3 DEF DropSchema, Ddl, ids
  <2>2. Ahead(saved)' /\ Ahead(undo)'
    BY <1>1, <2>1 DEF Ahead
  <2>3. Sound(db') /\ Ahead(db)' /\ FileIds(db') = FileIds(db)
    BY <1>1, <1>3, DropSchemaSound
  <2> QED BY <1>1, <2>1, <2>2, <2>3, StatementInv DEF Counters
<1>4. ASSUME NEW s \in db.schemas, NEW n \in TableNames, CreateTable(s, n) PROVE Inv'
  <2>1. /\ txn' = "ddl" /\ UNCHANGED <<saved, undo, nextSid, pending>>
        /\ nextTid' = nextTid + 1 /\ nextTid <= MaxIds /\ nextFid' = nextFid + 1
        /\ nextFid <= MaxFid /\ files' = files \cup {nextFid}
    BY <1>4 DEF CreateTable, Ddl
  <2>2. nextSid' \in 1..MaxIds + 1 /\ nextFid' \in 1..MaxFid + 1 /\ nextTid' \in 1..MaxIds + 1
    BY <1>1, <2>1 DEF Counters
  <2>3. Ahead(saved)' /\ Ahead(undo)'
    BY <1>1, <2>1, <2>2, StillAhead DEF Counters
  <2>4. Sound(db') /\ Ahead(db)' /\ FileIds(db') = FileIds(db) \cup {nextFid}
    BY <1>1, <1>4, CreateTableSound
  <2> QED BY <1>1, <2>1, <2>2, <2>3, <2>4, StatementInv
<1>5. ASSUME NEW s \in db.schemas, NEW n \in TableNames, CreateTableRefused(s, n) PROVE Inv'
  <2>1. /\ txn' = "failed" /\ UNCHANGED <<db, saved, undo, files, nextFid, nextSid, pending>>
        /\ nextTid' = nextTid + 1 /\ nextTid <= MaxIds
    BY <1>5 DEF CreateTableRefused
  <2>2. nextSid' \in 1..MaxIds + 1 /\ nextFid' \in 1..MaxFid + 1 /\ nextTid' \in 1..MaxIds + 1
    BY <1>1, <2>1 DEF Counters
  <2>3. Ahead(db)' /\ Ahead(saved)' /\ Ahead(undo)'
    BY <1>1, <2>1, <2>2, StillAhead DEF Counters, Sound
  <2>4. Versions' /\ Phases' /\ Removals'
    BY <1>1, <2>1 DEF Inv, Versions, Phases, Removals
  <2> QED BY <2>2, <2>3, <2>4 DEF Inv, Counters
<1>6. ASSUME NEW t \in db.tables, DropTable(t) PROVE Inv'
  <2>1. txn' = "ddl" /\ UNCHANGED <<saved, undo, files, nextFid, nextTid, nextSid>>
    BY <1>6 DEF DropTable, Ddl, ids
  <2>2. Ahead(saved)' /\ Ahead(undo)'
    BY <1>1, <2>1 DEF Ahead
  <2>3. /\ Sound(db') /\ Ahead(db)' /\ FileIds(db') \subseteq FileIds(db)
        /\ FileIds(db') \cap (pending' \ pending) = {}
    BY <1>1, <1>6, DropTableSound
  <2> QED BY <1>1, <2>1, <2>2, <2>3, StatementInv DEF Counters
<1>7. ASSUME NEW t \in db.tables, NEW n \in IndexNames, CreateIndex(t, n) PROVE Inv'
  <2>1. /\ txn' = "ddl" /\ UNCHANGED <<saved, undo, nextTid, nextSid, pending>>
        /\ nextFid' = nextFid + 1 /\ nextFid <= MaxFid /\ files' = files \cup {nextFid}
    BY <1>7 DEF CreateIndex, Ddl
  <2>2. nextSid' \in 1..MaxIds + 1 /\ nextFid' \in 1..MaxFid + 1 /\ nextTid' \in 1..MaxIds + 1
    BY <1>1, <2>1 DEF Counters
  <2>3. Ahead(saved)' /\ Ahead(undo)'
    BY <1>1, <2>1, <2>2, StillAhead DEF Counters
  <2>4. Sound(db') /\ Ahead(db)' /\ FileIds(db') = FileIds(db) \cup {nextFid}
    BY <1>1, <1>7, CreateIndexSound
  <2> QED BY <1>1, <2>1, <2>2, <2>3, <2>4, StatementInv
<1>8. ASSUME NEW i \in db.indexes, DropIndex(i) PROVE Inv'
  <2>1. txn' = "ddl" /\ UNCHANGED <<saved, undo, files, nextFid, nextTid, nextSid>>
    BY <1>8 DEF DropIndex, Ddl, ids
  <2>2. Ahead(saved)' /\ Ahead(undo)'
    BY <1>1, <2>1 DEF Ahead
  <2>3. /\ Sound(db') /\ Ahead(db)' /\ FileIds(db') \subseteq FileIds(db)
        /\ FileIds(db') \cap (pending' \ pending) = {}
    BY <1>1, <1>8, DropIndexSound
  <2> QED BY <1>1, <2>1, <2>2, <2>3, StatementInv DEF Counters
<1> QED BY <1>2, <1>3, <1>4, <1>5, <1>6, <1>7, <1>8 DEF DdlStep

\* DML statements, row by row.
LEMMA DmlInv == ASSUME Inv, DmlStep PROVE Inv'
<1>1. PICK t \in db.tables :
        \/ \E v \in Vals : Insert(t, v)
        \/ \E r \in DOMAIN db.heap[t.fid] : DeleteByRef(t, r)
        \/ \E r \in DOMAIN db.heap[t.fid], v \in Vals : UpdateRow(t, r, v)
        \/ DeleteAll(t)
  BY DEF DmlStep
<1> DEFINE slots == db.heap[t.fid]
<1>2. /\ txn \in {"begun", "dml"} /\ txn' = "dml" /\ UNCHANGED ids
      /\ UNCHANGED <<saved, undo, files, nextFid, nextTid, nextSid, pending>>
  BY <1>1 DEF Insert, DeleteByRef, UpdateRow, DeleteAll, Dml, ids
<1>3. /\ pending = {} /\ Sound(db) /\ Ahead(db) /\ Counters /\ FileIds(db) \subseteq files
      /\ Ahead(saved) /\ Ahead(undo)
  BY <1>2 DEF Inv, Versions, Phases, Removals, Counters
<1>4. slots \in Seq(Slot)
  BY <1>3 DEF Sound, Database, TableRow
<1>5. Sound(db') /\ Ahead(db)' /\ FileIds(db') = FileIds(db)
  <2>1. ASSUME NEW v \in Vals, Insert(t, v)
        PROVE  Sound(db') /\ Ahead(db)' /\ FileIds(db') = FileIds(db)
    <3>1. Buried(slots, slots)
      BY <1>4 DEF Buried
    <3>2. db' = [db EXCEPT !.heap[t.fid] = Append(slots, [val |-> v, live |-> TRUE]),
                           !.tree = WithEntries(db, t, v, Len(slots) + 1)]
      BY <2>1 DEF Insert, Dml
    <3> QED BY <1>2, <1>3, <3>1, <3>2, AppendSound
  <2>2. ASSUME NEW r \in DOMAIN slots, DeleteByRef(t, r)
        PROVE  Sound(db') /\ Ahead(db)' /\ FileIds(db') = FileIds(db)
    <3>1. Buried(slots, [slots EXCEPT ![r].live = FALSE])
      BY <1>4, TombstoneBuried
    <3>2. db' = [db EXCEPT !.heap[t.fid] = [slots EXCEPT ![r].live = FALSE]]
      BY <2>2 DEF DeleteByRef, Dml
    <3> QED BY <1>2, <1>3, <3>1, <3>2, BurySound
  <2>3. ASSUME NEW r \in DOMAIN slots, NEW v \in Vals, UpdateRow(t, r, v)
        PROVE  Sound(db') /\ Ahead(db)' /\ FileIds(db') = FileIds(db)
    <3>1. Buried(slots, [slots EXCEPT ![r].live = FALSE])
      BY <1>4, TombstoneBuried
    <3>2. db' = [db EXCEPT !.heap[t.fid] = Append([slots EXCEPT ![r].live = FALSE],
                                                  [val |-> v, live |-> TRUE]),
                           !.tree = WithEntries(db, t, v, Len(slots) + 1)]
      BY <2>3 DEF UpdateRow, Dml
    <3> QED BY <1>2, <1>3, <3>1, <3>2, AppendSound
  <2>4. ASSUME DeleteAll(t)
        PROVE  Sound(db') /\ Ahead(db)' /\ FileIds(db') = FileIds(db)
    <3> DEFINE later == [r \in DOMAIN slots |-> [slots[r] EXCEPT !.live = FALSE]]
    <3>1. \A r \in DOMAIN slots : later[r] \in Slot /\ later[r].val = slots[r].val /\ later[r].live = FALSE
      BY <1>4, TombstoneSlot
    <3>2. db' = [db EXCEPT !.heap[t.fid] = later]
      BY <2>4 DEF DeleteAll, Dml
    <3>3. DOMAIN later = 1..Len(slots) /\ Len(slots) \in Nat
      BY <1>4
    <3> HIDE DEF later
    <3>4. later \in Seq(Slot)
      <4>1. later = [r \in 1..Len(slots) |-> later[r]]
        BY <3>3 DEF later
      <4>2. \A r \in 1..Len(slots) : later[r] \in Slot
        BY <1>4, <3>1
      <4> HIDE DEF slots
      <4>3. later \in [1..Len(slots) -> Slot]
        BY <4>1, <4>2, Zenon
      <4> QED BY <3>3, <4>3
    <3>5. Buried(slots, later)
      BY <1>4, <3>1, <3>3, <3>4 DEF Buried
    <3> QED BY <1>2, <1>3, <3>2, <3>5, BurySound
  <2> QED BY <1>1, <2>1, <2>2, <2>3, <2>4
<1>6. Ahead(saved)' /\ Ahead(undo)'
  BY <1>2, <1>3 DEF Ahead
<1> QED BY <1>2, <1>3, <1>5, <1>6, StatementInv DEF Counters

\* A crash without residue brings the committed version back.
LEMMA MixesOfOne ==
  ASSUME NEW d \in Database, NEW x \in Mixes({d})
  PROVE  x = d
<1>1. PICK h \in [Fids -> {d}], e \in [Fids -> {d}] :
        x = [schemas |-> d.schemas, tables |-> d.tables, columns |-> d.columns, indexes |-> d.indexes,
             heap |-> [f \in Fids |-> h[f].heap[f]], tree |-> [f \in Fids |-> e[f].tree[f]]]
  BY DEF Mixes
<1>2. [f \in Fids |-> h[f].heap[f]] = [f \in Fids |-> d.heap[f]] /\ [f \in Fids |-> e[f].tree[f]] = [f \in Fids |-> d.tree[f]]
  OBVIOUS
<1>3. d.heap = [f \in Fids |-> d.heap[f]] /\ d.tree = [f \in Fids |-> d.tree[f]]
  BY DEF Database
<1>4. d = [schemas |-> d.schemas, tables |-> d.tables, columns |-> d.columns, indexes |-> d.indexes,
           heap |-> d.heap, tree |-> d.tree]
  BY DEF Database
<1> QED BY <1>1, <1>2, <1>3, <1>4

\* BEGIN, COMMIT, ROLLBACK, the removals after a commit, eviction, crash and
\* restart.
LEMMA TxnInv ==
  ASSUME Inv, ~spoilt',
         BeginTxn \/ CommitTxn \/ UnlinkNext \/ CommitRaises \/ RollbackTxn \/ Crash \/ Open \/ Steal \/ WriteRestored
  PROVE  Inv'
<1> USE DEF Inv
<1>1. CASE BeginTxn
  <2>1. Versions' /\ Phases' /\ Removals'
    BY <1>1 DEF BeginTxn, Versions, Phases, Removals
  <2>2. Counters'
    BY <1>1 DEF BeginTxn, Counters, Ahead, ids
  <2> QED BY <2>1, <2>2
<1>2. CASE CommitTxn
  <2>1. Versions' /\ Phases' /\ Removals'
    BY <1>2 DEF CommitTxn, Versions, Phases, Removals
  <2>2. Counters'
    BY <1>2 DEF CommitTxn, Counters, Ahead, ids
  <2> QED BY <2>1, <2>2
<1>3. CASE UnlinkNext
  <2>1. PICK f \in pending :
          /\ files' = files \ {f} /\ pending' = pending \ {f}
          /\ IF pending = {f} THEN txn' = "none" /\ undo' = db ELSE txn' = txn /\ undo' = undo
    BY <1>3 DEF UnlinkNext
  <2>2. txn = "unlinking" /\ UNCHANGED <<db, saved, nextFid, nextTid, nextSid>>
    BY <1>3 DEF UnlinkNext, ids
  <2>3. Versions' /\ Phases'
    BY <2>1, <2>2 DEF Versions, Phases
  <2>4. Removals'
    BY <2>1, <2>2 DEF Phases, Removals
  <2>5. Counters'
    BY <2>1, <2>2 DEF Counters, Ahead
  <2> QED BY <2>3, <2>4, <2>5
<1>4. CASE CommitRaises
  <2>1. Versions' /\ Phases' /\ Removals'
    BY <1>4 DEF CommitRaises, Versions, Phases, Removals
  <2>2. Counters'
    BY <1>4 DEF CommitRaises, Counters, Ahead, ids
  <2> QED BY <2>1, <2>2
<1>5. CASE RollbackTxn
  <2>1. Versions' /\ Phases' /\ Removals'
    BY <1>5 DEF RollbackTxn, Versions, Phases, Removals
  <2>2. Counters'
    BY <1>5 DEF RollbackTxn, Counters, Ahead, ids
  <2> QED BY <2>1, <2>2
<1>6. CASE Crash
  <2>0. db' = saved /\ undo' = saved /\ saved' = saved
    <3>1. residue = {} /\ {saved} \cup residue = {saved}
      BY <1>6 DEF Crash
    <3>2. db' \in Mixes({saved}) /\ undo' = db' /\ saved' = db'
      BY <1>6, <3>1 DEF Crash
    <3>3. saved \in Database
      BY DEF Versions, Sound
    <3> QED BY <3>2, <3>3, MixesOfOne
  <2>1. Versions' /\ Phases' /\ Removals'
    BY <1>6, <2>0 DEF Crash, Versions, Phases, Removals
  <2>2. Counters'
    BY <1>6 DEF Crash, Counters, ids
  <2> QED BY <2>1, <2>2
<1>7. CASE Open
  <2>1. Versions' /\ Phases' /\ Removals'
    BY <1>7 DEF Open, Versions, Phases, Removals
  <2>2. Ahead(db)' /\ db' = db /\ saved' = saved /\ undo' = undo /\ db = saved /\ undo = saved
    <3>1. /\ \A u \in FileIds(db) : u < nextFid'
          /\ \A u \in {t.tid : t \in db.tables} : u < nextTid'
          /\ \A u \in {s.sid : s \in db.schemas} : u < nextSid'
      BY <1>7 DEF Open, After, AfterFiles
    <3>2. db' = db /\ saved' = saved /\ undo' = undo /\ db = saved /\ undo = saved
      BY <1>7 DEF Open, Phases
    <3> QED BY <3>1, <3>2 DEF Ahead, FileIds
  <2>3. Counters'
    BY <1>7, <2>2 DEF Open, Counters, Ahead
  <2> QED BY <2>1, <2>3
<1>8. CASE Steal \/ WriteRestored
  <2>1. UNCHANGED <<db, saved, undo, files, nextFid, nextTid, nextSid, txn, pending>>
    BY <1>8 DEF Steal, WriteRestored, ids
  <2> QED BY <2>1 DEF Versions, Phases, Removals, Counters, Ahead
<1> QED BY <1>1, <1>2, <1>3, <1>4, <1>5, <1>6, <1>7, <1>8

\* What a restart has taken for the database's stays in it.
LEMMA StaysSpoilt == ASSUME spoilt, [Next]_vars PROVE spoilt'
<1>1. DdlStep => spoilt' = spoilt
  BY DEF DdlStep, CreateSchema, DropSchema, CreateTable, CreateTableRefused, DropTable, CreateIndex,
         DropIndex, Ddl, pool
<1>2. DmlStep => spoilt' = spoilt
  BY DEF DmlStep, Insert, DeleteByRef, UpdateRow, DeleteAll, Dml, pool
<1>3. BeginTxn \/ CommitTxn \/ UnlinkNext \/ CommitRaises \/ RollbackTxn \/ Open \/ Steal \/ WriteRestored
        => spoilt' = spoilt
  BY DEF BeginTxn, CommitTxn, UnlinkNext, CommitRaises, RollbackTxn, Open, Steal, WriteRestored, pool
<1>4. Crash => spoilt'
  BY DEF Crash
<1>5. UNCHANGED vars => spoilt' = spoilt
  BY DEF vars, pool
<1> QED BY <1>1, <1>2, <1>3, <1>4, <1>5 DEF Next

\* The catalog's invariant, for every sequence of transactions, errors, evictions,
\* crashes and restarts, until a restart finds bytes of a rolled-back
\* transaction.
THEOREM CatalogInvariant == Spec => [](spoilt \/ Inv)
<1>1. (spoilt \/ Inv) /\ [Next]_vars => (spoilt \/ Inv)'
  <2>0. spoilt /\ [Next]_vars => spoilt'
    BY StaysSpoilt
  <2> SUFFICES ASSUME Inv, [Next]_vars, ~spoilt' PROVE Inv'
    BY <2>0
  <2>1. CASE UNCHANGED vars
    BY <2>1 DEF vars, Inv, Versions, Phases, Removals, Counters, Ahead
  <2>2. CASE Next
    BY <2>2, TxnInv, DdlInv, DmlInv DEF Next
  <2> QED BY <2>1, <2>2
<1> QED BY <1>1, InitInv, PTL DEF Spec

\* Metadata rows name files that are there and their own, after any crash, and
\* for readers unless a removal failed behind a Commit record, in a database that
\* is not spoilt.
THEOREM MetaFilesHold == Spec => []MetaFilesValid
<1>1. spoilt \/ Inv => MetaFilesValid
  BY DEF Inv, Versions, Removals, Sound, OwnFiles, MetaFilesValid, FilesValid
<1> QED BY <1>1, CatalogInvariant, PTL

\* Names and ids resolve in what readers see and in what a restart brings back,
\* in a database that is not spoilt.
THEOREM NamesHold == Spec => []NamesResolve
<1>1. spoilt \/ Inv => NamesResolve
  BY DEF Inv, Versions, Sound, NamesResolve
<1> QED BY <1>1, CatalogInvariant, PTL

\* A query through an index finds exactly the live rows a scan finds, in a
\* database that is not spoilt.
THEOREM IndexHolds == Spec => []IndexAgrees
<1>1. spoilt \/ Inv => IndexAgrees
  <2> SUFFICES ASSUME Inv, NEW t \in db.tables, NEW i \in IndexesOf(db, t), NEW v \in Vals
               PROVE  {e.ref : e \in {x \in db.tree[i.fid] : x.key = v /\ db.heap[t.fid][x.ref].live}}
                        = {r \in DOMAIN db.heap[t.fid] :
                             db.heap[t.fid][r].live /\ db.heap[t.fid][r].val = v}
    BY DEF IndexAgrees
  <2> DEFINE slots == db.heap[t.fid]
             entries == db.tree[i.fid]
             found == {e.ref : e \in {x \in entries : x.key = v /\ slots[x.ref].live}}
             live == {r \in DOMAIN slots : slots[r].live /\ slots[r].val = v}
  <2>1. Covers(entries, slots)
    BY DEF Inv, Versions, Sound, Indexed, IndexesOf
  <2> HIDE DEF slots, entries
  <2>2. ASSUME NEW r \in found PROVE r \in live
    BY <2>1, <2>2 DEF Covers
  <2>3. ASSUME NEW r \in live PROVE r \in found
    <3>1. [key |-> v, ref |-> r] \in entries
      BY <2>1, <2>3 DEF Covers
    <3> QED BY <2>3, <3>1
  <2>4. found = live
    <3> HIDE DEF found, live
    <3> QED BY <2>2, <2>3
  <2> QED BY <2>4 DEF slots, entries
<1> QED BY <1>1, CatalogInvariant, PTL

=============================================================================
