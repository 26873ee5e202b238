# Specifications of my_simple_db

TLA+ models of the database server in this repository, TLC configurations that
check them on small instances, and TLAPS proofs of the results that matter most.
Paths below are relative to `src/src/` unless they start with `docs/` or `test/`.

## 1. The system

A client sends SQL over TCP. The server runs one thread per connection; each
statement goes through parser, analyzer, planner and executor, which work on the
catalog, and the catalog on the storage engine. One recursive mutex in the
catalog is held for the length of a transaction.

| Component | State | Operations | What makes it correct |
|---|---|---|---|
| storage engine, buffer pool, log, recovery (`storage/engine,buffer_pool,wal,recovery,file_manager`) | data files, frames, `wal.log`, the open transaction's undo list and pending drops | read, allocate, mark_dirty (page diff to the log), begin, commit, rollback, create and remove files, evict, checkpoint, recover | what committed survives any crash, what did not leaves nothing; log before data; a checkpoint loses nothing |
| heap files (`storage/engine,page`) | page chain, slots, tail cache, rowid counter | insert, delete, scan, read by place | scans see every row once; places and rowids are not reused while something refers to them |
| B+ tree (`storage/btree`) | pages of one index file, `root_page`, `next_page_hint` | insert with splits, open, range scan | range scans are exact and ordered; new pages are new |
| index keys (`storage/btree`, `planner/index_select`) | none | `encode_key`, `key_of` | key order is value order; a probe key separates what the comparison separates |
| values and rows (`storage/cast`, `storage/codec`, `expr/`) | none | arithmetic, comparison, rounding, casts, assignment; rows to bytes and back | exact results, the rounding promised, or an error; what is stored is read back |
| catalog (`catalog/`) | metadata tables, id counters | DDL, DML with index maintenance, transactions | metadata and files agree; index and heap agree |
| analyzer, planner, executor, evaluator (`analyzer/`, `planner/`, `executor/`, `expr/`) | a plan | bind, fold, simplify, prune, select an index, run | derived types are the values' types; the plan returns what the predicate says |
| sessions (`server/session`) | `in_txn`, `txn_started`, the lock, the list of clients | statements, BEGIN/COMMIT/ROLLBACK, errors, leaving | flags and lock agree; no session is lost |
| main thread (`server/server`, `server/net`) | `server_running`, poll loop | accept, stop, shutdown, close | the engine closes alone; a stop stops |
| protocol and client (`proto/`, `client/`) | frames under way | query, result set, notice, error | answers are complete and belong to their statement |
| logger (`log/`, `common/err`) | queue, writer thread | log, stop and join, exit, abort | no line lost, doubled or overtaken; exit drains |
| initdb, serverctl, start-up (`tool/`, `server/server`, `server/net`, `utils/`) | the data directory, pid file and its lock, control socket, the processes | initialise and roll back, start (fork, handshake), stop | one server a directory; success means a complete database; nothing complete is cleared; the tools return |
| parser, configuration, rendering | - | - | not modelled, see section 7 |

How they interact: sessions call the catalog inside the lock, except that the
rows of an autocommit SELECT are pulled after it is released; the catalog calls
the engine; heap, tree and metadata share one buffer pool and one log; every
thread logs; initdb, serverctl and servers meet only in the data directory, through a
locked pid file and a control socket. What is hard: crashes between any two writes, rollback after
eviction, state kept in memory that a rollback does not restore, streaming
outside the lock, shutdown and restart, processes killed at any step, three-valued
logic in rewrites, derived types, and numeric edges.
`PROJECT.json` lists these hazards at their lines.

## 2. Modules

| Module | Models | Correspondence |
|---|---|---|
| `WalEngine` | transactions over the log | a cell is an 8-byte word of a page (the grain of `log_page_diff`); `wal` the records; `mode` the operation in progress where a crash may cut it |
| `WalInvariant` | - | the inductive invariant of `WalEngine`, and the part of it (`CoreInv`) that power loss keeps |
| `TxnStore` | what the engine promises | committed contents, the open transaction's work, what a crash may leave; no log, pool or file |
| `WalRefines` | - | the refinement mapping from `WalEngine` to `TxnStore` |
| `WalPower` | the same under power loss | `synced` the durable prefix of the log, `maybe` the values a word may have on the platter |
| `HeapFile` | one table file | page chain, `frame`/`disk`, the tail cache, rowids; `stolen` and `residue`: pages of the open and of rolled-back transactions in the file |
| `BTree` | one index file and its `BTree` object | recursive insert with splits; `scan` is the cursor of an autocommit SELECT, one action per turn of the loop in `next`; a scan inside the lock is the same operator run to its end on one state |
| `Numeric` | decimals and integers | each operator is one function of the code, with its error conditions |
| `Conversion` | the cast table, CAST, assignment; floating arithmetic | tiers, conversions and the checks after them; IEEE rounding to nearest even over small formats |
| `RowCodec` | rows as bytes | `encode_row`, `decode_row` with small bytes and widths |
| `KeyCodec` | key encoding, probe keys | IEEE formats with few bits, subnormals and both zeros kept |
| `ValueUnit` | an evaluator, a column with an index, or a table row, that applies these | one operation a behaviour, its result next to its operands |
| `Expr` | bound expressions and `eval_bound` | one constructor per node of `bound_expr.h`; errors of the user and internal ones told apart |
| `Analyzer` | typing of clauses | `bind_expr` from parse tree to bound tree with its type, or a refusal |
| `Planner` | from WHERE clause to rows | `Bind`, then one action per pass of `optimize`; the plan is access path, ranges and filter |
| `Catalog` | metadata, files, ids, rows, indexes | `db` what readers see, `saved` what a crash brings back, `undo` what a rollback does |
| `Session` | threads, lock, main thread | statements are atomic inside the lock, streaming is not |
| `Lifecycle` | initdb, serverctl and servers around one directory | one action per system call that others can see; `pc`, `ini` and `ctl` are the places in server, initdb and serverctl; a lock belongs to an inode |
| `Wire` | one client and its session | frames in order; batches encoded into bytes where the length field matters |
| `Logger` | queue, writer thread, exit | the mutex and the condition variable are explicit |
| `*_proofs` | - | theorems |
| `MC*` | - | constants for TLC |

`KeyCodec` extends `Numeric`, `Conversion` extends `KeyCodec`, `Expr` and
`RowCodec` extend `Conversion`, `Analyzer` extends `Expr`, `Planner` extends
`Analyzer`, `ValueUnit` extends `RowCodec`; `WalPower` and `WalInvariant` extend
`WalEngine`, `WalRefines` extends `WalInvariant` and instantiates `TxnStore`. `HeapFile`, `BTree` and `Catalog` take from
`WalEngine` what it establishes, so that they can spend their states on their own
structures: a rollback restores what readers see, and a crash leaves the committed
contents except where bytes of a rolled-back transaction are in the files
(`RecoveryExact`; they get there when the pool evicts a page of the open transaction,
reads it again and the rollback then restores the frame only). These three modules
have such bytes by page or file, where the engine has them by word: `stolen` is what
eviction has written of the open transaction, `residue` what rollbacks left behind,
and a restart may keep any part of the residue. From then on the structure is
`spoilt`, and the properties say nothing of it; what can happen is in section 3,
"Properties the code does not have". Definitions whose comment or name calls them faulty are variants of
the definition that follows, kept to show that the properties notice such bugs.

Abstractions worth knowing: values are few and small; texts are lengths; log
sequence numbers are positions; checksums are "the record is whole". In
`Session` an empty statement and a SET outside a transaction leave no trace, and
BEGIN in bootstrap mode (refused) is left out. In `Wire` a client that vanishes
in the middle of a statement is left to `Session`. Messages other threads queue
after the logger's writer has ended are never written; `Drained` therefore
speaks of what was queued before the destructor began. In `WalEngine` a table file
is created only where readers see none of its bytes: an id handed out again whose
file still has bytes (`create_table_file` truncates to one page, it does not clear
it, `storage/file_manager.cpp:78`) is left out.

## 3. Runs

Passing runs (distinct states, two workers):

| Run | States | Bounds | Shows |
|---|---|---|---|
| `WalEngine` | 1.3 M | 1 file of 2 pages, two words on the data page, 2 values, 1 frame, 2 transactions, 4 records in the log | `WriteAhead`, `RecoveryExact`, `CheckpointLosesNothing`, `NeverStuck`, the refinement `Implements`, and `IInv` |
| `WalPower` | 3.3 M | 1 word a page, 3 values, 2 transactions, 4 records | `AcknowledgedSurvives` |
| `HeapFile` | 710,311 | pages 0-2, 4 rows, 2 slots a page; any page evicted at any time | `ScanExact`, `RowidsUnique`, `RowPlacesStable` |
| `BTree` | 1.8 M | 2 key values and NULL x 2 places, capacity 2, 5 entries, pages to 8; a cursor over one range, open below and closed above, in trees of at most 4 entries; one page of an open or rolled-back transaction in the file, in trees of at most 3 entries (1 with a cursor) | `RangeScanExact` (for every pair of bounds), `NewPageFresh`, `StaleRootDetected`, `CursorMissesNothing` |
| `ValueUnit` | 546,286 | integers of 3 and 5 bits, floats of 4 and 5 bits, decimals below 100 with scales to 3; bytes of 2 bits, records to 14 bytes | `ArithExact` and `RoundingExact` against exact arithmetic; `KeyOrder`, `ProbeAgrees`; `StoredReadBack` |
| `Planner` | 60,294 | clauses over eight columns of all types, four indexes, rows with NULLs and extreme values | `PlanSound`, `FoldErrorsReal`, `TypesHold` |
| `Catalog` | 953,632 | 1 schema name, 2 table names, 1 index name, 3 file ids, 2 table and schema ids, 2 values, 2 slots; one version of the database with pages of an open or rolled-back transaction in the files, with at most 2 files and 1 slot | `MetaFilesValid`, `NamesResolve`, `IndexAgrees` |
| `Session` | 545,794 | 3 clients, 2 descriptors, at most 2 clients at a time | `LockMatchesSessions`, `OwnEntry`, `CloseAlone`, `ShutdownDrains` |
| `Lifecycle` | 611,240 | 1 initdb and 2 server processes at a time (any number one after the other), 3 inodes | `SoleServer`, `RollBackAlone`, `DataKept`, `InitComplete`, `ToolsReturn` |
| `Logger` | 406,470 | 2 threads, 3 levels, 3 messages | `InOrder`, `Drained`, `QueueEmpties` |
| `Wire` | 118,692 | 2 statements, 3 rows of one column, batches of 2, length field of 3 values | `RowsExact`, `InStep`, `Answered` |

Why the bounds are enough to be interesting: one frame makes every second page
access an eviction; two transactions allow a rolled-back one before or after a
committed or an open one in the same log (the theorems cover any number), and two
words on a page a patch that covers part of another; a node
capacity of 2 gives three-level trees with five entries; three file ids let a
table, its index and another table be there at once, and an id be dropped and
handed out again after a restart; three rows and batches of two give a full and
a partial batch; two servers let one start while another, orphaned by a killed initdb,
told to stop or just ending, still holds a socket or an unlinked pid file; three
columns need two bytes of NULL bitmap when a byte has two bits; three clients with two places and two descriptors give refusal
and descriptor reuse. All bounds are CONSTANTS that appear in guards, never in
properties other than type invariants. In addition `HeapFile`, `BTree` and `Catalog`
have a CONSTRAINT: a spoilt structure, of which no property speaks, is not followed
further, and `Catalog` follows residue only in small databases.

`CHECK_DEADLOCK FALSE` appears where the system may stop: a server or a logger
whose process has ended, a client that has quit or sent its last statement, an evaluation that
has its result, a directory whose processes have all ended and whose last initdb
succeeded.

One run is expected to find a violation, a disagreement between the code and its
comments and documents, quoted in `PROJECT.json`:

| Run | Property | What happens |
|---|---|---|
| `HeapTail` | `CommittedRowsScanned` | a transaction appends a page, which is evicted and read again, and rolls back; the next one derives the tail from the file, inserts behind that page, off the chain, and commits: no scan returns its row |

### Properties the code does not have

The modules state some more properties that comments or documents promise and
that TLC refutes. They have no run of their own; to see a counterexample, replace
the properties of the configuration named here.

| Property | Configuration | What happens |
|---|---|---|
| `RecoveredIsCommitted` (`WalEngine`) | `WalEngine.cfg` | a rolled-back change that an eviction had written survives a crash: rollback restores the frame only and recovery skips aborted transactions (`storage/buffer_pool.cpp:216`, against `storage/recovery.cpp:5,14`); `RecoveryExact` and `TxnStore` except exactly these words |
| `NoResidueAfterPowerLoss` (`WalPower`) | `WalPower.cfg` | a page may become durable before the record that could undo it: `write_back` does not sync the log (`storage/buffer_pool.cpp:42`), and acknowledged data on the page are lost; `AcknowledgedSurvives` excepts exactly these words |
| `ScanExact` (`HeapFile`), `RangeScanExact`, `NewPageFresh` (`BTree`), `IndexAgrees` (`Catalog`), each without `~spoilt` and its configuration without the CONSTRAINT | `HeapFile.cfg`, `BTree.cfg`, `Catalog.cfg` | after a restart, bytes of a rolled-back transaction that eviction wrote (`RecoveredIsCommitted`) are the table's or the index's: a rolled-back row is scanned, an index entry comes back or names a slot that does not exist, a page of an undone split is named although it is free |
| `CursorAboveLowerBound` (`BTree`) | `BTree.cfg` | a cursor that has passed its open lower bound returns the bound's key when inserts into its leaf shift an entry of that key to the slot it stands on (`storage/btree.cpp:558`) |
| `NoDirtyRead` (`Session`) | `Session.cfg` | autocommit SELECTs send uncommitted rows (`server/session.cpp:437`, against `docs/storage-design.md:240`) |
| `ErrorEndsTxn` (`Session`) | `Session.cfg` | an error while a result is streamed leaves the transaction open (`server/session.cpp:554`, against `:414`) |
| `ExitAfterNotify` (`Session`) | `Session.cfg` | main ends before a session's last access to globals (`server/session.cpp:458`) |
| `SignalStops` (`Session`) | `Session.cfg` | a stop signal just before poll is lost (`server/server.cpp:307`, against `:34`) |
| `CoerceAwayFromZero` (`ValueUnit`) | `ValueUnit.cfg` | -0.9 is rounded to 1 (`storage/cast.cpp:581`, against `:569`) |
| `BoolExact` (`ValueUnit`) | `ValueUnit.cfg` | `CAST(-1.0 AS boolean)` is TRUE: `dec_to_bool` looks at the magnitude (`storage/cast.cpp:311`) |
| `SmallestBigintConverts` (`ValueUnit`) | `ValueUnit.cfg` | `CAST(-9223372036854775808.0 AS bigint)` is refused: `dec_round_i64` tests the magnitude (`storage/cast.cpp:215`, against `:202`) |
| `PlanSound` | `Planner.cfg` with `Clauses <- MCCastClauses` | casts that differ in scale only count as equal (`planner/bool_simplify.cpp:102`) |
| `VisibleFilesValid` (`Catalog`) | `Catalog.cfg` | a failing unlink rolls back a durable commit, whose files are gone (`catalog/catalog.cpp:137`); a restart repairs it, which `MetaFilesValid` says |
| `SingleInstance` (`Lifecycle`) | `Lifecycle.cfg` | the pid file is unlinked before the engine is closed, so a new server locks a new file and opens the engine next to it (`server/server.cpp:375`, against `:384`) |
| `MarkerMeansComplete` (`Lifecycle`) | `Lifecycle.cfg` | the client goes on after a failed statement and the last one makes the marker; initdb notices, a server started meanwhile does not (`catalog/catalog.cpp:59`) |
| `RollBackUndisturbed` (`Lifecycle`) | `Lifecycle.cfg` | a server started while initdb runs has the files open that a failing initdb removes |
| `DataKept` (`Lifecycle`) | `Lifecycle.cfg` with `Inits = {i1, i2}` | two initdbs see the directory empty; the one that fails clears what the other completed (`tool/initdb/initdb.cpp:77`) |
| `ExitEnds` (`Logger`) | `Logger.cfg` | a lost wake-up lets the destructor join for ever (`log/log.cpp:113`) |
| `StartReturns` (`Lifecycle`) | `Lifecycle.cfg` | the server hangs at its exit in that join; `waitpid` in serverctl, or the parent's read of the pipe after an 'F', has no deadline (`tool/serverctl/serverctl.cpp:57`, `server/server.cpp:78`, against `server/server.cpp:53`) |
| `InStep` | `Wire.cfg` with `CellValues <- OneLong` | an over-long text leaves frames for the next statement (`proto/proto.h:188`) |

## 4. Fairness

Only liveness properties need any; the safety theorems are about the
specifications without it. `WalEngine`: an operation that has begun and
recovery go on (they run in one thread that nothing blocks), and a dead process
is started again. `Session`: threads are scheduled, and a session whose socket
was shut down sees its reads fail; nothing is assumed of clients, signals or new
connections. `Logger`: the writer and threads inside `log` or the destructor are
scheduled; nobody has to log or leave, and spurious wake-ups are not counted on.
`Lifecycle`: a running process takes its next step unless it is killed or hangs at
its exit, in the destructor of its Logger (`Hang`; the model lets every server that
has logged do so). Waits with a deadline end, `waitpid` in serverctl and the parent's
read of the pipe only with the process they wait for, and the lock is not waited for;
nobody has to start, stop, kill or hang. `ToolsReturn` is about the verdict: initdb's
own exit afterwards is the Logger's.
`Wire`: accept answers, the session works off its statement, the client reads
what has come; no one has to send, quit or cut the line. Weak fairness is enough
everywhere: no step waits for a condition that comes and goes, except for the
lock, and there the holder's own steps are fair.

## 5. Proofs

All theorems hold for every value of the constants, under the assumptions named
in the modules (types of the constants; at least one frame; a leaf has room for an
entry and an inner page for two separators; cursors are opened on pairs of bounds;
`Zero` is a value) and, where the list says so, a hypothesis in the theorem itself.

- `WalEngine_proofs`, on the engine: `TypeCorrect`; `InvariantHolds`, from it `QuiescentViewHolds`,
  `WriteAheadHolds`, `RecoveryExactHolds` and the action property
  `CheckpointSafe`. `RecoveryExact` alone says nothing while the process runs,
  so `IInv` states for each word which record decides its fate: the first patch
  of the transaction in flight (its before image is the committed content), else
  the last record of a committed transaction (its after image is), else the file
  itself. `ViewInv` relates what readers see to the undo list in the same way,
  `FrameInv` ties clean frames to files, `TxnInv` says that at most one
  transaction is in flight and that its records end the log (otherwise undoing
  it would overwrite later commits), `PendingInv` that a dropped file is not
  written again before the commit, `RedoInv` and `UndoInv` how far an
  interrupted recovery has got; `FileInv` is about words without a record. "First" and "last" are stated with witnesses, so
  that a step that appends a record only names the new one.
- `WalEngine_proofs`, on the refinement: `EngineImplements`, that `WalEngine` implements `TxnStore`.
  The store has the committed contents, the contents the open transaction sees, and
  two sets: words the open transaction touched and words a crash may leave with an
  aborted value. The mapping reads them off the log: touched is what recovery would
  undo, tainted what neither pass of recovery would write although an aborted
  transaction did. A commit takes effect with its Commit record, a rollback with its
  Abort record; evictions, flushes, unlinks and every step of recovery are stutters.
  `SameLog` and `SameVisible` carry the stutters, `LoggedWrite` and `LoggedEnd` say
  what a record at the end of the log changes; `IInv` supplies that what is seen and
  what the log says agree.
- `WalEngine_proofs`, on `WalPower`: `PowerInvariant`, `AcknowledgedHolds`. A power cut leaves any value
  in words without a durable record, so `FileInv` is lost; the rest of `IInv`
  (`CoreInv`, for which the step is proved on its own) is kept, because every prefix of
  the log that a cut may leave says the same as the whole: it has all Commit records
  (`SyncInv`) and, before them, the records of their transactions (`OrderInv`). The
  difficult case is a rollback whose Abort record is cut off: recovery undoes that
  transaction a second time, which is right only since nothing was committed after it
  (a commit would have fsynced the Abort record), so its first before images are still
  the committed contents (`LooseInv`). A word without a committed record in the log
  was fsynced with its committed content, so a cut brings back that or what a page
  write of the open transaction made of it; `exposed` has the latter words
  (`SpoiltInv`, `WriteSpoils`).
- `Session_proofs`: `SessionInvariant` and its parts `LockHolds`, `EntriesHold`,
  `CloseIsAlone`. The strengthening says that descriptors in use are distinct,
  that entries are exactly those of sessions that have not erased theirs, and
  that the lock's owner is where it may own it.
- `Logger_proofs`: `LoggerInvariant`, `OrderHolds`, `DrainedHolds`. `Drained`
  needs to know that a writer that is done saw an empty queue after the stop
  flag was set, hence `StopInv` over the length of what was queued by then.
- `Catalog_proofs`: `CatalogInvariant` (that the invariant holds unless a restart has
  found residue), `MetaFilesHold`, `NamesHold`, `IndexHolds`. A restart without
  residue has only one version to choose from (`MixesOfOne`).
  A rollback or a crash replaces the database by an earlier one, so each part is
  stated of all three versions, `db`, `saved` and `undo` (`Versions`); ids are new
  because the counters are ahead of every version (`Counters`), except while the
  server is down, where `open` computes them again. `Phases` says which versions
  agree at each stage of a transaction and its commit, `Removals` that a file about to
  be unlinked is named by nothing a restart brings back. `IndexAgrees` needs more
  than it says: entries of deleted rows stay in the tree, so every entry, live or
  not, must carry the value its slot had (`Covers`).
- `HeapFile_proofs`: `HeapInvariant`, `ScanHolds`, `RowidsHold` and the action property
  `PlacesStable`, whatever the pool evicts, the open transaction's pages included, and
  without a hypothesis: `HeapInvariant` says that the invariant holds unless the table
  is spoilt, and the properties say nothing of a spoilt one. The used pages are
  exactly the chain (`Shape`), and the tail page, cached or found in the file, is its
  end (`TailInv`): the file may be ahead of or behind the frames, but only on pages of
  the residue does it disagree about which are used (`Misled`). Both are stated of the
  visible and of the committed pages, and `PoolInv` ties frames, files, undo list, log
  and residue to those.
- `BTree_proofs`: `TreeInvariant`, `RangeScansAreExact`, `CursorReturnsAll`, `NewPageIsFresh`,
  `StaleRootIsDetected`, for any keys, places, capacities and number of pages, and any
  pages evicted, until a restart finds residue in the file. `StoreInv` says of the current and of the committed file that it is a tree of its entries, that
  pages from the hint on are free, and that `root_page` is the header's root or a free
  page. A tree (`Tree`) has a rank that falls from parent to child, one parent a page,
  and two fences a page: sets of points, closed upwards, that a node's separators cut
  for its children. A leaf's upper fence is the lower fence of the next in the chain,
  and a leaf holds exactly the entries between its own; that is stronger than "the
  leaves hold the entries", which an insert alone would not keep. `insert_rec` is
  followed from the leaf up (`InsertDone`): until the parent has heard of a split, two
  pages are for what it has for one (`Pending`), and `SplitLeaf`, `AddChild`,
  `SplitNode` and `NewRoot` say how each level settles it. Binary search returns the
  number of entries below (`SearchFinds`).
  For scans, `Ahead` is what a scanner has yet to come to. Opening it leaves ahead what
  is not less than the bound's probe (`AheadOpen`); a turn of `next` changes nothing
  ahead or takes the least entry (`TurnAhead`); an insert without a split only shifts
  entries of its leaf upwards (`AheadKept`). So `CursorInv` holds beside other
  sessions: what was promised is returned or ahead, until something is moved. An
  undisturbed scan ends since fewer leaves are behind each leaf of the chain than
  behind the one before (`LaterFewer`, `TurnLeft`), and is exact since what it returned
  is ascending, in range and before all that is ahead (`Exact`).
- `Wire_proofs`: `RoundTrip`, that decoding an encoded batch of any length gives the
  rows back; `WireInvariant`, `RowsHold`, `InStepHolds`. The frames under way form a
  path (`Way`) from the phase and row count of the client to those of the session:
  each frame says from where to where it takes the client, batches by the segment of
  the statement's rows they encode. Notices may be anywhere on the path, a cut line
  only shortens it. The hypothesis `CellsFit` says that no text is longer than its
  length field holds; without it `InStep` fails (section 3).
- `Lifecycle_proofs`: `LifecycleInvariant`, `SoleServerHolds`, `RollBackHolds` and the
  action properties `DataKeptHolds`, `InitCompleteHolds`, for any number of servers,
  under `OneInit`: there is one initdb at a time, any number one after the other. With
  two at once TLC refutes `DataKept` (section 3). The place of initdb says which
  files exist (`StageInv`). A live bootstrap server is the running initdb's own, or a
  killed initdb left it behind; in the second case the directory is not empty and not
  promised, so that no initdb gets past its first test again (`BootInv`). That is what
  `RollBackAlone` and the bootstrap half of `SoleServer` need. Two daemons are kept
  apart by the port (`PortInv`); the lock of the pid file does not do it, as its name
  is gone before the engine is closed.

Induction over numbers (the bytes of a batch, the pages of a chain, the levels of a
tree, the turns of a scan) goes through the library's theorem that a set of naturals
has a least member: the prover cannot use the induction rules themselves, but a least
counterexample does the same. For that `HeapFile` defines the chain of a file as the
least set closed under `next`, `Wire` defines decoding and `BTree` its search, descent
and scan as recursive functions. That such a function exists is proved too, by the rank
of the tree's pages or the number of turns (`InsertRecTurns`, `LeafForTurns`,
`DrainedTurns`).

Only model-checked, and why:
- all liveness properties (`NeverStuck`, `ShutdownDrains`, `QueueEmpties`, `Answered`,
  `ToolsReturn`): fairness and ENABLED are beyond the prover;
- `Analyzer`, `Expr` and `Planner` (`PlanSound`, `FoldErrorsReal`, `TypesHold`): they are
  about expressions of any depth, over which the prover has no induction, and their
  operators are recursive;
- `Numeric`, `Conversion`, `RowCodec`, `KeyCodec` (`ArithExact`, `RoundingExact`,
  `KeyOrder`, `ProbeAgrees`, `StoredReadBack`): arithmetic over whole domains, with
  powers and divisions of variables.

## 6. Plan

Done, in this order: the transaction core (`WalEngine`, `WalPower`), the
structures on it (`HeapFile`, `BTree`), sessions and shutdown (`Session`), values
and keys (`Numeric`, `KeyCodec`), `Planner`, `Catalog`, `Logger`, `Wire`; then the
abstract store and its refinement (`TxnStore`, `WalRefines`), the streaming cursor,
commits that raise, `Lifecycle`, `Conversion` and `RowCodec`, `Expr` and `Analyzer`.

Then the proofs, in the order of section 5.

Next:
1. a composition of `Catalog` and the streaming cursor: drops while a SELECT
   streams, pins and `BufferPool::drop_table`;
2. a server that goes on after a commit raised behind its Commit record;
3. proofs about `KeyCodec` for the integer types, which need no powers.

## 7. Not modelled

Lexer and grammar (generated; their effect is success or a syntax error, which
`Session` and `Wire` have), the analyzer's resolution of names and select lists,
EXPLAIN's text, sort and projection, rendering and option parsing of the client,
the configuration's syntax, page checksums. Conversions between texts and numbers,
and of floats to decimals (through the shortest text), are about characters. In
`Lifecycle` the log file that initdb keeps after a failure has no effect on the
rest and is left out; whether `serverctl stop` reports success does not change
anything either (a shutdown sent to a server that is still starting is reported as
"not running" and obeyed later, which the model has). In `Catalog` a server that
goes on after an error behind its Commit record is followed only to its next end.
Pins are not modelled: with one operation at a time a few frames are pinned, and
streaming readers add one each. Data races on the buffer pool by readers outside
the lock are undefined behaviour without a bound; the models take a pool operation
as one step and find the consequences of interleaving whole operations.
