------------------------------- MODULE BTree -------------------------------
(***************************************************************************)
(* One index file: the B+ tree of src/storage/btree.cpp, the BTree object  *)
(* the engine keeps for it in trees_, and the cursor of an autocommit      *)
(* SELECT, which streams outside the lock.                                 *)
(*                                                                         *)
(* Entries are (key, row place) pairs; a row place is one number. Page     *)
(* capacities are constants. Inserts run under the catalog's lock and are  *)
(* atomic. A range scan changes nothing: inside the lock it is an operator *)
(* evaluated on the pages of one state; outside, one step per turn of its  *)
(* loop, with other sessions' steps in between.                            *)
(*                                                                         *)
(* Of the pool the model keeps what a restart can tell: the pages of the   *)
(* open transaction written to the file (stolen) and, as a rollback        *)
(* restores a cached page in its frame only, those of rolled-back ones     *)
(* still in the file (residue). Recovery skips rolled-back transactions: a *)
(* restart may take such bytes for the tree's (spoilt).                    *)
(***************************************************************************)
EXTENDS Integers, Sequences, FiniteSets, SequencesExt

CONSTANTS
  Vals,          \* values of non-NULL keys
  Refs,          \* row places (page_no, slot), positive
  LeafCap,       \* entries that fit on a leaf
  NodeCap,       \* separators that fit on an internal page
  MaxPage,       \* bound: the highest page number
  MaxEntries,    \* bound: entries in the tree
  MaxStreamed,   \* bound: entries in the tree while a cursor is open
  MaxStolen,     \* bound: pages that are stolen or residue
  MaxSpoiling,   \* bound: entries in the tree while there are such pages
  MaxBoth,       \* bound: entries in the tree while there are, and a cursor is open
  CursorRanges   \* bound: the ranges (pairs of bounds) cursors are opened on

ASSUME ConstantsOK ==
  /\ Vals \subseteq Int /\ Refs \subseteq Nat \ {0}
  /\ LeafCap \in Nat \ {0} /\ NodeCap \in Nat \ {0, 1}
  /\ MaxPage \in Nat \ {0} /\ MaxEntries \in Nat /\ MaxStreamed \in Nat
  /\ MaxStolen \in Nat /\ MaxSpoiling \in Nat /\ MaxBoth \in Nat

VARIABLES
  pages,      \* page contents, as readers see them (frame or file)
  count,      \* FileManager::page_count
  root,       \* BTree::root_page
  hint,       \* BTree::next_page_hint
  txn,        \* is a transaction open?
  saved,      \* pages as the last commit left them
  entries,    \* history: entries inserted, as the open transaction sees them
  entries0,   \* history: entries inserted, as committed
  scan,       \* the cursor (BTreeScanner), or NoScan
  stolen,     \* pages of the open transaction in the file, with their content there
  residue,    \* pages of rolled-back transactions in the file, likewise
  spoilt      \* history: did a restart find residue in the file?

store == <<pages, count, root, hint, txn, saved, entries, entries0>>
file  == <<stolen, residue, spoilt>>
vars  == <<store, scan, file>>

-----------------------------------------------------------------------------
(* Keys and entries *)

Key(v)  == [null |-> FALSE, val |-> v]
NullKey == [null |-> TRUE, val |-> 0]
Keys    == {Key(v) : v \in Vals} \cup {NullKey}
Entries == [key : Keys, ref : Refs]

\* key_cmp < 0: NULL is the greatest key.
KeyLess(a, b) == IF a.null # b.null THEN b.null ELSE a.val < b.val

\* entry_cmp < 0.
EntryLess(a, b) == KeyLess(a.key, b.key) \/ (a.key = b.key /\ a.ref < b.ref)

(* Pages *)

Leaf(es, next)   == [type |-> "leaf", es |-> es, kids |-> <<>>, next |-> next]
Node(seps, kids) == [type |-> "node", es |-> seps, kids |-> kids, next |-> 0]
Header(no)       == [type |-> "header", es |-> <<>>, kids |-> <<no>>, next |-> 0]
ZeroPage         == [type |-> "zero", es |-> <<>>, kids |-> <<>>, next |-> 0]
NoPages          == [p \in {} |-> ZeroPage]
Nos              == 0..MaxPage
IsTree(page)     == page.type \in {"leaf", "node"}

TreePages(pg)    == {p \in Nos : IsTree(pg[p])}

\* The first of the positions 0..n that is not below.
BinarySearch(n, below) ==
  LET from[r \in {x \in (0..n) \X (0..n) : x[1] <= x[2]}] ==
        LET mid == r[1] + (r[2] - r[1]) \div 2
        IN IF r[1] = r[2] THEN r[1]
           ELSE IF mid \in below THEN from[<<mid + 1, r[2]>>] ELSE from[<<r[1], mid>>]
  IN from[<<0, n>>]

Positions(es) == 0..(Len(es) - 1)

LeafLowerBound(es, e) == BinarySearch(Len(es), {i \in Positions(es) : EntryLess(es[i + 1], e)})

\* The child an entry belongs to: the first separator greater than it.
NodeChildIndex(seps, e) == BinarySearch(Len(seps), {i \in Positions(seps) : ~EntryLess(e, seps[i + 1])})

(* Insertion. A tree t is its pages and the page number new_page takes next. *)

\* Faulty: page numbers come from the file alone, not from the hint.
NewPageFromFile(t) == count

NewPage(t) == IF count > t.hint THEN count ELSE t.hint

Whole(t)             == [t |-> t, split |-> FALSE, sep |-> <<>>, right |-> 0]
Split(t, sep, right) == [t |-> t, split |-> TRUE, sep |-> sep, right |-> right]

\* A full leaf is rebuilt as two: the upper half moves to a new page, whose
\* first entry becomes the separator, and the leaf chain goes through it.
LeafInsert(t, no, e) ==
  LET page == t.pg[no]
      es   == InsertAt(page.es, LeafLowerBound(page.es, e) + 1, e)
      mid  == Len(es) \div 2
      r    == NewPage(t)
  IN IF Len(page.es) < LeafCap
     THEN Whole([t EXCEPT !.pg[no].es = es])
     ELSE Split([pg |-> [t.pg EXCEPT ![r] = Leaf(SubSeq(es, mid + 1, Len(es)), page.next),
                                     ![no] = Leaf(SubSeq(es, 1, mid), r)],
                 hint |-> r + 1],
                es[mid + 1], r)

\* The separator and right page of child j's split; a full page is rebuilt as
\* two and its middle separator moves up.
NodeInsert(t, no, j, sub) ==
  LET page == t.pg[no]
      seps == InsertAt(page.es, j + 1, sub.sep)
      kids == InsertAt(page.kids, j + 2, sub.right)
      mid  == Len(seps) \div 2
      r    == NewPage(t)
  IN IF Len(page.es) < NodeCap
     THEN Whole([t EXCEPT !.pg[no] = Node(seps, kids)])
     ELSE Split([pg |-> [t.pg EXCEPT ![r] = Node(SubSeq(seps, mid + 2, Len(seps)),
                                                 SubSeq(kids, mid + 2, Len(kids))),
                                     ![no] = Node(SubSeq(seps, 1, mid), SubSeq(kids, 1, mid + 1))],
                 hint |-> r + 1],
                seps[mid + 1], r)

InsertRec(t, no, e) ==
  LET rec[p \in TreePages(t.pg)] ==
        LET j   == NodeChildIndex(t.pg[p].es, e)
            sub == rec[t.pg[p].kids[j + 1]]
        IN IF t.pg[p].type = "leaf" THEN LeafInsert(t, p, e)
           ELSE IF sub.split THEN NodeInsert(sub.t, p, j, sub) ELSE sub
  IN rec[no]

(* Range scans. A bound is absent or a key, inclusive or not. *)

NoBound == [none |-> TRUE]
Bounds  == {NoBound} \cup [none : {FALSE}, key : Keys, incl : BOOLEAN]

ASSUME RangesOK == CursorRanges \subseteq Bounds \X Bounds

\* What a scan's bounds mean.
InRange(e, lo, hi) ==
  /\ lo.none \/ KeyLess(lo.key, e.key) \/ (lo.incl /\ e.key = lo.key)
  /\ hi.none \/ KeyLess(e.key, hi.key) \/ (hi.incl /\ e.key = hi.key)

\* Before every entry of the bound's key.
Probe(lo) == [key |-> lo.key, ref |-> 0]

LeafFor(pg, no, lo) ==
  LET leaf[p \in TreePages(pg)] ==
        LET j == IF lo.none THEN 0 ELSE NodeChildIndex(pg[p].es, Probe(lo))
        IN IF pg[p].type = "leaf" THEN p ELSE leaf[pg[p].kids[j + 1]]
  IN leaf[no]

\* A scanner at position idx of a leaf. History: the bound it was opened with,
\* what it promises to return, whether entries moved since.
Scanner(pg, leaf, idx, lo, hi) ==
  [open |-> TRUE, cur |-> leaf, next |-> pg[leaf].next, idx |-> idx, lo |-> lo, hi |-> hi,
   out |-> <<>>, done |-> FALSE, dead |-> FALSE,
   lo0 |-> lo, expected |-> {e \in entries : InRange(e, lo, hi)}, moved |-> FALSE]

\* Faulty: an exclusive lower bound skips one entry, not the entries of its key.
OpenScanSkips(pg, no, lo, hi) ==
  LET leaf == LeafFor(pg, no, lo)
  IN Scanner(pg, leaf, IF lo.none THEN 0 ELSE LeafLowerBound(pg[leaf].es, Probe(lo)) + (IF lo.incl THEN 0 ELSE 1), lo, hi)

\* The constructor: down to the leaf of the lower bound.
OpenScan(pg, no, lo, hi) ==
  LET leaf == LeafFor(pg, no, lo)
  IN Scanner(pg, leaf, IF lo.none THEN 0 ELSE LeafLowerBound(pg[leaf].es, Probe(lo)), lo, hi)

NoScan == [open |-> FALSE]

\* Faulty: an inclusive upper bound ends the scan at its first equal key.
BeyondOrEqual(e, hi) == ~hi.none /\ ~KeyLess(e.key, hi.key)

\* The entry lies past the upper bound.
Beyond(e, hi) ==
  /\ ~hi.none
  /\ IF hi.incl THEN KeyLess(hi.key, e.key) ELSE ~KeyLess(e.key, hi.key)

\* A turn of the loop in next: the next page of the chain, the entry under the
\* cursor, or the end of the page. A page that is no leaf ends the process.
ScanStep(pg, s) ==
  IF s.done \/ s.dead THEN s
  ELSE IF s.cur = 0
  THEN IF s.next = 0 THEN [s EXCEPT !.done = TRUE]
       ELSE IF pg[s.next].type # "leaf" THEN [s EXCEPT !.dead = TRUE]
       ELSE [s EXCEPT !.cur = s.next, !.next = pg[s.next].next, !.idx = 0]
  ELSE IF s.idx >= Len(pg[s.cur].es) THEN [s EXCEPT !.cur = 0]
  ELSE LET e == pg[s.cur].es[s.idx + 1]
       IN IF Beyond(e, s.hi) THEN [s EXCEPT !.done = TRUE]
          ELSE IF ~s.lo.none /\ ~s.lo.incl /\ e.key = s.lo.key THEN [s EXCEPT !.idx = @ + 1]
          ELSE [s EXCEPT !.idx = @ + 1, !.out = Append(@, e),
                         !.lo = IF ~@.none /\ ~@.incl THEN NoBound ELSE @]

-----------------------------------------------------------------------------
\* BTree::create, committed: an empty leaf as root.
Init ==
  /\ pages = [p \in Nos |-> IF p = 0 THEN Header(1) ELSE IF p = 1 THEN Leaf(<<>>, 0) ELSE ZeroPage]
  /\ count = 2 /\ root = 1 /\ hint = 2
  /\ txn = FALSE /\ saved = pages
  /\ entries = {} /\ entries0 = {}
  /\ scan = NoScan
  /\ stolen = NoPages /\ residue = NoPages /\ spoilt = FALSE

Spoiling == stolen # NoPages \/ residue # NoPages

\* The entries the tree may have, by what else goes on.
EntryBound(streaming, spoiling) ==
  IF spoiling THEN (IF streaming THEN MaxBoth ELSE MaxSpoiling)
  ELSE (IF streaming THEN MaxStreamed ELSE MaxEntries)

\* Entries moved under an open cursor: what it has yet to return may be
\* somewhere it does not look.
Disturb(moved) == scan' = IF scan.open /\ moved THEN [scan EXCEPT !.moved = TRUE] ELSE scan

Begin ==
  /\ ~txn
  /\ txn' = TRUE
  /\ UNCHANGED <<pages, count, root, hint, saved, entries, entries0, scan, file>>

\* Faulty: set_root does not write the header page.
InsertKeepsHeader(e) ==
  LET r  == InsertRec([pg |-> pages, hint |-> hint], root, e)
      no == NewPage(r.t)
  IN /\ txn
     /\ e \notin entries /\ Cardinality(entries) < EntryBound(scan.open, Spoiling)
     /\ IsTree(pages[root])
     /\ no <= MaxPage
     /\ IF r.split
        THEN /\ pages' = [r.t.pg EXCEPT ![no] = Node(<<r.sep>>, <<root, r.right>>)]
             /\ hint' = no + 1 /\ root' = no
        ELSE /\ pages' = r.t.pg /\ hint' = r.t.hint
             /\ UNCHANGED root
     /\ entries' = entries \cup {e}
     /\ Disturb(r.t.hint # hint)
     /\ UNCHANGED <<count, txn, saved, entries0, file>>

\* index_insert. A root that is not a tree page ends the process (Reopen).
Insert(e) ==
  LET r  == InsertRec([pg |-> pages, hint |-> hint], root, e)
      no == NewPage(r.t)
  IN /\ txn
     /\ e \notin entries /\ Cardinality(entries) < EntryBound(scan.open, Spoiling)
     /\ IsTree(pages[root])
     /\ no <= MaxPage
     /\ IF r.split
        THEN /\ pages' = [r.t.pg EXCEPT ![no] = Node(<<r.sep>>, <<root, r.right>>), ![0] = Header(no)]
             /\ hint' = no + 1 /\ root' = no
        ELSE /\ pages' = r.t.pg /\ hint' = r.t.hint
             /\ UNCHANGED root
     /\ entries' = entries \cup {e}
     /\ Disturb(r.t.hint # hint)
     /\ UNCHANGED <<count, txn, saved, entries0, file>>

CommitTxn ==
  /\ txn
  /\ txn' = FALSE
  /\ saved' = pages /\ entries0' = entries
  /\ stolen' = NoPages
  /\ UNCHANGED <<pages, count, root, hint, entries, scan, residue, spoilt>>

\* rollback_txn restores the pages, in the frame of those cached again and in the
\* file of the others; the BTree objects of trees_ stay as they are.
RollbackTxn ==
  /\ txn
  /\ txn' = FALSE
  /\ pages' = saved /\ entries' = entries0
  /\ Disturb(entries # entries0)
  /\ stolen' = NoPages
  /\ \E cached \in SUBSET DOMAIN stolen : residue' = Restrict(stolen, cached) @@ residue
  /\ UNCHANGED <<count, root, hint, saved, entries0, spoilt>>

\* Eviction or a checkpoint writes pages: the file grows up to what is allocated.
WriteBack ==
  /\ \E n \in (count + 1)..hint : count' = n
  /\ UNCHANGED <<pages, root, hint, txn, saved, entries, entries0, scan, file>>

\* Eviction, or a checkpoint page by page, writes a page that is not in the file
\* as the last commit left it: one the open transaction has changed, or one
\* that was restored in its frame only.
WritePage(p) ==
  LET changed == pages[p] # saved[p]
  IN /\ p < count /\ (changed \/ p \in DOMAIN residue)
     /\ Cardinality(entries) <= EntryBound(scan.open, TRUE)
     /\ Cardinality(DOMAIN stolen \cup DOMAIN residue \cup {p}) <= MaxStolen
     /\ stolen' = IF changed THEN (p :> pages[p]) @@ stolen ELSE stolen
     /\ residue' = Restrict(residue, DOMAIN residue \ {p})
     /\ UNCHANGED <<store, scan, spoilt>>

\* The process ends (stopped or dead) and starts again: recovery undoes the open
\* transaction and leaves the committed pages, except where bytes of a rolled-
\* back transaction in the file have no later patch; tree_for opens the file.
Reopen ==
  /\ \E n \in 2..(MaxPage + 1) :
       /\ n >= count /\ n <= hint /\ \A p \in Nos : p >= n => saved[p] = ZeroPage
       /\ count' = n
  /\ \E kept \in SUBSET DOMAIN residue :
       pages' = [p \in Nos |-> IF p \in kept THEN residue[p] ELSE saved[p]]
  /\ saved' = pages' /\ entries' = entries0
  /\ root' = pages'[0].kids[1]
  /\ hint' = IF count' > root' + 1 THEN count' ELSE root' + 1
  /\ txn' = FALSE /\ scan' = NoScan
  /\ stolen' = NoPages /\ residue' = NoPages
  /\ spoilt' = (spoilt \/ residue # NoPages)
  /\ UNCHANGED entries0

(* The cursor of an autocommit SELECT: opened inside the lock, then free. *)

\* Engine::index_scan.
Scan(lo, hi) ==
  /\ ~txn /\ ~scan.open /\ IsTree(pages[root])
  /\ Cardinality(entries) <= EntryBound(TRUE, Spoiling)
  /\ scan' = OpenScan(pages, root, lo, hi)
  /\ UNCHANGED <<store, file>>

\* next, turn by turn; a page that is no leaf ends the process (Reopen).
Fetch ==
  /\ scan.open /\ ~scan.done
  /\ scan' = ScanStep(pages, scan)
  /\ ~scan'.dead
  /\ UNCHANGED <<store, file>>

\* close.
CloseScan == scan.open /\ scan' = NoScan /\ UNCHANGED <<store, file>>

Next ==
  \/ Begin \/ CommitTxn \/ RollbackTxn \/ WriteBack \/ Reopen
  \/ \E e \in Entries : Insert(e)
  \/ \E p \in Nos : WritePage(p)
  \/ \E range \in CursorRanges : Scan(range[1], range[2])
  \/ Fetch \/ CloseScan

Spec == Init /\ [][Next]_vars

-----------------------------------------------------------------------------
(* Properties *)

\* Enough turns for every leaf: load it, take its entries, leave it.
ScanSteps == MaxPage * (LeafCap + 2)

Drained(pg, s) ==
  LET run[n \in 0..ScanSteps] == IF n = 0 THEN s ELSE ScanStep(pg, run[n - 1])
  IN run[ScanSteps]

Ascending(es) == \A i, j \in 1..Len(es) : i < j => EntryLess(es[i], es[j])

\* A scan that nobody disturbs returns the entries within its bounds, each
\* once, in key order and by row place within a key, NULL keys last, for every
\* pair of bounds, however the tree was split, rolled back and reopened
\* (BTree::insert_rec, BTreeScanner::next), unless a restart found bytes of a
\* rolled-back transaction in the file. A cursor that is open besides changes
\* no page: states without one are enough.
RangeScanExact ==
  ~spoilt /\ IsTree(pages[root]) /\ ~scan.open =>
    \A lo, hi \in Bounds :
      LET s == Drained(pages, OpenScan(pages, root, lo, hi))
      IN s.done /\ Ascending(s.out) /\ Range(s.out) = {e \in entries : InRange(e, lo, hi)}

\* The pages that the header, nodes and leaves of a file name.
Named(pg) == UNION {Range(pg[p].kids) \cup {pg[p].next} : p \in Nos}

\* The page new_page hands out next is not a page of the tree, committed or
\* current: no page names it, whatever was rolled back, evicted or lost in a
\* crash, unless a restart found bytes of a rolled-back transaction in the file.
NewPageFresh ==
  ~spoilt => NewPage([pg |-> pages, hint |-> hint]) \notin {0} \cup Named(saved) \cup Named(pages)

\* Engine::tree_for, BTree::read_tree: root_page may be stale after the
\* rollback of a root split, but then it names no page of a tree and the next
\* use ends the process; it never leads into an old part of the tree. In a file
\* that is not spoilt.
StaleRootDetected == ~spoilt /\ IsTree(pages[root]) => root = pages[0].kids[1]

\* session.cpp, BTreeScanner::next: a cursor outside the lock returns nothing
\* above its upper bound, and everything that was there when it was opened
\* unless a page split or a rollback moved entries meanwhile: inserts into its
\* leaf, before or behind its place, hide nothing from it. In a file that is
\* not spoilt.
CursorMissesNothing ==
  ~spoilt /\ scan.open /\ scan.done =>
    LET got == Range(scan.out)
    IN /\ scan.moved \/ scan.expected \subseteq got
       /\ \A e \in got : InRange(e, NoBound, scan.hi)

\* btree.cpp:558: once past the key of an open lower bound, a cursor meets it
\* no more. TLC refutes it.
CursorAboveLowerBound ==
  scan.open => \A e \in Range(scan.out) : InRange(e, scan.lo0, NoBound)

=============================================================================
