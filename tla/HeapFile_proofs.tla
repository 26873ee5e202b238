-------------------------- MODULE HeapFile_proofs --------------------------
(***************************************************************************)
(* Proofs about HeapFile, for any number of pages, rows and slots, and a   *)
(* pool that evicts what it likes, until the bytes of a rolled-back        *)
(* transaction are taken for the table's (spoilt: the run HeapTail shows   *)
(* what comes of it).                                                      *)
(*                                                                         *)
(* A scan is exact because the used pages are exactly the chain (Shape),   *)
(* and the place where the next row goes, cached or found in the file, is  *)
(* its end (TailInv). Both have to hold of the committed pages as well as  *)
(* of the pages in view, since a rollback or a crash brings those back.    *)
(* The file may differ from what is committed only on pages the log, the   *)
(* undo list or a dirty frame has (PoolInv).                               *)
(***************************************************************************)
EXTENDS HeapFile, WellFoundedInduction, TLAPS

Page == [kind : {"zero", "header", "heap"}, slots : Seq(Nat), next : Nos]

DataPages == Nos \ {0}
Used(v) == {p \in DataPages : v[p] # ZeroPage}

\* e is the last page of the file's chain, 0 when there is none.
End(v, e) ==
  /\ e \in Used(v) \cup {0} /\ v[e].next = 0
  /\ \A p \in Used(v) : p <= e

\* The pages of a table: a header with the rowid counter, heap pages along the
\* chain, and pages never used or given back.
Shape(v) ==
  /\ v \in [Nos -> Page]
  /\ v[0].kind = "header" /\ Len(v[0].slots) = 1
  /\ \A p \in Used(v) : v[p].kind = "heap"
  /\ Chain(v) = Used(v)
  /\ \E e \in Nos : End(v, e)

\* Every live row has a rowid of its own, and the counter is not behind it.
Rowids(v) ==
  \A p, q \in DataPages : \A s \in Live(v[p]), r \in Live(v[q]) :
    /\ v[p].slots[s] = v[q].slots[r] => p = q /\ s = r
    /\ v[p].slots[s] <= v[0].slots[1]

\* The slots of v, some of them tombstones, and perhaps more.
Grown(v, w) ==
  \A p \in DataPages : \A s \in DOMAIN v[p].slots :
    s \in DOMAIN w[p].slots /\ w[p].slots[s] \in {v[p].slots[s], Tomb}

TypeOK ==
  /\ disk \in [Nos -> Page] /\ committed \in [Nos -> Page]
  /\ frame \in [Nos -> Page \cup {NoPage}] /\ saved \in [Nos -> Page \cup {NoPage}]
  /\ dirty \subseteq Nos /\ logged \subseteq Nos /\ size \in 1..MaxPage + 1 /\ txn \in BOOLEAN
  /\ tail \in Nos /\ tailUndo \in Seq(Nos)
  /\ stolen \subseteq Nos /\ residue \subseteq Nos

\* What is dirty, what a rollback restores, and where the file is up to date.
PoolInv ==
  /\ \A p \in Nos : IF p \in dirty THEN frame[p] # NoPage ELSE frame[p] \in {NoPage, disk[p]}
  /\ ~txn => Touched = {} /\ tailUndo = <<>> /\ stolen = {}
  /\ Touched \subseteq dirty \cup stolen /\ stolen \subseteq Touched /\ residue \subseteq dirty
  /\ \A p \in Nos : IF p \in Touched THEN saved[p] = committed[p] ELSE View[p] = committed[p]
  /\ \A p \in Nos \ (logged \cup residue \cup stolen) : disk[p] = committed[p]
  /\ \A p \in Nos : p >= size => disk[p] = ZeroPage /\ p \notin stolen

\* The cached tail page, or the one disk_tail_page would find, is the end of v;
\* the file may be wrong about the pages X.
TailOK(v, t, X) ==
  IF t = NoTail THEN \A p \in DataPages \ X : disk[p] = ZeroPage <=> v[p] = ZeroPage ELSE End(v, t)

TailInv ==
  /\ TailOK(View, tail, residue)
  /\ TailOK(committed, IF tailUndo = <<>> THEN tail ELSE Head(tailUndo), residue \cup stolen)

RowInv ==
  /\ ScanRows(View) = rows /\ ScanRows(committed) = rows0
  /\ Grown(committed, View)

Inv ==
  /\ TypeOK /\ PoolInv /\ TailInv /\ RowInv
  /\ Shape(View) /\ Shape(committed) /\ Rowids(View) /\ Rowids(committed)

-----------------------------------------------------------------------------
(* Maxima and chains *)

\* A set of naturals has a least member.
LEMMA LeastMember ==
  ASSUME NEW S, S \subseteq Nat, S # {}
  PROVE  \E x \in S : \A y \in S : x <= y
<1>1. PICK x \in S : \A y \in S : ~(<<y, x>> \in OpToRel(<, Nat))
  BY NatLessThanWellFounded, WFMin, Zenon
<1>2. \A y \in S : ~(<<y, x>> \in {ss \in Nat \X Nat : ss[1] < ss[2]})
  BY <1>1 DEF OpToRel
<1>3. \A y \in S : ~(y < x)
  BY <1>2
<1>4. \A y \in S : x <= y
  BY <1>3
<1> QED BY <1>4

\* Max of a set of naturals with an upper bound.
LEMMA MaxIs ==
  ASSUME NEW N \in Nat, NEW S, S \subseteq 0..N, S # {}
  PROVE  Max(S) \in S /\ \A y \in S : y <= Max(S)
<1> DEFINE gaps == {N - x : x \in S}
<1>1. gaps \subseteq Nat
  OBVIOUS
<1>2. gaps # {}
  <2>1. PICK x \in S : TRUE
    OBVIOUS
  <2>2. N - x \in gaps
    OBVIOUS
  <2> QED BY <2>2
<1>3. PICK k \in gaps : \A y \in gaps : k <= y
  <2> HIDE DEF gaps
  <2> QED BY <1>1, <1>2, LeastMember
<1>4. PICK m \in S : k = N - m
  BY <1>3
<1>5. \A y \in S : m >= y
  <2> TAKE y \in S
  <2>1. N - y \in gaps
    OBVIOUS
  <2>2. N - m <= N - y
    BY <1>3, <1>4, <2>1
  <2> QED BY <2>2
<1> QED BY <1>5 DEF Max

\* The member of a set that bounds it is its maximum.
LEMMA MaxUnique ==
  ASSUME NEW S, S \subseteq Nat, NEW m \in S, \A y \in S : y <= m
  PROVE  Max(S) = m
<1>1. \E x \in S : \A y \in S : x >= y
  OBVIOUS
<1>2. Max(S) \in S /\ \A y \in S : Max(S) >= y
  BY <1>1 DEF Max
<1>3. Max(S) >= m /\ m >= Max(S) /\ Max(S) \in Nat
  BY <1>2
<1> QED BY <1>3

\* The chain only depends on next_page.
LEMMA SameChain ==
  ASSUME NEW v, NEW w, \A p \in Nos : w[p].next = v[p].next
  PROVE  Chain(w) = Chain(v)
<1>1. 0 \in Nos
  BY ConstantsOK DEF Nos
<1> QED BY <1>1 DEF Chain

\* A page linked behind the end of the chain becomes its end.
LEMMA ChainGrows ==
  ASSUME NEW v \in [Nos -> Page], NEW w \in [Nos -> Page], NEW e \in Nos, NEW n \in DataPages,
         End(v, e), Chain(v) = Used(v), n > e,
         \A p \in Nos \ {e, n} : w[p].next = v[p].next,
         w[e].next = n, w[n].next = 0, Used(w) = Used(v) \cup {n}
  PROVE  Chain(w) = Used(w) /\ End(w, n)
<1> USE ConstantsOK
<1>0. 0 \in Nos /\ n \in Nos /\ n # 0 /\ \A p \in Nos : v[p].next \in Nos /\ w[p].next \in Nos
  BY DEF Nos, DataPages, Page
<1>1. /\ n \notin Used(v) /\ v[e].next = 0 /\ v[n].next = 0
      /\ e \in Used(v) \cup {0} /\ e # n /\ 0 \notin Used(v)
  BY DEF End, Nos, DataPages, Used, ZeroPage
<1>2. ASSUME NEW S \in SUBSET Nos, w[0].next \in S, \A q \in S \ {0} : w[q].next \in S
      PROVE  v[0].next \in S \cup {0} /\ \A q \in (S \cup {0}) \ {0} : v[q].next \in S \cup {0}
  BY <1>0, <1>1, <1>2
<1>3. ASSUME NEW p \in Chain(v) PROVE p \in Chain(w)
  <2> SUFFICES ASSUME NEW S \in SUBSET (Nos \ {p}),
                      w[0].next \in S, \A q \in S \ {0} : w[q].next \in S
               PROVE  FALSE
    BY <1>3 DEF Chain
  <2>1. S \cup {0} \in SUBSET (Nos \ {p})
    BY <1>0, <1>3 DEF Chain
  <2>2. S \in SUBSET Nos
    OBVIOUS
  <2>3. v[0].next \in S \cup {0} /\ \A q \in (S \cup {0}) \ {0} : v[q].next \in S \cup {0}
    BY <1>2, <2>2
  <2> QED BY <1>3, <2>1, <2>3 DEF Chain
<1>4. n \in Chain(w)
  <2> SUFFICES ASSUME NEW S \in SUBSET (Nos \ {n}),
                      w[0].next \in S, \A q \in S \ {0} : w[q].next \in S
               PROVE  FALSE
    BY <1>0 DEF Chain
  <2>1. e # 0 /\ e \in Chain(v) /\ e \notin S
    BY <1>0, <1>1
  <2>2. S \cup {0} \in SUBSET (Nos \ {e})
    BY <1>0, <2>1
  <2>3. S \in SUBSET Nos
    OBVIOUS
  <2>4. v[0].next \in S \cup {0} /\ \A q \in (S \cup {0}) \ {0} : v[q].next \in S \cup {0}
    BY <1>2, <2>3
  <2> QED BY <2>1, <2>2, <2>4 DEF Chain
<1>5. ASSUME NEW p \in Chain(w), p \notin Used(v), p # n PROVE FALSE
  <2>1. p \in Nos /\ p # 0
    BY <1>5 DEF Chain
  <2>2. PICK S \in SUBSET (Nos \ {p}) : v[0].next \in S /\ \A q \in S \ {0} : v[q].next \in S
    <3>1. p \notin Chain(v)
      BY <1>5
    <3> QED BY <2>1, <3>1 DEF Chain
  <2> DEFINE T == S \cup {0, n}
  <2>3. T \in SUBSET (Nos \ {p})
    BY <1>0, <1>5, <2>1
  <2>4. w[0].next \in T
    BY <1>0, <1>1, <2>2
  <2>5. \A q \in T \ {0} : w[q].next \in T
    BY <1>0, <1>1, <2>2
  <2> HIDE DEF T
  <2> QED BY <1>5, <2>3, <2>4, <2>5 DEF Chain
<1>6. Chain(w) = Used(w)
  BY <1>3, <1>4, <1>5
<1>7. End(w, n)
  BY DEF End, Nos, Used, DataPages
<1> QED BY <1>6, <1>7

\* A scan of a well-formed file returns every live row.
LEMMA ScanIsLive ==
  ASSUME NEW v, Shape(v)
  PROVE  ScanRows(v) = {x \in Nat : \E p \in DataPages : \E s \in Live(v[p]) : x = v[p].slots[s]}
<1> DEFINE live == {x \in Nat : \E p \in DataPages : \E s \in Live(v[p]) : x = v[p].slots[s]}
<1>1. \A p \in DataPages : v[p].slots \in Seq(Nat)
  BY DEF Shape, Page, DataPages
<1>2. ASSUME NEW x \in ScanRows(v) PROVE x \in live
  <2>1. PICK p \in Used(v) : x \in RowsOf(v, p)
    BY <1>2 DEF ScanRows, Shape
  <2>2. PICK s \in Live(v[p]) : x = v[p].slots[s]
    BY <2>1 DEF RowsOf
  <2>3. p \in DataPages /\ x \in Nat
    BY <1>1, <2>1, <2>2 DEF Used, Live
  <2> QED BY <2>2, <2>3
<1>3. ASSUME NEW x \in live PROVE x \in ScanRows(v)
  <2>1. PICK p \in DataPages : \E s \in Live(v[p]) : x = v[p].slots[s]
    BY <1>3
  <2>2. PICK s \in Live(v[p]) : x = v[p].slots[s]
    BY <2>1
  <2>3. v[p] # ZeroPage
    BY <2>2 DEF Live, ZeroPage
  <2>4. p \in Chain(v)
    BY <2>3 DEF Shape, Used
  <2>5. x \in RowsOf(v, p)
    BY <2>2 DEF RowsOf
  <2> QED BY <2>4, <2>5 DEF ScanRows
<1> HIDE DEF live
<1>4. ScanRows(v) = live
  BY <1>2, <1>3
<1> QED BY <1>4 DEF live

\* Pages are not NoPage, so that the view is a file of pages.
LEMMA ViewType ==
  ASSUME TypeOK
  PROVE  /\ View \in [Nos -> Page] /\ NoPage \notin Page
         /\ \A p \in Nos : View[p] = IF frame[p] # NoPage THEN frame[p] ELSE disk[p]
<1>1. NoPage \notin Page
  BY DEF NoPage, Page
<1>2. \A p \in Nos : View[p] = IF frame[p] # NoPage THEN frame[p] ELSE disk[p]
  BY DEF View
<1>3. View \in [Nos -> Page]
  BY DEF View, TypeOK
<1> QED BY <1>1, <1>2, <1>3

\* In-place changes: what they do to the pool and to the undo list.
LEMMA ChangeView ==
  ASSUME TypeOK, NEW v \in [Nos -> Page], Change(v), disk' = disk
  PROVE  LET ps == {p \in Nos : v[p] # View[p]}
         IN /\ View' = v /\ Touched' = Touched \cup ps /\ dirty' = dirty \cup ps
            /\ frame' \in [Nos -> Page \cup {NoPage}] /\ saved' \in [Nos -> Page \cup {NoPage}]
            /\ \A p \in Nos : frame'[p] = IF p \in ps THEN v[p] ELSE frame[p]
            /\ \A p \in Nos : saved'[p] = IF p \in ps \ Touched THEN View[p] ELSE saved[p]
<1> DEFINE ps == {p \in Nos : v[p] # View[p]}
<1>1. /\ frame' = [p \in Nos |-> IF p \in ps THEN v[p] ELSE frame[p]]
      /\ dirty' = dirty \cup ps
      /\ saved' = [p \in Nos |-> IF p \in ps \ Touched THEN View[p] ELSE saved[p]]
  BY DEF Change
<1>2. /\ View \in [Nos -> Page] /\ NoPage \notin Page
      /\ \A p \in Nos : View[p] = IF frame[p] # NoPage THEN frame[p] ELSE disk[p]
  BY ViewType
<1>3. \A p \in Nos : (p \in ps <=> v[p] # View[p])
  OBVIOUS
<1> HIDE DEF ps
<1>4. frame' \in [Nos -> Page \cup {NoPage}] /\ saved' \in [Nos -> Page \cup {NoPage}]
  BY <1>1, <1>2 DEF TypeOK
<1>5. View' = v
  <2>1. View' = [p \in Nos |-> IF frame'[p] # NoPage THEN frame'[p] ELSE disk[p]]
    BY DEF View
  <2>2. \A p \in Nos : (IF frame'[p] # NoPage THEN frame'[p] ELSE disk[p]) = v[p]
    BY <1>1, <1>2, <1>3
  <2>3. v = [p \in Nos |-> v[p]]
    OBVIOUS
  <2> QED BY <2>1, <2>2, <2>3
<1>6. Touched' = Touched \cup ps
  <2>1. Touched' = {p \in Nos : saved'[p] # NoPage}
    BY DEF Touched
  <2>2. \A p \in Nos : saved'[p] # NoPage <=> p \in Touched \/ p \in ps
    BY <1>1, <1>2 DEF Touched
  <2>3. Touched \subseteq Nos /\ ps \subseteq Nos
    BY DEF Touched, ps
  <2> QED BY <2>1, <2>2, <2>3
<1> QED BY <1>1, <1>4, <1>5, <1>6 DEF ps

\* What a statement has to show of the pages v it makes.
LEMMA StatementInv ==
  ASSUME Inv, txn, NEW v, Change(v), Shape(v), Rowids(v), Grown(View, v),
         ScanRows(v) = rows',
         UNCHANGED <<disk, size, txn, logged, committed, rows0, stolen, residue>>,
         tail' \in Nos, tailUndo' \in Seq(Nos), TailOK(v, tail', residue),
         (IF tailUndo' = <<>> THEN tail' ELSE Head(tailUndo'))
           = (IF tailUndo = <<>> THEN tail ELSE Head(tailUndo))
  PROVE  Inv'
<1> DEFINE ps == {p \in Nos : v[p] # View[p]}
<1>1. v \in [Nos -> Page]
  BY DEF Shape
<1>2. /\ View' = v /\ Touched' = Touched \cup ps /\ dirty' = dirty \cup ps
      /\ frame' \in [Nos -> Page \cup {NoPage}] /\ saved' \in [Nos -> Page \cup {NoPage}]
      /\ \A p \in Nos : frame'[p] = IF p \in ps THEN v[p] ELSE frame[p]
      /\ \A p \in Nos : saved'[p] = IF p \in ps \ Touched THEN View[p] ELSE saved[p]
  BY <1>1, ChangeView DEF Inv
<1>3. TypeOK'
  BY <1>2 DEF Inv, TypeOK
<1>4. PoolInv'
  <2>1. \A p \in Nos : (p \in ps <=> v[p] # View[p]) /\ v[p] # NoPage
    BY <1>1, ViewType DEF Inv
  <2> HIDE DEF ps
  <2>2. \A p \in Nos : IF p \in dirty' THEN frame'[p] # NoPage ELSE frame'[p] \in {NoPage, disk'[p]}
    BY <1>2, <2>1 DEF Inv, PoolInv
  <2>3. Touched' \subseteq dirty' \cup stolen' /\ stolen' \subseteq Touched' /\ residue' \subseteq dirty'
    BY <1>2 DEF Inv, PoolInv
  <2>4. \A p \in Nos : IF p \in Touched' THEN saved'[p] = committed'[p] ELSE View'[p] = committed'[p]
    BY <1>2, <2>1 DEF Inv, PoolInv
  <2>5. txn'
    OBVIOUS
  <2> QED BY <2>2, <2>3, <2>4, <2>5 DEF Inv, PoolInv
<1>5. TailInv'
  <2>1. TailOK(View, tail, residue)'
    BY <1>2 DEF TailOK
  <2>2. TailOK(committed, IF tailUndo = <<>> THEN tail ELSE Head(tailUndo), residue \cup stolen)'
    BY DEF Inv, TailInv, TailOK
  <2> QED BY <2>1, <2>2 DEF TailInv
<1>6. Grown(committed, v)
  BY DEF Inv, RowInv, Grown
<1>7. RowInv'
  BY <1>2, <1>6 DEF Inv, RowInv
<1> QED BY <1>2, <1>3, <1>4, <1>5, <1>7 DEF Inv

-----------------------------------------------------------------------------
(* insert_row *)

\* The row goes to the end of the chain, which the cache or the file names.
LEMMA TailIsEnd ==
  ASSUME Inv, ~(tail = NoTail /\ Misled)
  PROVE  End(View, IF tail # NoTail THEN tail ELSE DiskTailPage)
<1>1. CASE tail # NoTail
  BY <1>1 DEF Inv, TailInv, TailOK
<1>2. CASE tail = NoTail
  <2> DEFINE S == {0} \cup {p \in 1..(size - 1) : disk[p] # ZeroPage}
  <2>1. PICK e \in Nos : End(View, e)
    BY DEF Inv, Shape
  <2>2. \A p \in DataPages : disk[p] = ZeroPage <=> View[p] = ZeroPage
    <3>1. \A p \in DataPages \ residue : disk[p] = ZeroPage <=> View[p] = ZeroPage
      BY <1>2 DEF Inv, TailInv, TailOK
    <3>2. \A p \in residue \ {0} : disk[p] = ZeroPage <=> View[p] = ZeroPage
      BY <1>2 DEF Misled
    <3> QED BY <3>1, <3>2 DEF DataPages
  <2>3. S \subseteq Nat /\ size \in Nat /\ size <= MaxPage + 1
    BY ConstantsOK DEF Inv, TypeOK
  <2>4. e \in S
    <3>1. CASE e = 0
      BY <3>1
    <3>2. CASE e # 0
      <4>1. e \in DataPages /\ disk[e] # ZeroPage
        BY <2>1, <2>2, <3>2 DEF End, Used
      <4>2. ~(e >= size) /\ e \in Nat
        BY <4>1, ConstantsOK DEF Inv, PoolInv, DataPages, Nos
      <4> QED BY <2>3, <3>2, <4>1, <4>2
    <3> QED BY <3>1, <3>2
  <2>5. \A y \in S : y <= e
    <3>1. ASSUME NEW y \in 1..(size - 1), disk[y] # ZeroPage PROVE y <= e
      <4>1. y \in DataPages
        BY <2>3, ConstantsOK DEF DataPages, Nos
      <4>2. y \in Used(View)
        BY <2>2, <3>1, <4>1 DEF Used
      <4> QED BY <2>1, <4>2 DEF End
    <3>2. 0 <= e
      BY ConstantsOK DEF Nos
    <3> QED BY <3>1, <3>2
  <2>6. DiskTailPage = e
    <3> HIDE DEF S
    <3>1. Max(S) = e
      BY <2>3, <2>4, <2>5, MaxUnique
    <3> QED BY <3>1 DEF DiskTailPage, S
  <2> QED BY <1>2, <2>1, <2>6
<1> QED BY <1>1, <1>2

\* A new row at the end of one page, and the counter raised to it.
LEMMA AppendedRow ==
  ASSUME NEW v, NEW w \in [Nos -> Page], NEW n \in DataPages, NEW row,
         Shape(v), Rowids(v), Shape(w), row = v[0].slots[1] + 1,
         w[0].slots = <<row>>, w[n].slots = Append(v[n].slots, row),
         \A p \in DataPages \ {n} : w[p].slots = v[p].slots
  PROVE  Rowids(w) /\ Grown(v, w) /\ ScanRows(w) = ScanRows(v) \cup {row}
<1> USE ConstantsOK
<1>1. /\ v \in [Nos -> Page] /\ 0 \in Nos /\ DataPages \subseteq Nos /\ n \in Nos
      /\ \A p \in Nos : v[p].slots \in Seq(Nat) /\ w[p].slots \in Seq(Nat)
  <2>1. v \in [Nos -> Page]
    BY DEF Shape
  <2>2. \A p \in Nos : v[p].slots \in Seq(Nat) /\ w[p].slots \in Seq(Nat)
    BY <2>1 DEF Page
  <2> QED BY <2>1, <2>2 DEF Nos, DataPages
<1>2. v[0].slots[1] \in Nat /\ row \in Nat /\ row # Tomb /\ w[0].slots[1] = row
  BY <1>1, SMTT(30) DEF Shape, Tomb
<1> DEFINE k == Len(v[n].slots) + 1
<1>3. /\ k \in Nat /\ k \notin Live(v[n])
      /\ w[n].slots[k] = row /\ Live(w[n]) = Live(v[n]) \cup {k}
      /\ \A s \in Live(v[n]) : w[n].slots[s] = v[n].slots[s]
  <2>1. v[n].slots \in Seq(Nat)
    BY <1>1
  <2> QED BY <1>2, <2>1, SMTT(30) DEF Live
<1>4. \A p \in DataPages \ {n} : Live(w[p]) = Live(v[p]) /\ \A s \in Live(v[p]) : w[p].slots[s] = v[p].slots[s]
  BY DEF Live
<1>5. \A p \in DataPages : \A s \in Live(v[p]) : v[p].slots[s] <= v[0].slots[1] /\ v[p].slots[s] \in Nat
  BY <1>1 DEF Rowids, Live
<1>6. \A p \in DataPages : \A s \in Live(w[p]) :
        \/ p = n /\ s = k /\ w[p].slots[s] = row
        \/ s \in Live(v[p]) /\ w[p].slots[s] = v[p].slots[s] /\ w[p].slots[s] # row
  <2> TAKE p \in DataPages
  <2> TAKE s \in Live(w[p])
  <2>1. CASE s \in Live(v[p])
    <3>1. w[p].slots[s] = v[p].slots[s]
      BY <1>3, <1>4, <2>1
    <3> QED BY <1>2, <1>5, <2>1, <3>1
  <2>2. CASE s \notin Live(v[p])
    <3>1. p = n
      BY <1>4, <2>2
    <3> QED BY <1>3, <2>2, <3>1
  <2> QED BY <2>1, <2>2
<1> HIDE DEF k
<1>7. Rowids(w)
  <2> SUFFICES ASSUME NEW p \in DataPages, NEW q \in DataPages,
                      NEW s \in Live(w[p]), NEW r \in Live(w[q])
               PROVE  /\ w[p].slots[s] = w[q].slots[r] => p = q /\ s = r
                      /\ w[p].slots[s] <= w[0].slots[1]
    BY DEF Rowids
  <2>1. w[p].slots[s] = w[q].slots[r] => p = q /\ s = r
    BY <1>6 DEF Rowids
  <2>2. w[p].slots[s] <= w[0].slots[1]
    BY <1>2, <1>5, <1>6
  <2> QED BY <2>1, <2>2
<1>8. Grown(v, w)
  <2> SUFFICES ASSUME NEW p \in DataPages, NEW s \in DOMAIN v[p].slots
               PROVE  s \in DOMAIN w[p].slots /\ w[p].slots[s] \in {v[p].slots[s], Tomb}
    BY DEF Grown
  <2>1. v[p].slots \in Seq(Nat)
    BY <1>1
  <2>2. CASE p = n
    <3>1. w[p].slots = Append(v[p].slots, row)
      BY <2>2
    <3> QED BY <1>2, <2>1, <3>1
  <2>3. CASE p # n
    BY <2>3
  <2> QED BY <2>2, <2>3
<1>9. ScanRows(w) = ScanRows(v) \cup {row}
  <2>1. ScanRows(v) = {x \in Nat : \E p \in DataPages : \E s \in Live(v[p]) : x = v[p].slots[s]}
    BY ScanIsLive
  <2>2. ScanRows(w) = {x \in Nat : \E p \in DataPages : \E s \in Live(w[p]) : x = w[p].slots[s]}
    BY ScanIsLive
  <2>3. ASSUME NEW x \in ScanRows(w) PROVE x \in ScanRows(v) \cup {row}
    <3>1. PICK p \in DataPages : \E s \in Live(w[p]) : x = w[p].slots[s]
      BY <2>2, <2>3
    <3>2. PICK s \in Live(w[p]) : x = w[p].slots[s]
      BY <3>1
    <3>3. x \in Nat
      BY <2>2, <2>3
    <3> QED BY <1>6, <2>1, <3>2, <3>3
  <2>4. ASSUME NEW x \in ScanRows(v) PROVE x \in ScanRows(w)
    <3>1. PICK p \in DataPages : \E s \in Live(v[p]) : x = v[p].slots[s]
      BY <2>1, <2>4
    <3>2. PICK s \in Live(v[p]) : x = v[p].slots[s]
      BY <3>1
    <3>3. s \in Live(w[p]) /\ x = w[p].slots[s]
      BY <1>3, <1>4, <3>2
    <3>4. x \in Nat
      BY <2>1, <2>4
    <3> QED BY <2>2, <3>3, <3>4
  <2>5. row \in ScanRows(w)
    <3>1. k \in Live(w[n]) /\ row = w[n].slots[k]
      BY <1>3
    <3> QED BY <1>2, <2>2, <3>1
  <2> QED BY <2>3, <2>4, <2>5
<1> QED BY <1>7, <1>8, <1>9

\* A page with other slots, or another next_page.
LEMMA PageFields ==
  ASSUME NEW g \in Page
  PROVE  /\ \A x \in Seq(Nat) : LET h == [g EXCEPT !.slots = x]
                                IN h \in Page /\ h.kind = g.kind /\ h.slots = x /\ h.next = g.next
         /\ \A n \in Nos : LET h == [g EXCEPT !.next = n]
                           IN h \in Page /\ h.kind = g.kind /\ h.slots = g.slots /\ h.next = n
BY DEF Page

\* A fresh heap page.
LEMMA NewHeapPage ==
  NewHeap \in Page /\ NewHeap.kind = "heap" /\ NewHeap.next = 0 /\ NewHeap.slots = <<>>
<1>1. 0 \in Nos
  BY ConstantsOK DEF Nos
<1> QED BY <1>1 DEF NewHeap, Page

\* heap_append adds a slot and nothing else.
LEMMA HeapAppendPage ==
  ASSUME NEW g \in Page, NEW row \in Nat
  PROVE  LET h == HeapAppend(g, row)
         IN /\ h \in Page /\ h.kind = g.kind /\ h.next = g.next
            /\ h.slots = Append(g.slots, row)
<1>1. g.slots \in Seq(Nat) /\ Append(g.slots, row) \in Seq(Nat)
  BY DEF Page
<1> QED BY <1>1, PageFields DEF HeapAppend

\* The file with one row more, on the page n.
Inserted(v, w, n, row) ==
  /\ Shape(w) /\ End(w, n)
  /\ w[0].slots = <<row>> /\ w[n].slots = Append(v[n].slots, row)
  /\ \A p \in DataPages \ {n} : w[p].slots = v[p].slots

\* insert_row with room on the tail page.
LEMMA InsertIntoTail ==
  ASSUME NEW v, Shape(v), NEW e \in DataPages, End(v, e), NEW row \in Nat
  PROVE  LET v1 == [v EXCEPT ![0].slots = <<row>>]
         IN Inserted(v, [v1 EXCEPT ![e] = HeapAppend(@, row)], e, row)
<1> USE ConstantsOK
<1> DEFINE h0 == [v[0] EXCEPT !.slots = <<row>>]
           h1 == HeapAppend(v[e], row)
           v1 == [v EXCEPT ![0].slots = <<row>>]
           w == [v1 EXCEPT ![e] = HeapAppend(@, row)]
<1>1. v \in [Nos -> Page] /\ 0 \in Nos /\ e \in Nos /\ e # 0 /\ DataPages = Nos \ {0}
  BY DEF Shape, Nos, DataPages
<1>2. /\ w[0] = h0 /\ w[e] = h1 /\ DOMAIN w = Nos
      /\ \A p \in Nos \ {0, e} : w[p] = v[p]
  BY <1>1
<1>3. h0 \in Page /\ h0.kind = v[0].kind /\ h0.slots = <<row>> /\ h0.next = v[0].next
  <2>1. <<row>> \in Seq(Nat) /\ v[0] \in Page
    BY <1>1
  <2> QED BY <2>1, PageFields
<1>4. /\ h1 \in Page /\ h1.kind = v[e].kind /\ h1.next = v[e].next
      /\ h1.slots = Append(v[e].slots, row)
  BY <1>1, HeapAppendPage
<1>5. w = [p \in Nos |-> w[p]]
  BY <1>1
<1> HIDE DEF w, h0, h1
<1>6. w \in [Nos -> Page]
  BY <1>1, <1>2, <1>3, <1>4, <1>5
<1>7. Chain(w) = Chain(v)
  <2>1. \A p \in Nos : w[p].next = v[p].next
    BY <1>2, <1>3, <1>4
  <2> QED BY <2>1, SameChain
<1>8. Used(w) = Used(v)
  <2>1. e \in Used(v) /\ v[e].kind = "heap"
    BY <1>1 DEF End, Shape
  <2>2. w[e] # ZeroPage
    BY <1>2, <1>4, <2>1 DEF ZeroPage
  <2>3. \A p \in DataPages : w[p] = ZeroPage <=> v[p] = ZeroPage
    BY <1>1, <1>2, <2>1, <2>2 DEF Used
  <2> QED BY <2>3 DEF Used
<1>9. End(w, e)
  BY <1>2, <1>4, <1>8 DEF End
<1>10. Shape(w)
  <2>1. w[0].kind = "header" /\ Len(w[0].slots) = 1
    BY <1>2, <1>3 DEF Shape
  <2>2. \A p \in Used(w) : w[p].kind = "heap"
    BY <1>1, <1>2, <1>4, <1>8 DEF Shape, Used
  <2> QED BY <1>1, <1>6, <1>7, <1>8, <1>9, <2>1, <2>2 DEF Shape
<1>11. \A p \in DataPages \ {e} : w[p].slots = v[p].slots
  BY <1>1, <1>2
<1>12. w[0].slots = <<row>> /\ w[e].slots = Append(v[e].slots, row)
  BY <1>2, <1>3, <1>4
<1>13. Inserted(v, w, e, row)
  BY <1>9, <1>10, <1>11, <1>12 DEF Inserted
<1> QED BY <1>13 DEF w

\* insert_row with a new page behind the tail page, or as the first page.
LEMMA InsertIntoNewPage ==
  ASSUME NEW v, Shape(v), NEW e \in Nos, End(v, e), NEW n \in DataPages, n > e, NEW row \in Nat,
         NEW w, w \in [Nos -> Page],
         w[0].kind = "header", w[0].slots = <<row>>,
         \A p \in DataPages \ {n} : w[p].kind = v[p].kind /\ w[p].slots = v[p].slots,
         \A p \in DataPages \ {e, n} : w[p] = v[p],
         \A p \in Nos \ {e, n} : w[p].next = v[p].next,
         w[e].next = n, w[n] = HeapAppend(NewHeap, row)
  PROVE  Inserted(v, w, n, row)
<1> USE ConstantsOK
<1>1. v \in [Nos -> Page] /\ 0 \in Nos /\ n \in Nos /\ DataPages = Nos \ {0}
  BY DEF Shape, Nos, DataPages
<1>2. NewHeap \in Page /\ NewHeap.kind = "heap" /\ NewHeap.next = 0 /\ NewHeap.slots = <<>>
  BY NewHeapPage
<1>3. w[n].kind = "heap" /\ w[n].next = 0 /\ w[n].slots = Append(<<>>, row)
  <2>1. /\ HeapAppend(NewHeap, row).kind = NewHeap.kind
        /\ HeapAppend(NewHeap, row).next = NewHeap.next
        /\ HeapAppend(NewHeap, row).slots = Append(NewHeap.slots, row)
    BY <1>2, HeapAppendPage
  <2> QED BY <1>2, <2>1
<1>4. n \notin Used(v) /\ v[n] = ZeroPage /\ v[n].slots = <<>>
  BY <1>1 DEF End, Used, ZeroPage, Nos
<1>5. Used(w) = Used(v) \cup {n}
  <2>1. w[n] # ZeroPage
    BY <1>3 DEF ZeroPage
  <2>2. ASSUME NEW p \in DataPages \ {n} PROVE w[p] = ZeroPage <=> v[p] = ZeroPage
    <3>1. CASE p = e
      <4>1. v[e].kind = "heap"
        BY <2>2, <3>1 DEF End, Shape, DataPages
      <4> QED BY <2>2, <3>1, <4>1 DEF ZeroPage
    <3>2. CASE p # e
      BY <2>2, <3>2
    <3> QED BY <3>1, <3>2
  <2> QED BY <1>1, <2>1, <2>2 DEF Used
<1>6. Chain(w) = Used(w) /\ End(w, n)
  BY <1>1, <1>3, <1>5, ChainGrows DEF Shape
<1>7. Shape(w)
  <2>1. \A p \in Used(w) : w[p].kind = "heap"
    BY <1>3, <1>5 DEF Shape, Used
  <2>2. Len(w[0].slots) = 1
    OBVIOUS
  <2> QED BY <1>1, <1>6, <2>1, <2>2 DEF Shape
<1> QED BY <1>3, <1>4, <1>6, <1>7 DEF Inserted

\* insert_row keeps the invariant: the row joins the scan, on the chain.
LEMMA InsertInv == ASSUME Inv, InsertRow, ~spoilt' PROVE Inv'
<1> USE ConstantsOK
<1> DEFINE v   == View
           row == NextRowid
           t0   == IF tail # NoTail THEN tail ELSE DiskTailPage
           t1   == IF t0 = 0 THEN 1 ELSE t0
           v1   == [v EXCEPT ![0].slots = <<row>>]
           v2   == IF t0 = 0 THEN [v1 EXCEPT ![1] = NewHeap, ![0].next = 1] ELSE v1
           full == ~Room(v2[t1])
           new  == Max({size, t1 + 1})
           v3   == IF full THEN [v2 EXCEPT ![new] = NewHeap, ![t1].next = new] ELSE v2
           t2   == IF full THEN new ELSE t1
           w    == [v3 EXCEPT ![t2] = HeapAppend(@, row)]
<1>1. /\ txn /\ (full => new <= MaxPage) /\ Change(w) /\ tail' = t2
      /\ tailUndo' = Append(tailUndo, tail) /\ rows' = rows \cup {row}
      /\ UNCHANGED <<disk, size, txn, logged, committed, rows0, stolen, residue>>
  BY DEF InsertRow
<1>2. End(v, t0) /\ Shape(v) /\ Rowids(v) /\ v \in [Nos -> Page]
  <2>1. ~(tail = NoTail /\ Misled)
    BY DEF InsertRow
  <2> QED BY <2>1, TailIsEnd DEF Inv, Shape
<1>3. 0 \in Nos /\ 1 \in Nos /\ DataPages = Nos \ {0} /\ t0 \in Nos
  BY <1>2 DEF Nos, DataPages, End, Used
<1>4. row \in Nat /\ row = v[0].slots[1] + 1
  <2>1. v[0].slots \in Seq(Nat) /\ Len(v[0].slots) = 1
    BY <1>2, <1>3 DEF Page, Shape
  <2> QED BY <2>1 DEF NextRowid
<1>5. size \in Nat /\ size >= 1
  BY DEF Inv, TypeOK
<1> DEFINE h0 == [v[0] EXCEPT !.slots = <<row>>]
<1> HIDE DEF v, row, t0
<1>6. h0 \in Page /\ h0.kind = "header" /\ h0.slots = <<row>> /\ h0.next = v[0].next
  <2>1. <<row>> \in Seq(Nat) /\ v[0] \in Page /\ v[0].kind = "header"
    BY <1>2, <1>3, <1>4 DEF Shape
  <2> QED BY <2>1, PageFields
<1>7. Inserted(v, w, t2, row) /\ t2 \in DataPages
  <2>1. CASE t0 # 0 /\ ~full
    <3>1. t2 = t0 /\ w = [v1 EXCEPT ![t0] = HeapAppend(@, row)] /\ t0 \in DataPages
      BY <1>3, <2>1
    <3>2. Inserted(v, [v1 EXCEPT ![t0] = HeapAppend(@, row)], t0, row)
      <4> HIDE DEF w, t2
      <4> QED BY <1>2, <1>4, <3>1, InsertIntoTail
    <3> HIDE DEF w, t2, v1
    <3> QED BY <3>1, <3>2
  <2>2. CASE t0 # 0 /\ full
    <3>1. t1 = t0 /\ t2 = new /\ t0 \in Nat /\ t0 \in DataPages
      BY <1>3, <2>2 DEF Nos
    <3>2. new > t0 /\ new \in DataPages
      <4>1. new \in {size, t0 + 1} /\ new >= t0 + 1
        <5>1. \E m \in {size, t0 + 1} : \A y \in {size, t0 + 1} : m >= y
          BY <1>5, <3>1
        <5> QED BY <1>5, <3>1, <5>1 DEF Max
      <4> QED BY <1>1, <1>3, <1>5, <2>2, <3>1, <4>1 DEF Nos
    <3> DEFINE h1 == [v[t0] EXCEPT !.next = new]
               h2 == HeapAppend(NewHeap, row)
    <3>3. w = [[[v1 EXCEPT ![new] = NewHeap] EXCEPT ![t0].next = new] EXCEPT ![new] = HeapAppend(@, row)]
      BY <2>2, <3>1
    <3> HIDE DEF new
    <3>4. /\ w[0] = h0 /\ w[t0] = h1 /\ w[new] = h2 /\ DOMAIN w = Nos
          /\ \A p \in Nos \ {0, t0, new} : w[p] = v[p]
      BY <1>2, <1>3, <3>1, <3>2, <3>3
    <3>5. h1 \in Page /\ h1.kind = v[t0].kind /\ h1.slots = v[t0].slots /\ h1.next = new
      BY <1>2, <1>3, <3>2, PageFields
    <3>6. h2 \in Page
      BY <1>4, NewHeapPage, HeapAppendPage
    <3>7. w = [p \in Nos |-> w[p]]
      BY <1>2, <3>3
    <3> HIDE DEF w, h0, h1, h2
    <3>8. w \in [Nos -> Page]
      BY <1>2, <1>3, <1>6, <3>4, <3>5, <3>6, <3>7
    <3>9. /\ \A p \in DataPages \ {new} : w[p].kind = v[p].kind /\ w[p].slots = v[p].slots
          /\ \A p \in DataPages \ {t0, new} : w[p] = v[p]
          /\ \A p \in Nos \ {t0, new} : w[p].next = v[p].next
      BY <1>3, <1>6, <3>4, <3>5
    <3>10. w[0].kind = "header" /\ w[0].slots = <<row>> /\ w[t0].next = new
      BY <1>6, <3>4, <3>5
    <3> QED BY <1>2, <1>3, <1>4, <3>1, <3>2, <3>4, <3>8, <3>9, <3>10, InsertIntoNewPage DEF h2
  <2>3. CASE t0 = 0
    <3>1. v2 = [v1 EXCEPT ![1] = NewHeap, ![0].next = 1] /\ t1 = 1
      BY <2>3
    <3>2. v2[1] = NewHeap
      BY <1>2, <1>3, <3>1
    <3>3. ~full
      BY <3>1, <3>2 DEF Room, NewHeap
    <3>4. t2 = 1 /\ w = [v2 EXCEPT ![1] = HeapAppend(@, row)]
      BY <3>1, <3>3
    <3> DEFINE h1 == [h0 EXCEPT !.next = 1]
               h2 == HeapAppend(NewHeap, row)
    <3>5. /\ w[0] = h1 /\ w[1] = h2 /\ DOMAIN w = Nos
          /\ \A p \in Nos \ {0, 1} : w[p] = v[p]
      <4>1. /\ v1 \in [Nos -> Page] /\ v1[0] = h0 /\ \A p \in Nos \ {0} : v1[p] = v[p]
        BY <1>2, <1>3, <1>6
      <4> HIDE DEF v1, h0, w, v2, h1, h2
      <4>2. v2[0] = [h0 EXCEPT !.next = 1] /\ DOMAIN v2 = Nos /\ \A p \in Nos \ {0, 1} : v2[p] = v[p]
        BY <1>3, <3>1, <4>1
      <4>3. w[0] = v2[0] /\ w[1] = HeapAppend(NewHeap, row) /\ \A p \in Nos \ {0, 1} : w[p] = v2[p]
        BY <1>3, <3>2, <3>4, <4>2
      <4>4. DOMAIN w = Nos
        BY <3>4, <4>2
      <4> QED BY <4>2, <4>3, <4>4 DEF h1, h2
    <3>6. w = [p \in Nos |-> w[p]]
      BY <1>2, <3>1, <3>4
    <3> HIDE DEF h0
    <3>7. h1 \in Page /\ h1.kind = "header" /\ h1.slots = <<row>> /\ h1.next = 1
      BY <1>3, <1>6, PageFields
    <3>8. h2 \in Page
      BY <1>4, NewHeapPage, HeapAppendPage
    <3> HIDE DEF w, h1, h2
    <3>9. w \in [Nos -> Page]
      BY <1>2, <1>3, <3>5, <3>6, <3>7, <3>8
    <3>10. 1 \in DataPages /\ 1 > t0 /\ t0 \in Nos
      BY <1>3, <2>3
    <3>11. /\ \A p \in DataPages \ {1} : w[p].kind = v[p].kind /\ w[p].slots = v[p].slots
           /\ \A p \in DataPages \ {t0, 1} : w[p] = v[p]
           /\ \A p \in Nos \ {t0, 1} : w[p].next = v[p].next
      BY <1>3, <2>3, <3>5
    <3>12. w[0].kind = "header" /\ w[0].slots = <<row>> /\ w[t0].next = 1 /\ w[1] = h2
      BY <2>3, <3>5, <3>7
    <3> HIDE DEF t2
    <3>13. Inserted(v, w, 1, row)
      BY <1>2, <1>4, <3>9, <3>10, <3>11, <3>12, InsertIntoNewPage DEF h2
    <3> QED BY <3>4, <3>10, <3>13
  <2> QED BY <2>1, <2>2, <2>3
<1> HIDE DEF w, t2
<1>8. Shape(w) /\ End(w, t2) /\ w \in [Nos -> Page]
  BY <1>7 DEF Inserted, Shape
<1>9. Rowids(w) /\ Grown(v, w) /\ ScanRows(w) = ScanRows(v) \cup {row}
  <2>1. /\ w[0].slots = <<row>> /\ w[t2].slots = Append(v[t2].slots, row)
        /\ \A p \in DataPages \ {t2} : w[p].slots = v[p].slots
    BY <1>7 DEF Inserted
  <2>2. Shape(v) /\ Rowids(v) /\ Shape(w) /\ w \in [Nos -> Page] /\ t2 \in DataPages /\ row = v[0].slots[1] + 1
    BY <1>2, <1>4, <1>7, <1>8
  <2> HIDE DEF v1, v2, v3, full, new, t1, h0
  <2> QED BY ONLY <2>1, <2>2, AppendedRow, SMTT(30)
<1>10. tailUndo' \in Seq(Nos) /\ (IF tailUndo' = <<>> THEN tail' ELSE Head(tailUndo'))
                                   = (IF tailUndo = <<>> THEN tail ELSE Head(tailUndo))
  BY <1>1 DEF Inv, TypeOK
<1>11. tail' \in Nos /\ TailOK(w, tail', residue)
  BY <1>1, <1>3, <1>7, <1>8 DEF TailOK, NoTail
<1>12. ScanRows(w) = rows'
  BY <1>1, <1>9 DEF Inv, RowInv, v
<1>13. Grown(View, w)
  BY <1>9 DEF v
<1> QED BY <1>1, <1>8, <1>9, <1>10, <1>11, <1>12, <1>13, StatementInv

-----------------------------------------------------------------------------
(* delete_row, delete_all_rows *)

\* Some slots of v have become tombstones.
Buried(v, w) ==
  /\ w \in [Nos -> Page] /\ w[0] = v[0]
  /\ \A p \in DataPages :
       /\ w[p].kind = v[p].kind /\ w[p].next = v[p].next
       /\ v[p] = ZeroPage => w[p] = v[p]
       /\ DOMAIN w[p].slots = DOMAIN v[p].slots
       /\ \A s \in DOMAIN v[p].slots : w[p].slots[s] \in {v[p].slots[s], Tomb}

\* Tombstones change neither the chain nor the rowids of the other rows.
LEMMA BuriedShape ==
  ASSUME NEW v, NEW w, Shape(v), Rowids(v), Buried(v, w)
  PROVE  /\ Shape(w) /\ Rowids(w) /\ Grown(v, w) /\ Used(w) = Used(v)
         /\ \A e : End(v, e) => End(w, e)
         /\ \A p \in DataPages : Live(w[p]) \subseteq Live(v[p])
         /\ \A p \in DataPages : \A s \in Live(w[p]) : w[p].slots[s] = v[p].slots[s]
<1> USE ConstantsOK
<1>1. v \in [Nos -> Page] /\ w \in [Nos -> Page] /\ 0 \in Nos /\ DataPages = Nos \ {0}
  BY DEF Shape, Buried, Nos, DataPages
<1>2. \A p \in Nos : w[p].next = v[p].next /\ w[p].kind = v[p].kind
  BY <1>1 DEF Buried
<1>3. Chain(w) = Chain(v)
  BY <1>2, SameChain
<1>4. Used(w) = Used(v)
  <2>1. \A p \in DataPages : v[p] = ZeroPage <=> w[p] = ZeroPage
    BY <1>1, <1>2 DEF Buried, Shape, Used, ZeroPage
  <2> QED BY <2>1 DEF Used
<1>5. ASSUME NEW e, End(v, e) PROVE End(w, e)
  BY <1>1, <1>2, <1>4, <1>5 DEF End, Used
<1>6. Shape(w)
  <2>1. w[0].kind = "header" /\ Len(w[0].slots) = 1
    BY DEF Buried, Shape
  <2>2. \A p \in Used(w) : w[p].kind = "heap"
    BY <1>1, <1>2, <1>4 DEF Shape, Used
  <2> QED BY <1>1, <1>3, <1>4, <1>5, <2>1, <2>2 DEF Shape
<1>7. \A p \in DataPages : v[p].slots \in Seq(Nat) /\ w[p].slots \in Seq(Nat)
  BY <1>1 DEF Page
<1>8. \A p \in DataPages : \A s \in Live(w[p]) : s \in Live(v[p]) /\ w[p].slots[s] = v[p].slots[s]
  BY <1>7 DEF Live, Buried
<1>9. Rowids(w)
  BY <1>8 DEF Rowids, Buried
<1>10. Grown(v, w)
  BY DEF Buried, Grown
<1> QED BY <1>4, <1>5, <1>6, <1>8, <1>9, <1>10

\* What a delete has to show.
LEMMA BuriedInv ==
  ASSUME Inv, txn, NEW w, Buried(View, w), Change(w), ScanRows(w) = rows',
         UNCHANGED <<disk, size, txn, tail, tailUndo, logged, committed, rows0, stolen, residue>>
  PROVE  Inv'
<1>1. /\ Shape(w) /\ Rowids(w) /\ Grown(View, w) /\ Used(w) = Used(View)
      /\ \A e : End(View, e) => End(w, e)
  BY BuriedShape DEF Inv
<1>2. \A p \in DataPages : w[p] = ZeroPage <=> View[p] = ZeroPage
  BY <1>1 DEF Used
<1>3. TailOK(w, tail', residue)
  BY <1>1, <1>2 DEF Inv, TailInv, TailOK
<1>4. tail' \in Nos /\ tailUndo' \in Seq(Nos)
  BY DEF Inv, TypeOK
<1> QED BY <1>1, <1>3, <1>4, StatementInv

\* delete_row takes exactly its row out of the scan.
LEMMA DeleteInv ==
  ASSUME Inv, NEW p \in DataPages, NEW s, DeleteRow(p, s)
  PROVE  Inv'
<1> USE ConstantsOK
<1> DEFINE v == View
           x == [v[p].slots EXCEPT ![s] = Tomb]
           g == [v[p] EXCEPT !.slots = x]
           w == [View EXCEPT ![p].slots[s] = Tomb]
<1>1. /\ txn /\ s \in Live(v[p]) /\ Change(w) /\ rows' = rows \ {v[p].slots[s]}
      /\ UNCHANGED <<disk, size, txn, tail, tailUndo, logged, committed, rows0, stolen, residue>>
  BY DEF DeleteRow
<1>2. Shape(v) /\ Rowids(v) /\ v \in [Nos -> Page] /\ 0 \in Nos /\ p \in Nos /\ p # 0 /\ DataPages = Nos \ {0}
  BY DEF Inv, Shape, Nos, DataPages
<1> HIDE DEF v
<1>3. v[p] \in Page /\ v[p].slots \in Seq(Nat) /\ s \in DOMAIN v[p].slots
  BY <1>1, <1>2 DEF Page, Live
<1>4. x \in Seq(Nat) /\ DOMAIN x = DOMAIN v[p].slots
      /\ \A r \in DOMAIN v[p].slots : x[r] = IF r = s THEN Tomb ELSE v[p].slots[r]
  BY <1>3 DEF Tomb
<1> HIDE DEF x
<1>5. g \in Page /\ g.kind = v[p].kind /\ g.slots = x /\ g.next = v[p].next
  BY <1>3, <1>4, PageFields
<1>6. w = [v EXCEPT ![p] = g]
  BY DEF v, x
<1> HIDE DEF g, w
<1>7. w \in [Nos -> Page] /\ w[p] = g /\ \A q \in Nos \ {p} : w[q] = v[q]
  BY <1>2, <1>5, <1>6
<1>8. v[p] # ZeroPage
  BY <1>3 DEF ZeroPage
<1>9. Buried(v, w)
  <2> SUFFICES ASSUME NEW q \in DataPages
               PROVE  /\ w[q].kind = v[q].kind /\ w[q].next = v[q].next
                      /\ v[q] = ZeroPage => w[q] = v[q]
                      /\ DOMAIN w[q].slots = DOMAIN v[q].slots
                      /\ \A r \in DOMAIN v[q].slots : w[q].slots[r] \in {v[q].slots[r], Tomb}
    BY <1>2, <1>7 DEF Buried
  <2>1. CASE q = p
    BY <1>4, <1>5, <1>7, <1>8, <2>1
  <2>2. CASE q # p
    BY <1>2, <1>7, <2>2
  <2> QED BY <2>1, <2>2
<1>10. ScanRows(w) = ScanRows(v) \ {v[p].slots[s]}
  <2>1. Shape(w)
    BY <1>2, <1>9, BuriedShape
  <2>2. ScanRows(v) = {y \in Nat : \E q \in DataPages : \E r \in Live(v[q]) : y = v[q].slots[r]}
    BY <1>2, ScanIsLive
  <2>3. ScanRows(w) = {y \in Nat : \E q \in DataPages : \E r \in Live(w[q]) : y = w[q].slots[r]}
    BY <2>1, ScanIsLive
  <2>4. \A q \in DataPages : v[q].slots \in Seq(Nat) /\ w[q].slots \in Seq(Nat)
    BY <1>2, <1>7 DEF Page
  <2>5. ASSUME NEW y \in ScanRows(w) PROVE y \in ScanRows(v) /\ y # v[p].slots[s]
    <3>1. PICK q \in DataPages : \E r \in Live(w[q]) : y = w[q].slots[r]
      BY <2>3, <2>5
    <3>2. PICK r \in Live(w[q]) : y = w[q].slots[r]
      BY <3>1
    <3>3. r \in Live(v[q]) /\ y = v[q].slots[r]
      BY <1>2, <1>9, <3>2, BuriedShape
    <3>4. ~(q = p /\ r = s)
      BY <1>3, <1>4, <1>5, <1>7, <3>2 DEF Live
    <3>5. y # v[p].slots[s]
      BY <1>1, <1>2, <3>3, <3>4 DEF Rowids
    <3>6. y \in Nat
      BY <2>3, <2>5
    <3> QED BY <2>2, <3>3, <3>5, <3>6
  <2>6. ASSUME NEW y \in ScanRows(v), y # v[p].slots[s] PROVE y \in ScanRows(w)
    <3>1. PICK q \in DataPages : \E r \in Live(v[q]) : y = v[q].slots[r]
      BY <2>2, <2>6
    <3>2. PICK r \in Live(v[q]) : y = v[q].slots[r]
      BY <3>1
    <3>3. y \in Nat
      BY <2>2, <2>6
    <3>4. r \in Live(w[q]) /\ y = w[q].slots[r]
      <4>1. CASE q = p
        <5>1. r # s /\ r \in DOMAIN v[p].slots
          BY <2>4, <2>6, <3>2, <4>1 DEF Live
        <5>2. w[q].slots = x /\ x[r] = v[p].slots[r]
          BY <1>4, <1>5, <1>7, <4>1, <5>1
        <5> QED BY <1>3, <1>4, <3>2, <4>1, <5>1, <5>2 DEF Live
      <4>2. CASE q # p
        BY <1>2, <1>7, <3>2, <4>2
      <4> QED BY <4>1, <4>2
    <3> QED BY <2>3, <3>3, <3>4
  <2> QED BY <2>5, <2>6
<1>11. ScanRows(w) = rows'
  BY <1>1, <1>10 DEF Inv, RowInv, v
<1>12. Buried(View, w)
  BY <1>9 DEF v
<1> QED BY <1>1, <1>11, <1>12, BuriedInv

\* delete_all_rows empties the scan.
LEMMA DeleteAllInv == ASSUME Inv, DeleteAllRows PROVE Inv'
<1> USE ConstantsOK
<1> DEFINE v == View
           tombs(p) == [s \in DOMAIN v[p].slots |-> Tomb]
           w == [p \in Nos |-> IF p \in Chain(v)
                               THEN [v[p] EXCEPT !.slots = [s \in DOMAIN @ |-> Tomb]] ELSE v[p]]
<1>1. /\ txn /\ Change(w) /\ rows' = {}
      /\ UNCHANGED <<disk, size, txn, tail, tailUndo, logged, committed, rows0, stolen, residue>>
  BY DEF DeleteAllRows
<1>2. Shape(v) /\ Rowids(v) /\ v \in [Nos -> Page] /\ 0 \in Nos /\ DataPages = Nos \ {0}
  BY DEF Inv, Shape, Nos, DataPages
<1>3. Chain(v) = Used(v) /\ \A p \in Chain(v) : p \in DataPages
  BY <1>2 DEF Shape, Used
<1> HIDE DEF v
<1>4. ASSUME NEW p \in Chain(v)
      PROVE  /\ w[p] \in Page /\ w[p].kind = v[p].kind /\ w[p].next = v[p].next
             /\ w[p].slots = tombs(p)
  <2>1. v[p] \in Page /\ v[p].slots \in Seq(Nat) /\ p \in Nos
    BY <1>2, <1>3, <1>4 DEF Page
  <2>2. tombs(p) \in Seq(Nat)
    BY <2>1 DEF Tomb
  <2>3. w[p] = [v[p] EXCEPT !.slots = tombs(p)]
    BY <1>4, <2>1
  <2> HIDE DEF tombs, w
  <2> QED BY <2>1, <2>2, <2>3, PageFields
<1>5. \A p \in Nos \ Chain(v) : w[p] = v[p]
  OBVIOUS
<1>6. w = [p \in Nos |-> w[p]]
  OBVIOUS
<1> HIDE DEF w
<1>7. w \in [Nos -> Page]
  BY <1>2, <1>4, <1>5, <1>6
<1>8. Buried(v, w)
  <2>1. w[0] = v[0]
    BY <1>2, <1>3, <1>5
  <2>2. ASSUME NEW p \in DataPages
        PROVE  /\ w[p].kind = v[p].kind /\ w[p].next = v[p].next
               /\ v[p] = ZeroPage => w[p] = v[p]
               /\ DOMAIN w[p].slots = DOMAIN v[p].slots
               /\ \A s \in DOMAIN v[p].slots : w[p].slots[s] \in {v[p].slots[s], Tomb}
    <3>1. CASE p \in Chain(v)
      BY <1>3, <1>4, <3>1 DEF Used
    <3>2. CASE p \notin Chain(v)
      BY <1>2, <1>5, <3>2
    <3> QED BY <3>1, <3>2
  <2> QED BY <1>7, <2>1, <2>2 DEF Buried
<1>9. ScanRows(w) = {}
  <2>1. Shape(w)
    BY <1>2, <1>8, BuriedShape
  <2>2. ScanRows(w) = {y \in Nat : \E q \in DataPages : \E r \in Live(w[q]) : y = w[q].slots[r]}
    BY <2>1, ScanIsLive
  <2>3. ASSUME NEW q \in DataPages PROVE Live(w[q]) = {}
    <3>0. w[q].slots \in Seq(Nat)
      BY <1>2, <1>7 DEF Page
    <3>1. CASE q \in Chain(v)
      <4>1. \A s \in DOMAIN w[q].slots : w[q].slots[s] = Tomb
        BY <1>4, <3>1
      <4>2. DOMAIN w[q].slots = 1..Len(w[q].slots)
        BY <3>0
      <4> QED BY <4>1, <4>2 DEF Live
    <3>2. CASE q \notin Chain(v)
      <4>1. w[q] = ZeroPage
        BY <1>2, <1>3, <1>5, <3>2 DEF Used
      <4> QED BY <4>1 DEF Live, ZeroPage
    <3> QED BY <3>1, <3>2
  <2> QED BY <2>2, <2>3
<1>10. Buried(View, w) /\ ScanRows(w) = rows'
  BY <1>1, <1>8, <1>9 DEF v
<1> QED BY <1>1, <1>10, BuriedInv

-----------------------------------------------------------------------------
(* Transactions, the pool and restarts *)

\* The initial state: a header page and nothing else.
LEMMA InitInv == Init => Inv
<1> USE ConstantsOK
<1> SUFFICES ASSUME Init PROVE Inv
  OBVIOUS
<1>0. 0 \in Nos /\ DataPages = Nos \ {0}
  BY DEF Nos, DataPages
<1>1. ZeroPage \in Page /\ Header \in Page
  BY <1>0 DEF ZeroPage, Header, Page
<1>2. /\ disk \in [Nos -> Page] /\ disk[0] = Header /\ committed = disk
      /\ \A p \in DataPages : disk[p] = ZeroPage
  BY <1>0, <1>1 DEF Init
<1>3. /\ frame = [p \in Nos |-> NoPage] /\ saved = [p \in Nos |-> NoPage] /\ dirty = {}
      /\ txn = FALSE /\ tail = NoTail /\ tailUndo = <<>> /\ logged = {} /\ size = 1
      /\ rows = {} /\ rows0 = {} /\ stolen = {} /\ residue = {}
  BY DEF Init
<1>4. TypeOK
  BY <1>0, <1>2, <1>3 DEF TypeOK, NoTail
<1>5. View = disk
  <2>1. View = [p \in Nos |-> disk[p]]
    BY <1>3 DEF View
  <2> QED BY <1>2, <2>1
<1>6. Touched = {}
  BY <1>3 DEF Touched
<1>7. PoolInv
  BY <1>0, <1>2, <1>3, <1>5, <1>6 DEF PoolInv, Nos, DataPages
<1>8. Used(disk) = {} /\ disk[0].next = 0 /\ disk[0].kind = "header" /\ Len(disk[0].slots) = 1
  BY <1>2 DEF Used, Header
<1>9. End(disk, 0)
  BY <1>8 DEF End
<1>10. Chain(disk) = {}
  <2> SUFFICES ASSUME NEW p \in Nos \ {0}
               PROVE  \E S \in SUBSET (Nos \ {p}) : disk[0].next \in S /\ \A q \in S \ {0} : disk[q].next \in S
    BY DEF Chain
  <2>1. {0} \in SUBSET (Nos \ {p}) /\ disk[0].next \in {0} /\ \A q \in {0} \ {0} : disk[q].next \in {0}
    BY <1>0, <1>8
  <2> QED BY <2>1
<1>11. Shape(disk)
  BY <1>0, <1>2, <1>8, <1>9, <1>10 DEF Shape
<1>12. \A p \in DataPages : Live(disk[p]) = {}
  BY <1>2 DEF Live, ZeroPage
<1>13. Rowids(disk) /\ ScanRows(disk) = {}
  BY <1>10, <1>12 DEF Rowids, ScanRows
<1>14. RowInv
  BY <1>2, <1>3, <1>5, <1>13 DEF RowInv, Grown
<1>15. TailInv
  BY <1>2, <1>3, <1>5 DEF TailInv, TailOK
<1> QED BY <1>2, <1>4, <1>5, <1>7, <1>11, <1>13, <1>14, <1>15 DEF Inv

\* A step that keeps what readers see and what is committed.
LEMMA QuietInv ==
  ASSUME Inv, View' = View, UNCHANGED <<committed, rows, rows0>>,
         TypeOK', PoolInv', TailInv'
  PROVE  Inv'
BY DEF Inv, RowInv

\* BEGIN.
LEMMA BeginInv == ASSUME Inv, Begin PROVE Inv'
<1>1. View' = View /\ Touched' = Touched /\ txn' = TRUE
      /\ UNCHANGED <<disk, size, frame, dirty, saved, tail, tailUndo>>
      /\ UNCHANGED <<logged, committed, rows, rows0, stolen, residue>>
  BY DEF Begin, View, Touched, pages, history
<1>2. TypeOK' /\ TailInv'
  BY <1>1 DEF Inv, TypeOK, TailInv, TailOK
<1>3. PoolInv'
  BY <1>1 DEF Inv, PoolInv
<1> QED BY <1>1, <1>2, <1>3, QuietInv

\* The reader's cache.
LEMMA LoadInv == ASSUME Inv, NEW p \in Nos, Load(p) PROVE Inv'
<1>1. /\ frame[p] = NoPage /\ frame' = [frame EXCEPT ![p] = disk[p]]
      /\ UNCHANGED <<disk, size, dirty, txn, saved, tail, tailUndo>>
      /\ UNCHANGED <<logged, committed, rows, rows0, stolen, residue>>
  BY DEF Load, context, history
<1>2. TypeOK' /\ Touched' = Touched
  BY <1>1 DEF Inv, TypeOK, Touched
<1>3. \A q \in Nos : frame'[q] = IF q = p THEN disk[q] ELSE frame[q]
  BY <1>1 DEF Inv, TypeOK
<1>4. View' = View
  <2>1. \A q \in Nos : (IF frame'[q] # NoPage THEN frame'[q] ELSE disk'[q])
                         = (IF frame[q] # NoPage THEN frame[q] ELSE disk[q])
    BY <1>1, <1>3
  <2> QED BY <2>1 DEF View
<1>5. PoolInv'
  <2>1. \A q \in Nos : IF q \in dirty' THEN frame'[q] # NoPage ELSE frame'[q] \in {NoPage, disk'[q]}
    BY <1>1, <1>3 DEF Inv, PoolInv
  <2> QED BY <1>1, <1>2, <1>4, <2>1 DEF Inv, PoolInv
<1>6. TailInv'
  BY <1>1, <1>4 DEF Inv, TailInv, TailOK
<1> QED BY <1>1, <1>2, <1>4, <1>5, <1>6, QuietInv

\* The larger of two numbers.
LEMMA MaxOfTwo ==
  ASSUME NEW a \in Nat, NEW b \in Nat
  PROVE  Max({a, b}) = IF a >= b THEN a ELSE b
<1>1. CASE a >= b
  BY <1>1, MaxUnique
<1>2. CASE ~(a >= b)
  BY <1>2, MaxUnique
<1> QED BY <1>1, <1>2

\* Eviction: a page the open transaction has changed is stolen.
LEMMA EvictInv == ASSUME Inv, NEW p \in Nos, Evict(p) PROVE Inv'
<1> USE ConstantsOK
<1>1. /\ frame[p] # NoPage /\ frame' = [frame EXCEPT ![p] = NoPage]
      /\ dirty' = dirty \ {p}
      /\ disk' = IF p \in dirty THEN [disk EXCEPT ![p] = frame[p]] ELSE disk
      /\ size' = IF p \in dirty THEN Max({size, p + 1}) ELSE size
      /\ stolen' = (IF p \in dirty \cap Touched THEN stolen \cup {p} ELSE stolen)
      /\ residue' = residue \ {p}
      /\ UNCHANGED <<txn, saved, tail, tailUndo, logged, committed, rows, rows0>>
  BY DEF Evict, context
<1>2. /\ \A q \in Nos \ {p} : frame'[q] = frame[q] /\ disk'[q] = disk[q]
      /\ frame'[p] = NoPage /\ disk'[p] = frame[p]
  BY <1>1 DEF Inv, TypeOK, PoolInv
<1>3. size' \in 1..MaxPage + 1 /\ size' >= size /\ (p \in dirty => size' > p)
  <2>1. size \in 1..MaxPage + 1 /\ p \in 0..MaxPage
    BY DEF Inv, TypeOK, Nos
  <2>2. Max({size, p + 1}) = IF size >= p + 1 THEN size ELSE p + 1
    BY <2>1, MaxOfTwo
  <2> QED BY <1>1, <2>1, <2>2
<1>4. TypeOK'
  <2>1. disk' \in [Nos -> Page] /\ frame' \in [Nos -> Page \cup {NoPage}]
    BY <1>1 DEF Inv, TypeOK
  <2> QED BY <1>1, <1>3, <2>1 DEF Inv, TypeOK
<1>5. View' = View /\ Touched' = Touched
  <2>1. \A q \in Nos : (IF frame'[q] # NoPage THEN frame'[q] ELSE disk'[q])
                         = (IF frame[q] # NoPage THEN frame[q] ELSE disk[q])
    BY <1>1, <1>2
  <2> QED BY <1>1, <2>1 DEF View, Touched
<1>6. View[p] = frame[p] /\ (p \in Touched => p \in stolen') /\ (p \notin Touched => committed[p] = frame[p])
  <2>1. View[p] = frame[p]
    BY <1>1, ViewType DEF Inv
  <2>2. p \in Touched => p \in stolen'
    BY <1>1 DEF Inv, PoolInv
  <2> QED BY <1>1, <2>1, <2>2 DEF Inv, PoolInv
<1>7. PoolInv'
  <2>1. \A q \in Nos : IF q \in dirty' THEN frame'[q] # NoPage ELSE frame'[q] \in {NoPage, disk'[q]}
    BY <1>1, <1>2 DEF Inv, PoolInv
  <2>2. \A q \in Nos \ (logged' \cup residue' \cup stolen') : disk'[q] = committed'[q]
    <3> SUFFICES ASSUME NEW q \in Nos, q \notin logged, q \notin residue', q \notin stolen'
                 PROVE  disk'[q] = committed[q]
      BY <1>1
    <3>1. CASE q = p
      BY <1>2, <1>6, <3>1
    <3>2. CASE q # p
      BY <1>1, <1>2, <3>2 DEF Inv, PoolInv
    <3> QED BY <3>1, <3>2
  <2>3. \A q \in Nos : q >= size' => disk'[q] = ZeroPage /\ q \notin stolen'
    <3> SUFFICES ASSUME NEW q \in Nos, q >= size' PROVE disk'[q] = ZeroPage /\ q \notin stolen'
      OBVIOUS
    <3>1. q >= size
      BY <1>3 DEF Inv, TypeOK, Nos
    <3>2. CASE q = p /\ p \in dirty
      BY <1>3, <3>2 DEF Nos
    <3>3. CASE ~(q = p /\ p \in dirty)
      BY <1>1, <1>2, <3>1, <3>3 DEF Inv, PoolInv
    <3> QED BY <3>2, <3>3
  <2>4. Touched' \subseteq dirty' \cup stolen' /\ stolen' \subseteq Touched' /\ residue' \subseteq dirty'
    BY <1>1, <1>5, <1>6 DEF Inv, PoolInv
  <2>5. \A q \in Nos : IF q \in Touched' THEN saved'[q] = committed'[q] ELSE View'[q] = committed'[q]
    BY <1>1, <1>5 DEF Inv, PoolInv
  <2>6. ~txn' => Touched' = {} /\ tailUndo' = <<>> /\ stolen' = {}
    BY <1>1, <1>5 DEF Inv, PoolInv
  <2> QED BY <2>1, <2>2, <2>3, <2>4, <2>5, <2>6 DEF PoolInv
<1>8. TailInv'
  <2>1. ASSUME NEW v, NEW t, NEW X, NEW Y, TailOK(v, t, X), X \subseteq Y \cup {p},
               p \in Y \/ v[p] = frame[p]
        PROVE  IF t = NoTail THEN \A q \in DataPages \ Y : disk'[q] = ZeroPage <=> v[q] = ZeroPage
               ELSE End(v, t)
    BY <1>2, <2>1 DEF TailOK, DataPages
  <2>2. residue \subseteq residue' \cup {p} /\ residue \cup stolen \subseteq residue' \cup stolen' \cup {p}
    BY <1>1
  <2>3. TailOK(View, tail, residue) /\ TailOK(committed, IF tailUndo = <<>> THEN tail ELSE Head(tailUndo), residue \cup stolen)
    BY DEF Inv, TailInv
  <2>4. TailOK(View, tail, residue)'
    <3>1. IF tail = NoTail THEN \A q \in DataPages \ residue' : disk'[q] = ZeroPage <=> View[q] = ZeroPage
          ELSE End(View, tail)
      BY <1>6, <2>1, <2>2, <2>3
    <3> QED BY <1>1, <1>5, <3>1 DEF TailOK
  <2>5. TailOK(committed, IF tailUndo = <<>> THEN tail ELSE Head(tailUndo), residue \cup stolen)'
    <3> DEFINE t == IF tailUndo = <<>> THEN tail ELSE Head(tailUndo)
    <3>1. p \in residue' \cup stolen' \/ committed[p] = frame[p]
      BY <1>6
    <3> HIDE DEF t
    <3>2. TailOK(committed, t, residue \cup stolen)
      BY <2>3 DEF t
    <3>3. IF t = NoTail THEN \A q \in DataPages \ (residue' \cup stolen') : disk'[q] = ZeroPage <=> committed[q] = ZeroPage
          ELSE End(committed, t)
      BY <2>1, <2>2, <3>1, <3>2
    <3>4. t' = t /\ committed' = committed
      BY <1>1 DEF t
    <3>5. TailOK(committed, t, residue \cup stolen)'
      BY <3>3, <3>4 DEF TailOK
    <3> QED BY <3>5 DEF t
  <2> QED BY <2>4, <2>5 DEF TailInv
<1> QED BY <1>1, <1>4, <1>5, <1>7, <1>8, QuietInv

\* The undo lists between transactions.
LEMMA EmptyUndo ==
  /\ [p \in Nos |-> NoPage] \in [Nos -> Page \cup {NoPage}]
  /\ <<>> \in Seq(Nos) /\ FALSE \in BOOLEAN
OBVIOUS

\* COMMIT: what the transaction made becomes what is committed.
LEMMA CommitInv == ASSUME Inv, CommitTxn PROVE Inv'
<1>1. /\ txn' = FALSE /\ logged' = logged \cup Touched /\ saved' = [p \in Nos |-> NoPage]
      /\ tailUndo' = <<>> /\ committed' = View /\ rows0' = rows /\ stolen' = {}
      /\ UNCHANGED <<disk, size, frame, dirty, tail, rows, residue>>
  BY DEF CommitTxn, pages
<1>2. View' = View /\ Touched' = {}
  BY <1>1 DEF View, Touched
<1>3. View \in [Nos -> Page] /\ Touched \subseteq Nos
  BY ViewType DEF Inv, Touched
<1>4. TypeOK'
  BY <1>1, <1>3, EmptyUndo DEF Inv, TypeOK
<1>5. PoolInv'
  BY <1>1, <1>2 DEF Inv, PoolInv
<1>6. TailInv'
  BY <1>1, <1>2 DEF Inv, TailInv, TailOK
<1>7. RowInv'
  <2>1. \A p \in DataPages : \A s \in DOMAIN View[p].slots : View[p].slots[s] \in {View[p].slots[s], Tomb}
    OBVIOUS
  <2> QED BY <1>1, <1>2, <2>1 DEF Inv, RowInv, Grown
<1>8. (Shape(View) /\ Shape(committed) /\ Rowids(View) /\ Rowids(committed))'
  BY <1>1, <1>2 DEF Inv
<1> QED BY <1>4, <1>5, <1>6, <1>7, <1>8 DEF Inv

\* A step after which readers see the committed pages.
LEMMA BackInv ==
  ASSUME Inv, View' = committed, committed' = committed, rows' = rows0, rows0' = rows0,
         TypeOK', PoolInv', TailInv'
  PROVE  Inv'
<1>1. \A p \in DataPages : \A s \in DOMAIN committed[p].slots :
        committed[p].slots[s] \in {committed[p].slots[s], Tomb}
  OBVIOUS
<1>2. RowInv'
  BY <1>1 DEF Inv, RowInv, Grown
<1> QED BY <1>2 DEF Inv

\* ROLLBACK: the undo list holds the committed pages; a page without a frame is
\* one the file has, and gets its old content there.
LEMMA RollbackInv == ASSUME Inv, RollbackTxn PROVE Inv'
<1> DEFINE cached == {p \in Touched : frame[p] # NoPage}
<1>1. /\ txn' = FALSE
      /\ frame' = [p \in Nos |-> IF p \in cached THEN saved[p] ELSE frame[p]]
      /\ dirty' = dirty \cup cached
      /\ disk' = [p \in Nos |-> IF p \in Touched \ cached THEN saved[p] ELSE disk[p]]
      /\ saved' = [p \in Nos |-> NoPage] /\ tailUndo' = <<>>
      /\ tail' = (IF tailUndo = <<>> THEN tail ELSE Head(tailUndo))
      /\ rows' = rows0
      /\ stolen' = {} /\ residue' = residue \cup (stolen \cap cached)
      /\ UNCHANGED <<size, logged, committed, rows0>>
  BY DEF RollbackTxn
<1>2. /\ cached \subseteq Touched /\ Touched \subseteq Nos /\ Touched \ cached \subseteq stolen
      /\ \A p \in Nos : p \in cached <=> p \in Touched /\ frame[p] # NoPage
  BY DEF Inv, PoolInv, Touched
<1> HIDE DEF cached
<1>3. \A p \in Nos : disk'[p] = IF p \in Touched \ cached THEN committed[p] ELSE disk[p]
  BY <1>1, <1>2 DEF Inv, PoolInv
<1>4. Touched' = {} /\ dirty' = dirty \cup cached
  BY <1>1, <1>2 DEF Touched
<1>5. \A p \in Nos : frame'[p] = IF p \in cached THEN committed[p] ELSE frame[p]
  BY <1>1, <1>2 DEF Inv, PoolInv
<1>6. NoPage \notin Page /\ committed \in [Nos -> Page]
  BY ViewType DEF Inv, TypeOK
<1>7. View' = committed
  <2>1. \A p \in Nos : (IF frame'[p] # NoPage THEN frame'[p] ELSE disk'[p]) = committed[p]
    <3> TAKE p \in Nos
    <3>1. CASE p \in Touched
      BY <1>2, <1>3, <1>5, <1>6, <3>1
    <3>2. CASE p \notin Touched
      BY <1>2, <1>3, <1>5, <3>2, ViewType DEF Inv, PoolInv
    <3> QED BY <3>1, <3>2
  <2>2. View' = [p \in Nos |-> committed[p]]
    BY <2>1 DEF View
  <2> QED BY <1>6, <2>2
<1>8. TypeOK'
  <2>1. frame' \in [Nos -> Page \cup {NoPage}] /\ saved' \in [Nos -> Page \cup {NoPage}]
    BY <1>1 DEF Inv, TypeOK
  <2>2. tail' \in Nos
    BY <1>1 DEF Inv, TypeOK
  <2>3. disk' \in [Nos -> Page]
    <3>1. \A p \in Touched : saved[p] \in Page
      BY <1>2, <1>6 DEF Inv, PoolInv
    <3> QED BY <1>1, <1>2, <3>1 DEF Inv, TypeOK
  <2>4. dirty' \subseteq Nos /\ residue' \subseteq Nos /\ stolen' \subseteq Nos
    BY <1>1, <1>2 DEF Inv, TypeOK
  <2> QED BY <1>1, <2>1, <2>2, <2>3, <2>4, EmptyUndo DEF Inv, TypeOK
<1>9. PoolInv'
  <2>1. \A p \in Nos : IF p \in dirty' THEN frame'[p] # NoPage ELSE frame'[p] \in {NoPage, disk'[p]}
    <3> TAKE p \in Nos
    <3>1. CASE p \in cached
      BY <1>4, <1>5, <1>6, <3>1
    <3>2. CASE p \in Touched \ cached
      <4>1. frame[p] = NoPage /\ frame'[p] = NoPage
        BY <1>2, <1>5, <3>2
      <4> QED BY <1>4, <3>2, <4>1 DEF Inv, PoolInv
    <3>3. CASE p \notin Touched
      BY <1>2, <1>3, <1>4, <1>5, <3>3 DEF Inv, PoolInv
    <3> QED BY <3>1, <3>2, <3>3
  <2>2. residue' \subseteq dirty'
    BY <1>1, <1>4 DEF Inv, PoolInv
  <2>3. \A p \in Nos \ (logged' \cup residue' \cup stolen') : disk'[p] = committed'[p]
    BY <1>1, <1>2, <1>3 DEF Inv, PoolInv
  <2>4. \A p \in Nos : p >= size' => disk'[p] = ZeroPage /\ p \notin stolen'
    BY <1>1, <1>2, <1>3 DEF Inv, PoolInv
  <2> QED BY <1>1, <1>4, <1>7, <2>1, <2>2, <2>3, <2>4 DEF PoolInv
<1>10. TailInv'
  <2> DEFINE t == IF tailUndo = <<>> THEN tail ELSE Head(tailUndo)
  <2>1. TailOK(committed, t, residue \cup stolen)
    BY DEF Inv, TailInv
  <2>2. tail' = t /\ tailUndo' = <<>> /\ committed' = committed /\ stolen' = {}
    BY <1>1
  <2> HIDE DEF t
  <2>3. ASSUME NEW p \in DataPages \ residue', t = NoTail PROVE disk'[p] = ZeroPage <=> committed[p] = ZeroPage
    <3>1. p \in Nos /\ p \notin residue
      BY <1>1, <2>3 DEF DataPages
    <3>2. CASE p \in stolen
      <4>1. p \in Touched \ cached
        BY <1>1, <2>3, <3>2 DEF Inv, PoolInv
      <4> QED BY <1>3, <3>1, <4>1
    <3>3. CASE p \notin stolen
      <4>1. disk'[p] = disk[p]
        BY <1>2, <1>3, <3>1, <3>3
      <4> QED BY <2>1, <2>3, <3>1, <3>3, <4>1 DEF TailOK
    <3> QED BY <3>2, <3>3
  <2>4. t # NoTail => End(committed, t)
    BY <2>1 DEF TailOK
  <2>5. TailOK(committed, tail, residue)' /\ TailOK(committed, tail, residue \cup stolen)'
    BY <2>2, <2>3, <2>4 DEF TailOK
  <2> QED BY <1>7, <2>2, <2>5 DEF TailInv
<1> QED BY <1>1, <1>7, <1>8, <1>9, <1>10, BackInv

\* The page count after pages of a set are written.
LEMMA FileGrows ==
  ASSUME TypeOK, NEW S, S \subseteq Nos
  PROVE  LET n == Max({size} \cup {p + 1 : p \in S})
         IN n \in 1..MaxPage + 1 /\ n >= size /\ \A p \in S : n > p
<1> USE ConstantsOK
<1> DEFINE T == {size} \cup {p + 1 : p \in S}
           n == Max(T)
<1>1. T \subseteq 1..MaxPage + 1 /\ T \subseteq 0..(MaxPage + 1) /\ T # {} /\ MaxPage + 1 \in Nat
  BY DEF TypeOK, Nos
<1>2. size \in T /\ \A p \in S : p + 1 \in T
  OBVIOUS
<1> HIDE DEF T
<1>3. n \in T /\ \A y \in T : y <= n
  BY <1>1, MaxIs
<1>4. n \in 1..MaxPage + 1 /\ n >= size
  BY <1>1, <1>2, <1>3
<1>5. \A p \in S : n > p
  BY <1>2, <1>3, <1>4 DEF Nos
<1> QED BY <1>4, <1>5 DEF T

\* A checkpoint, and a clean close and open.
LEMMA CheckpointInv == ASSUME Inv, NEW reopen \in BOOLEAN, Checkpoint(reopen) PROVE Inv'
<1>1. /\ ~txn
      /\ disk' = [p \in Nos |-> IF p \in dirty THEN frame[p] ELSE disk[p]]
      /\ size' = Max({size} \cup {p + 1 : p \in dirty})
      /\ dirty' = {} /\ logged' = {} /\ residue' = {}
      /\ frame' = (IF reopen THEN [p \in Nos |-> NoPage] ELSE frame)
      /\ tail' = (IF reopen THEN NoTail ELSE tail)
      /\ UNCHANGED <<txn, saved, tailUndo, committed, rows, rows0, stolen>>
  BY DEF Checkpoint
<1>2. size' \in 1..MaxPage + 1 /\ size' >= size /\ \A p \in dirty : size' > p
  <2>1. dirty \subseteq Nos
    BY DEF Inv, TypeOK
  <2>2. LET n == Max({size} \cup {p + 1 : p \in dirty})
        IN n \in 1..MaxPage + 1 /\ n >= size /\ \A p \in dirty : n > p
    BY <2>1, FileGrows DEF Inv
  <2> QED BY <1>1, <2>2
<1>3. \A p \in Nos : View[p] = IF p \in dirty THEN frame[p] ELSE disk[p]
  BY ViewType DEF Inv, PoolInv
<1>4. View \in [Nos -> Page] /\ NoPage \notin Page
  BY ViewType DEF Inv
<1>5. disk' = View
  <2>1. disk' = [p \in Nos |-> View[p]]
    BY <1>1, <1>3
  <2> QED BY <1>4, <2>1
<1>6. \A p \in Nos : frame'[p] \in {NoPage, View[p]}
  BY <1>1, ViewType DEF Inv
<1>7. View' = View
  <2>1. View' = [p \in Nos |-> IF frame'[p] # NoPage THEN frame'[p] ELSE disk'[p]]
    BY DEF View
  <2>2. View' = [p \in Nos |-> View[p]]
    BY <1>5, <1>6, <2>1
  <2> QED BY <1>4, <2>2
<1>8. Touched' = Touched /\ Touched = {} /\ tailUndo = <<>> /\ stolen = {}
  BY <1>1 DEF Inv, PoolInv, Touched
<1>9. View = committed
  <2>1. \A p \in Nos : View[p] = committed[p]
    BY <1>8 DEF Inv, PoolInv
  <2>2. committed = [p \in Nos |-> committed[p]] /\ View = [p \in Nos |-> View[p]]
    BY <1>4 DEF Inv, TypeOK
  <2> QED BY <2>1, <2>2
<1>10. TypeOK'
  <2>1. frame' \in [Nos -> Page \cup {NoPage}] /\ tail' \in Nos
    BY <1>1, ConstantsOK DEF Inv, TypeOK, NoTail, Nos
  <2> QED BY <1>1, <1>2, <1>4, <1>5, <2>1 DEF Inv, TypeOK
<1>11. PoolInv'
  <2>1. \A p \in Nos : p >= size' => disk'[p] = ZeroPage
    <3> SUFFICES ASSUME NEW p \in Nos, p >= size' PROVE disk'[p] = ZeroPage
      OBVIOUS
    <3>1. p >= size /\ p \notin dirty
      BY <1>2 DEF Inv, TypeOK, Nos
    <3> QED BY <1>1, <3>1 DEF Inv, PoolInv
  <2> QED BY <1>1, <1>5, <1>6, <1>7, <1>8, <1>9, <2>1 DEF PoolInv
<1>12. TailInv'
  <2>1. \A t : TailOK(View, t, residue) => (t # NoTail => End(View, t))
    BY DEF TailOK
  <2>2. tail' # NoTail => End(View, tail')
    BY <1>1, <2>1 DEF Inv, TailInv
  <2> QED BY <1>1, <1>5, <1>7, <1>8, <1>9, <2>2 DEF TailInv, TailOK
<1> QED BY <1>1, <1>7, <1>10, <1>11, <1>12, QuietInv

\* A crash and recovery without residue: every page not in the log is in the file
\* already.
LEMMA CrashInv == ASSUME Inv, CrashRecover, ~spoilt' PROVE Inv'
<1> DEFINE patched == logged \cup Touched
<1>1. /\ disk' = [p \in Nos |-> IF p \in patched THEN committed[p] ELSE disk[p]]
      /\ size' = Max({size} \cup {p + 1 : p \in patched})
      /\ frame' = [p \in Nos |-> NoPage] /\ dirty' = {}
      /\ txn' = FALSE /\ saved' = [p \in Nos |-> NoPage]
      /\ tail' = NoTail /\ tailUndo' = <<>>
      /\ logged' = {}
      /\ rows' = rows0 /\ stolen' = {} /\ residue' = {} /\ residue = {}
      /\ UNCHANGED <<committed, rows0>>
  <2>1. residue = {}
    BY DEF CrashRecover
  <2>2. PICK kept \in SUBSET (residue \cap patched) :
          disk' = [p \in Nos |-> IF p \in patched \ kept THEN committed[p] ELSE disk[p]]
    BY DEF CrashRecover
  <2>3. kept = {}
    BY <2>1, <2>2
  <2>4. disk' = [p \in Nos |-> IF p \in patched THEN committed[p] ELSE disk[p]]
    BY <2>2, <2>3
  <2> QED BY <2>1, <2>4 DEF CrashRecover
<1>2. patched \subseteq Nos /\ logged \subseteq patched
  BY DEF Inv, TypeOK, Touched
<1> HIDE DEF patched
<1>3. size' \in 1..MaxPage + 1 /\ size' >= size /\ \A p \in patched : size' > p
  <2>1. LET n == Max({size} \cup {p + 1 : p \in patched})
        IN n \in 1..MaxPage + 1 /\ n >= size /\ \A p \in patched : n > p
    BY <1>2, FileGrows DEF Inv
  <2> QED BY <1>1, <2>1
<1>4. committed \in [Nos -> Page]
  BY DEF Inv, TypeOK
<1>5. disk' = committed
  <2>1. \A p \in Nos \ patched : disk[p] = committed[p]
    BY <1>1, <1>2 DEF Inv, PoolInv, patched
  <2>2. disk' = [p \in Nos |-> committed[p]]
    BY <1>1, <2>1
  <2> QED BY <1>4, <2>2
<1>6. View' = committed /\ Touched' = {}
  <2>1. View' = [p \in Nos |-> committed[p]]
    BY <1>1, <1>5 DEF View
  <2> QED BY <1>1, <1>4, <2>1 DEF Touched
<1>7. TypeOK'
  <2>1. NoTail \in Nos /\ dirty' \subseteq Nos /\ logged' \subseteq Nos
    BY <1>1, ConstantsOK DEF NoTail, Nos
  <2> QED BY <1>1, <1>3, <1>4, <1>5, <2>1, EmptyUndo DEF TypeOK
<1>8. PoolInv'
  <2>1. \A p \in Nos : p >= size' => disk'[p] = ZeroPage
    <3> SUFFICES ASSUME NEW p \in Nos, p >= size' PROVE disk'[p] = ZeroPage
      OBVIOUS
    <3>1. p >= size /\ p \notin patched
      BY <1>2, <1>3 DEF Inv, TypeOK, Nos
    <3> QED BY <1>1, <3>1 DEF Inv, PoolInv
  <2> QED BY <1>1, <1>5, <1>6, <2>1 DEF PoolInv
<1>9. TailInv'
  BY <1>1, <1>5, <1>6 DEF TailInv, TailOK
<1> QED BY <1>1, <1>6, <1>7, <1>8, <1>9, BackInv

-----------------------------------------------------------------------------
(* Theorems *)

\* What was taken for the table's stays in it.
LEMMA StaysSpoilt == ASSUME spoilt, [Next]_vars PROVE spoilt'
<1>1. CASE Next
  BY <1>1 DEF Next, Begin, InsertRow, DeleteAllRows, CommitTxn, RollbackTxn, CrashRecover, DeleteRow,
              Evict, Load, Checkpoint, history
<1>2. CASE UNCHANGED vars
  BY <1>2 DEF vars, history
<1> QED BY <1>1, <1>2

\* The inductive invariant, kept by every action, whatever the pool evicts, until
\* a restart or disk_tail_page takes bytes of a rolled-back transaction for the
\* table's.
THEOREM HeapInvariant == Spec => [](spoilt \/ Inv)
<1>1. Init => spoilt \/ Inv
  BY InitInv
<1>2. (spoilt \/ Inv) /\ [Next]_vars => (spoilt \/ Inv)'
  <2>0. spoilt /\ [Next]_vars => spoilt'
    BY StaysSpoilt
  <2> SUFFICES ASSUME Inv, [Next]_vars, ~spoilt' PROVE Inv'
    BY <2>0
  <2>1. CASE Begin
    BY <2>1, BeginInv
  <2>2. CASE InsertRow
    BY <2>2, InsertInv
  <2>3. CASE DeleteAllRows
    BY <2>3, DeleteAllInv
  <2>4. CASE CommitTxn
    BY <2>4, CommitInv
  <2>5. CASE RollbackTxn
    BY <2>5, RollbackInv
  <2>6. CASE CrashRecover
    BY <2>6, CrashInv
  <2>7. ASSUME NEW p \in Nos \ {0}, NEW s \in 1..PageCap, DeleteRow(p, s) PROVE Inv'
    BY <2>7, DeleteInv DEF DataPages
  <2>8. ASSUME NEW p \in Nos, Evict(p) PROVE Inv'
    BY <2>8, EvictInv
  <2>9. ASSUME NEW p \in Nos, Load(p) PROVE Inv'
    BY <2>9, LoadInv
  <2>10. ASSUME NEW reopen \in BOOLEAN, Checkpoint(reopen) PROVE Inv'
    BY <2>10, CheckpointInv
  <2>11. CASE UNCHANGED vars
    <3>1. View' = View /\ Touched' = Touched
      BY <2>11 DEF vars, pages, context, View, Touched
    <3>2. TypeOK' /\ PoolInv' /\ TailInv'
      BY <2>11, <3>1 DEF vars, pages, context, history, Inv, TypeOK, PoolInv, TailInv, TailOK
    <3> QED BY <2>11, <3>1, <3>2, QuietInv DEF vars, history
  <2> QED BY <2>1, <2>2, <2>3, <2>4, <2>5, <2>6, <2>7, <2>8, <2>9, <2>10, <2>11 DEF Next
<1> QED BY <1>1, <1>2, PTL DEF Spec

\* ScanExact: insert_row, delete_row, rollback and recovery keep every row on
\* the chain that a scan follows, and no other, in a table that is not spoilt.
THEOREM ScanHolds == Spec => []ScanExact
<1>1. spoilt \/ Inv => ScanExact
  BY DEF Inv, RowInv, ScanExact
<1> QED BY <1>1, HeapInvariant, PTL

\* RowidsUnique: insert_row never gives a rowid that a committed row holds,
\* after rollbacks and crashes too, in a table that is not spoilt.
THEOREM RowidsHold == Spec => []RowidsUnique
<1>1. spoilt \/ Inv => RowidsUnique
  BY DEF Inv, Rowids, RowidsUnique, DataPages
<1> QED BY <1>1, HeapInvariant, PTL

\* RowPlacesStable: an index entry keeps naming the row it was made for, or a
\* tombstone, whatever commits later (heap_append, heap_delete), in a table that
\* is not spoilt.
THEOREM PlacesStable == Spec => RowPlacesStable
<1> DEFINE Stable ==
      \A p \in Nos \ {0} : \A s \in DOMAIN committed[p].slots :
        s \in DOMAIN committed'[p].slots /\ committed'[p].slots[s] \in {committed[p].slots[s], Tomb}
<1>1. (spoilt \/ Inv) /\ [Next]_vars => [~spoilt' => Stable]_vars
  <2> SUFFICES ASSUME spoilt \/ Inv, Next, ~spoilt' PROVE Stable
    OBVIOUS
  <2>0. Inv
    BY StaysSpoilt
  <2>1. CASE CommitTxn
    BY <2>0, <2>1 DEF CommitTxn, Inv, RowInv, Grown, DataPages
  <2>2. CASE ~CommitTxn
    <3>1. committed' = committed
      BY <2>2 DEF Next, Begin, InsertRow, DeleteAllRows, RollbackTxn, CrashRecover, DeleteRow,
                  Evict, Load, Checkpoint, history
    <3> QED BY <3>1
  <2> QED BY <2>1, <2>2
<1> QED BY <1>1, HeapInvariant, PTL DEF Spec, RowPlacesStable

=============================================================================
