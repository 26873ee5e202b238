---------------------------- MODULE BTree_proofs ----------------------------
(***************************************************************************)
(* The B+ tree, for every set of keys and row places, every capacity and   *)
(* every number of pages: page numbers are fresh, a stale root is          *)
(* detected, an undisturbed range scan ends and is exact, and a cursor     *)
(* beside other sessions misses nothing unless entries were moved. All     *)
(* that until a restart finds bytes of a rolled-back transaction in the    *)
(* file (spoilt).                                                          *)
(*                                                                         *)
(* A file is a tree when every page has a lower and an upper fence, sets   *)
(* of points (low, high) that are closed upwards: a node's separators cut  *)
(* its own fences into its children's, a leaf's upper fence is the lower   *)
(* one of the next leaf in the chain, and a leaf holds exactly the entries *)
(* between its fences. A page split that the parent has yet to hear of     *)
(* (Pending) lets two pages share what the parent has for one. A scan is   *)
(* followed by what is Ahead of it, and ends because fewer leaves lie      *)
(* behind every leaf of the chain than behind the one before.              *)
(***************************************************************************)
EXTENDS BTree, SequenceTheorems, FiniteSetTheorems, WellFoundedInduction, TLAPS

(* Trees *)

Points == [key : Keys, ref : Nat]
Page   == [type : {"leaf", "node", "header", "zero"}, es : Seq(Entries), kids : Seq(Nos), next : Nos]
Files  == [Nos -> Page]

Leaves(pg) == {p \in Nos : pg[p].type = "leaf"}
Nodes(pg)  == {p \in Nos : pg[p].type = "node"}

AtLeast(x) == {z \in Points : ~EntryLess(z, x)}
Upward(S)  == S \subseteq Points /\ \A a \in S, b \in Points : EntryLess(a, b) => b \in S

\* Pages by themselves.
Local(pg) ==
  /\ pg \in Files
  /\ \A p \in TreePages(pg) : Ascending(pg[p].es)
  /\ \A p \in Nodes(pg) : Len(pg[p].kids) = Len(pg[p].es) + 1

\* The root is R, every other page has one parent, a page is higher than its
\* children; y has none yet when it is split off x (x # y).
Linked(pg, R, x, y, rank) ==
  /\ rank \in [Nos -> Nat] /\ pg[0] = Header(R)
  /\ R \in TreePages(pg) /\ x \in TreePages(pg) /\ y \in TreePages(pg) /\ rank[x] = rank[y]
  /\ x # y => y # R
  /\ \A p \in Nodes(pg) : \A i \in 1..Len(pg[p].kids) :
       /\ pg[p].kids[i] \in TreePages(pg) /\ rank[pg[p].kids[i]] < rank[p]
       /\ pg[p].kids[i] # R /\ (x # y => pg[p].kids[i] # y)
  /\ \A p, q \in Nodes(pg) : \A i \in 1..Len(pg[p].kids), j \in 1..Len(pg[q].kids) :
       pg[p].kids[i] = pg[q].kids[j] => p = q /\ i = j
  /\ \A p \in Leaves(pg) : pg[p].next # 0 => pg[p].next \in Leaves(pg) /\ Len(pg[pg[p].next].es) > 0

\* Page p is for the points of low[p] that are not in high[p]; what its parent
\* has x for, x and y are for together.
Reach(k, x, y, high) == IF k = x THEN high[y] ELSE high[k]

Fenced(pg, R, x, y, low, high) ==
  /\ low \in [Nos -> SUBSET Points] /\ high \in [Nos -> SUBSET Points]
  /\ low[R] = Points /\ Reach(R, x, y, high) = {}
  /\ \A p \in TreePages(pg) :
       /\ Upward(low[p]) /\ Upward(high[p])
       /\ \A i \in 1..Len(pg[p].es) : pg[p].es[i] \in low[p] /\ pg[p].es[i] \notin high[p]
  /\ \A p \in Nodes(pg) : \A i \in 1..Len(pg[p].kids) :
       /\ low[pg[p].kids[i]] = IF i = 1 THEN low[p] ELSE AtLeast(pg[p].es[i - 1])
       /\ Reach(pg[p].kids[i], x, y, high) = IF i = Len(pg[p].kids) THEN high[p] ELSE AtLeast(pg[p].es[i])
  /\ \A p \in Leaves(pg) : high[p] = IF pg[p].next = 0 THEN {} ELSE low[pg[p].next]

\* The leaves hold E, each the part it is for.
Stored(pg, E, low, high) ==
  /\ E \subseteq Entries
  /\ \A p \in Leaves(pg) : \A e \in E :
       e \in low[p] /\ e \notin high[p] => \E i \in 1..Len(pg[p].es) : pg[p].es[i] = e
  /\ \A p \in Leaves(pg) : \A i \in 1..Len(pg[p].es) : pg[p].es[i] \in E
  /\ \A p, q \in Leaves(pg) : \A e \in Points :
       e \in low[p] /\ e \notin high[p] /\ e \in low[q] /\ e \notin high[q] => p = q

Tree(pg, R, E, x, y, rank, low, high) ==
  Local(pg) /\ Linked(pg, R, x, y, rank) /\ Fenced(pg, R, x, y, low, high) /\ Stored(pg, E, low, high)

\* y has been split off x at sep, and x's parent does not know yet.
Pending(x, y, sep, low, high) ==
  /\ x # y /\ sep \in Entries
  /\ high[x] = AtLeast(sep) /\ low[y] = AtLeast(sep)
  /\ sep \in low[x] /\ sep \notin high[y]
  /\ \E z \in low[x] : EntryLess(z, sep)

-----------------------------------------------------------------------------
(* Numbers and order *)

\* A number below which everything is in S is in S: then all numbers are.
LEMMA Descend ==
  ASSUME NEW S, \A n \in Nat : (\A m \in Nat : m < n => m \in S) => n \in S
  PROVE  \A n \in Nat : n \in S
<1> SUFFICES ASSUME NEW n \in Nat, n \notin S PROVE FALSE
  OBVIOUS
<1> DEFINE T == {i \in Nat : i \notin S}
<1>1. T \subseteq Nat /\ T # {}
  OBVIOUS
<1>2. PICK x \in T : \A y \in T : ~(<<y, x>> \in OpToRel(<, Nat))
  <2> HIDE DEF T
  <2> QED BY <1>1, NatLessThanWellFounded, WFMin, Zenon
<1>3. \A y \in T : ~(<<y, x>> \in {ss \in Nat \X Nat : ss[1] < ss[2]})
  BY <1>2 DEF OpToRel
<1>4. \A y \in T : ~(y < x)
  BY <1>1, <1>3
<1>5. \A m \in Nat : m < x => m \in S
  BY <1>4
<1> QED BY <1>5

\* key_cmp is a strict total order.
LEMMA KeyOrder ==
  /\ \A a, b \in Keys : KeyLess(a, b) \/ KeyLess(b, a) \/ a = b
  /\ \A a \in Keys : ~KeyLess(a, a)
  /\ \A a, b, c \in Keys : KeyLess(a, b) /\ KeyLess(b, c) => KeyLess(a, c)
<1>1. \A k \in Keys : k.null \in BOOLEAN /\ k.val \in Int /\ (k.null => k.val = 0) /\ k = [null |-> k.null, val |-> k.val]
  <2> SUFFICES ASSUME NEW k \in Keys
               PROVE  /\ k.null \in BOOLEAN /\ k.val \in Int /\ (k.null => k.val = 0)
                      /\ k = [null |-> k.null, val |-> k.val]
    OBVIOUS
  <2>1. CASE k = NullKey
    BY <2>1 DEF NullKey
  <2>2. ASSUME NEW v \in Vals, k = Key(v)
        PROVE  /\ k.null \in BOOLEAN /\ k.val \in Int /\ (k.null => k.val = 0)
               /\ k = [null |-> k.null, val |-> k.val]
    BY <2>2, ConstantsOK DEF Key
  <2> QED BY <2>1, <2>2 DEF Keys
<1>2. \A a, b \in Keys : KeyLess(a, b) \/ KeyLess(b, a) \/ a = b
  <2> SUFFICES ASSUME NEW a \in Keys, NEW b \in Keys PROVE KeyLess(a, b) \/ KeyLess(b, a) \/ a = b
    OBVIOUS
  <2>1. CASE a.null # b.null
    BY <1>1, <2>1 DEF KeyLess
  <2>2. CASE a.null = b.null
    <3>1. a.val < b.val \/ b.val < a.val \/ a.val = b.val
      BY <1>1
    <3>2. a.val = b.val => a = b
      BY <1>1, <2>2, Zenon
    <3> QED BY <2>2, <3>1, <3>2 DEF KeyLess
  <2> QED BY <2>1, <2>2
<1>3. \A a \in Keys : ~KeyLess(a, a)
  BY <1>1 DEF KeyLess
<1>4. \A a, b, c \in Keys : KeyLess(a, b) /\ KeyLess(b, c) => KeyLess(a, c)
  BY <1>1 DEF KeyLess
<1> QED BY <1>2, <1>3, <1>4

\* entry_cmp is a strict total order.
LEMMA Order ==
  /\ \A a \in Points : ~EntryLess(a, a)
  /\ \A a, b \in Points : EntryLess(a, b) \/ EntryLess(b, a) \/ a = b
  /\ \A a, b, c \in Points : EntryLess(a, b) /\ EntryLess(b, c) => EntryLess(a, c)
<1>5. \A a \in Points : a.key \in Keys /\ a.ref \in Nat /\ a = [key |-> a.key, ref |-> a.ref]
  BY DEF Points
<1>6. \A a \in Points : ~EntryLess(a, a)
  BY <1>5, KeyOrder DEF EntryLess
<1>7. ASSUME NEW a \in Points, NEW b \in Points PROVE EntryLess(a, b) \/ EntryLess(b, a) \/ a = b
  <2>1. CASE a.key # b.key
    BY <1>5, <2>1, KeyOrder DEF EntryLess
  <2>2. CASE a.key = b.key
    <3>1. a.ref < b.ref \/ b.ref < a.ref \/ a.ref = b.ref
      BY <1>5
    <3>2. a.ref = b.ref => a = b
      BY <1>5, <2>2, Zenon
    <3> QED BY <2>2, <3>1, <3>2 DEF EntryLess
  <2> QED BY <2>1, <2>2
<1>8. ASSUME NEW a \in Points, NEW b \in Points, NEW c \in Points, EntryLess(a, b), EntryLess(b, c)
      PROVE  EntryLess(a, c)
  <2>1. (a.ref < b.ref /\ b.ref < c.ref) => a.ref < c.ref
    BY <1>5
  <2> QED BY <1>5, <1>8, <2>1, KeyOrder DEF EntryLess
<1> QED BY <1>6, <1>7, <1>8

\* The binary search returns the number of positions below.
LEMMA SearchFinds ==
  ASSUME NEW n \in Nat, NEW below, \A i, j \in 0..(n - 1) : i < j /\ j \in below => i \in below
  PROVE  /\ BinarySearch(n, below) \in 0..n
         /\ \A i \in 0..(n - 1) : i \in below <=> i < BinarySearch(n, below)
<1> DEFINE D == {x \in (0..n) \X (0..n) : x[1] <= x[2]}
           mid(x) == x[1] + (x[2] - x[1]) \div 2
           Body(g, x) == IF x[1] = x[2] THEN x[1]
                         ELSE IF mid(x) \in below THEN g[<<mid(x) + 1, x[2]>>] ELSE g[<<x[1], mid(x)>>]
           Rec(g) == g = [x \in D |-> Body(g, x)]
<1>1. PICK r \in 0..n : \A i \in 0..(n - 1) : i \in below <=> i < r
  <2> DEFINE S == {k \in Nat : k <= n /\ k \notin below => \E r \in 0..n : \A i \in 0..(n - 1) : i \in below <=> i < r}
  <2>1. CASE \A i \in 0..(n - 1) : i \in below
    BY <2>1
  <2>2. CASE \E k \in 0..(n - 1) : k \notin below
    <3>1. ASSUME NEW k \in Nat, \A m \in Nat : m < k => m \in S PROVE k \in S
      <4> SUFFICES ASSUME k <= n, k \notin below
                   PROVE  \E r \in 0..n : \A i \in 0..(n - 1) : i \in below <=> i < r
        OBVIOUS
      <4>1. CASE \A m \in 0..(n - 1) : m < k => m \in below
        <5>1. \A i \in 0..(n - 1) : i \in below <=> i < k
          BY <4>1
        <5> QED BY <5>1
      <4>2. CASE \E m \in 0..(n - 1) : m < k /\ m \notin below
        BY <3>1, <4>2
      <4> QED BY <4>1, <4>2
    <3>2. \A k \in Nat : k \in S
      <4> HIDE DEF S
      <4> QED BY <3>1, Descend
    <3> QED BY <2>2, <3>2
  <2> QED BY <2>1, <2>2
<1> DEFINE clamp(x) == IF r < x[1] THEN x[1] ELSE IF r > x[2] THEN x[2] ELSE r
           f == [x \in D |-> clamp(x)]
<1>2. ASSUME NEW x \in D
      PROVE  /\ x[1] \in 0..n /\ x[2] \in 0..n /\ x[1] <= x[2]
             /\ x[1] # x[2] => /\ mid(x) \in 0..(n - 1) /\ x[1] <= mid(x) /\ mid(x) < x[2]
                               /\ <<mid(x) + 1, x[2]>> \in D /\ <<x[1], mid(x)>> \in D
  <2>1. x = <<x[1], x[2]>> /\ x[1] \in 0..n /\ x[2] \in 0..n /\ x[1] <= x[2]
    OBVIOUS
  <2>2. ASSUME x[1] # x[2] PROVE mid(x) \in 0..(n - 1) /\ x[1] <= mid(x) /\ mid(x) < x[2]
    BY <2>1, <2>2
  <2>3. ASSUME x[1] # x[2] PROVE <<mid(x) + 1, x[2]>> \in D /\ <<x[1], mid(x)>> \in D
    <3>1. mid(x) + 1 \in 0..n /\ mid(x) \in 0..n /\ mid(x) + 1 <= x[2] /\ x[1] <= mid(x)
      BY <2>1, <2>2, <2>3
    <3> HIDE DEF mid
    <3> QED BY <2>1, <3>1
  <2> QED BY <2>1, <2>2, <2>3
<1> HIDE DEF D, mid
<1>3. Rec(f)
  <2>1. ASSUME NEW x \in D PROVE f[x] = Body(f, x)
    <3> DEFINE a == x[1]
               b == x[2]
               m == mid(x)
    <3>a. x[1] \in 0..n /\ x[2] \in 0..n /\ x[1] <= x[2]
      BY <1>2
    <3>b. f[x] = clamp(x)
      OBVIOUS
    <3>0. a \in Nat /\ b \in Nat /\ a <= b /\ b <= n /\ f[x] = IF r < a THEN a ELSE IF r > b THEN b ELSE r
      <4> HIDE DEF f
      <4> QED BY <3>a, <3>b
    <3>1. CASE a = b
      <4>1. f[x] = a
        <5> HIDE DEF a, b, f
        <5> QED BY <3>0, <3>1
      <4> QED BY <3>1, <4>1
    <3>2. CASE a # b /\ m \in below
      <4>0. m \in 0..(n - 1) /\ a <= m /\ m < b
        BY <1>2, <3>2
      <4>1. m < r
        <5> HIDE DEF m
        <5> QED BY <1>1, <4>0, <3>2
      <4>2. f[<<m + 1, b>>] = IF r < m + 1 THEN m + 1 ELSE IF r > b THEN b ELSE r
        BY <1>2, <3>2
      <4>3. f[x] = f[<<m + 1, b>>]
        <5> HIDE DEF a, b, f, m
        <5> QED BY <3>0, <4>0, <4>1, <4>2
      <4> QED BY <3>2, <4>3
    <3>3. CASE a # b /\ m \notin below
      <4>0. m \in 0..(n - 1) /\ a <= m /\ m < b
        BY <1>2, <3>3
      <4>1. r <= m
        <5> HIDE DEF m
        <5> QED BY <1>1, <4>0, <3>3
      <4>2. f[<<a, m>>] = IF r < a THEN a ELSE IF r > m THEN m ELSE r
        BY <1>2, <3>3
      <4>3. f[x] = f[<<a, m>>]
        <5> HIDE DEF a, b, f, m
        <5> QED BY <3>0, <4>0, <4>1, <4>2
      <4> QED BY <3>3, <4>3
    <3> QED BY <3>1, <3>2, <3>3
  <2> HIDE DEF Body
  <2> QED BY <2>1
<1>4. \A g : Rec(g) => g[<<0, n>>] = r
  <2> SUFFICES ASSUME NEW g, Rec(g) PROVE g[<<0, n>>] = r
    OBVIOUS
  <2>0. \A x \in D : g[x] = Body(g, x)
    <3> HIDE DEF Body
    <3> QED OBVIOUS
  <2> DEFINE S == {w \in Nat : \A x \in D : x[2] - x[1] = w => g[x] = f[x]}
  <2>1. ASSUME NEW w \in Nat, \A m \in Nat : m < w => m \in S PROVE w \in S
    <3> SUFFICES ASSUME NEW x \in D, x[2] - x[1] = w PROVE g[x] = f[x]
      OBVIOUS
    <3>0. \A y \in D : y[2] - y[1] \in Nat /\ y[2] - y[1] < w => g[y] = f[y]
      BY <2>1
    <3>1. g[x] = Body(g, x) /\ f[x] = Body(f, x)
      <4> HIDE DEF f, Body
      <4> QED BY <1>3, <2>0
    <3>2. CASE x[1] = x[2]
      BY <3>1, <3>2
    <3>3. CASE x[1] # x[2]
      <4>1. /\ x[2] - (mid(x) + 1) \in Nat /\ x[2] - (mid(x) + 1) < w
            /\ mid(x) - x[1] \in Nat /\ mid(x) - x[1] < w
        <5>1. x[1] \in Nat /\ x[2] \in Nat /\ mid(x) \in Nat /\ x[1] <= mid(x) /\ mid(x) < x[2]
          <6>1. x[1] \in 0..n /\ x[2] \in 0..n /\ mid(x) \in 0..(n - 1) /\ x[1] <= mid(x) /\ mid(x) < x[2]
            <7> HIDE DEF f
            <7> QED BY <1>2, <3>3
          <6> QED BY <6>1
        <5> QED BY <5>1
      <4> HIDE DEF f
      <4>2. g[<<mid(x) + 1, x[2]>>] = f[<<mid(x) + 1, x[2]>>] /\ g[<<x[1], mid(x)>>] = f[<<x[1], mid(x)>>]
        BY <1>2, <3>0, <3>3, <4>1
      <4> QED BY <3>1, <4>2
    <3> QED BY <3>2, <3>3
  <2>2. \A w \in Nat : w \in S
    <3> HIDE DEF S
    <3> QED BY <2>1, Descend
  <2>3. <<0, n>> \in D
    BY DEF D
  <2>4. g[<<0, n>>] = f[<<0, n>>]
    <3> HIDE DEF f
    <3> QED BY <2>2, <2>3
  <2> QED BY <2>3, <2>4
<1>5. BinarySearch(n, below) = (CHOOSE g : Rec(g))[<<0, n>>]
  BY DEF BinarySearch, D, mid
<1>6. BinarySearch(n, below) = r
  <2> HIDE DEF Rec, f
  <2> QED BY <1>3, <1>4, <1>5
<1> QED BY <1>1, <1>6

-----------------------------------------------------------------------------
(* Sequences *)

\* An element more.
LEMMA Inserted ==
  ASSUME NEW S, NEW s \in Seq(S), NEW i \in 1..(Len(s) + 1), NEW e \in S
  PROVE  /\ InsertAt(s, i, e) \in Seq(S) /\ Len(InsertAt(s, i, e)) = Len(s) + 1
         /\ \A k \in 1..(Len(s) + 1) :
              InsertAt(s, i, e)[k] = IF k < i THEN s[k] ELSE IF k = i THEN e ELSE s[k - 1]
<1> DEFINE a == SubSeq(s, 1, i - 1)
           b == SubSeq(s, i, Len(s))
<1>0. Len(s) \in Nat /\ i \in Nat /\ i >= 1 /\ i <= Len(s) + 1 /\ i - 1 \in Int
  OBVIOUS
<1>1. a \in Seq(S) /\ Len(a) = i - 1 /\ \A k \in 1..(i - 1) : a[k] = s[k]
  <2>1. \A k \in 1..(i - 1) : s[k] \in S
    BY <1>0
  <2> QED BY <1>0, <2>1, SubSeqProperties
<1>2. b \in Seq(S) /\ Len(b) = Len(s) - i + 1 /\ \A k \in 1..(Len(s) - i + 1) : b[k] = s[i + k - 1]
  <2>1. \A k \in i..Len(s) : s[k] \in S
    BY <1>0
  <2> QED BY <1>0, <2>1, SubSeqProperties
<1> HIDE DEF a, b
<1>3. <<e>> \in Seq(S) /\ Len(<<e>>) = 1 /\ <<e>>[1] = e
  OBVIOUS
<1>4. a \o <<e>> \in Seq(S) /\ Len(a \o <<e>>) = i /\ (a \o <<e>>)[i] = e /\ \A k \in 1..(i - 1) : (a \o <<e>>)[k] = s[k]
  BY <1>0, <1>1, <1>3
<1> DEFINE c == a \o <<e>>
<1> HIDE DEF c
<1>5. c \o b \in Seq(S) /\ Len(c \o b) = Len(s) + 1
  <2>1. c \in Seq(S) /\ Len(c) = i
    BY <1>4 DEF c
  <2> QED BY <1>0, <1>2, <2>1
<1>6. \A k \in 1..(Len(s) + 1) : (c \o b)[k] = IF k < i THEN s[k] ELSE IF k = i THEN e ELSE s[k - 1]
  <2> TAKE k \in 1..(Len(s) + 1)
  <2>1. CASE k <= i
    BY <1>0, <1>2, <1>4, <2>1 DEF c
  <2>2. CASE k > i
    <3>1. k - i \in 1..(Len(s) - i + 1) /\ i + (k - i) - 1 = k - 1
      BY <1>0, <2>2
    <3>2. (c \o b)[k] = b[k - i]
      BY <1>0, <1>2, <1>4, <2>2, SMTT(30) DEF c
    <3> QED BY <1>0, <1>2, <2>2, <3>1, <3>2
  <2>3. k <= i \/ k > i
    BY <1>0
  <2> QED BY <2>1, <2>2, <2>3
<1> QED BY <1>5, <1>6 DEF InsertAt, a, b, c

\* A part.
LEMMA Cut ==
  ASSUME NEW S, NEW s \in Seq(S), NEW m \in 1..(Len(s) + 1), NEW n \in 0..Len(s), m <= n + 1
  PROVE  /\ SubSeq(s, m, n) \in Seq(S) /\ Len(SubSeq(s, m, n)) = n - m + 1
         /\ \A k \in 1..(n - m + 1) : SubSeq(s, m, n)[k] = s[m + k - 1]
<1>1. \A k \in m..n : s[k] \in S
  OBVIOUS
<1>2. m \in Int /\ n \in Int
  OBVIOUS
<1> QED BY <1>1, <1>2, SubSeqProperties

\* Entries are points.
LEMMA EntryPoints ==
  Entries \subseteq Points
BY ConstantsOK DEF Entries, Points

\* leaf_lower_bound: the number of entries less than e.
LEMMA LowerBound ==
  ASSUME NEW es \in Seq(Entries), Ascending(es), NEW e \in Points
  PROVE  /\ LeafLowerBound(es, e) \in 0..Len(es)
         /\ \A i \in 1..Len(es) : EntryLess(es[i], e) <=> i <= LeafLowerBound(es, e)
<1> DEFINE below == {i \in Positions(es) : EntryLess(es[i + 1], e)}
           n == Len(es)
<1>1. n \in Nat /\ \A i \in 1..n : es[i] \in Points
  BY EntryPoints
<1>2. \A i, j \in 0..(n - 1) : i < j /\ j \in below => i \in below
  <2> SUFFICES ASSUME NEW i \in 0..(n - 1), NEW j \in 0..(n - 1), i < j, j \in below PROVE i \in below
    OBVIOUS
  <2>1. i + 1 \in 1..n /\ j + 1 \in 1..n /\ i + 1 < j + 1
    BY <1>1
  <2>2. EntryLess(es[i + 1], es[j + 1]) /\ EntryLess(es[j + 1], e)
    BY <2>1 DEF Ascending
  <2> QED BY <1>1, <2>1, <2>2, Order DEF Positions
<1>3. /\ BinarySearch(n, below) \in 0..n
      /\ \A i \in 0..(n - 1) : i \in below <=> i < BinarySearch(n, below)
  <2> HIDE DEF below, n
  <2> QED BY <1>1, <1>2, SearchFinds
<1>4. LeafLowerBound(es, e) = BinarySearch(n, below)
  BY DEF LeafLowerBound
<1> DEFINE k == LeafLowerBound(es, e)
<1>5. k \in 0..n /\ \A i \in 0..(n - 1) : i \in below <=> i < k
  BY <1>3, <1>4
<1> HIDE DEF k
<1>6. ASSUME NEW i \in 1..n PROVE EntryLess(es[i], e) <=> i <= k
  <2>1. i - 1 \in 0..(n - 1) /\ (i - 1) + 1 = i /\ k \in Nat
    BY <1>1, <1>5
  <2>2. i - 1 \in below <=> EntryLess(es[i], e)
    BY <2>1 DEF Positions
  <2> HIDE DEF below
  <2> QED BY <1>5, <2>1, <2>2
<1> QED BY <1>5, <1>6 DEF k

\* node_child_index: the number of separators that are not greater than e.
LEMMA ChildIndex ==
  ASSUME NEW es \in Seq(Entries), Ascending(es), NEW e \in Points
  PROVE  /\ NodeChildIndex(es, e) \in 0..Len(es)
         /\ \A i \in 1..Len(es) : ~EntryLess(e, es[i]) <=> i <= NodeChildIndex(es, e)
<1> DEFINE below == {i \in Positions(es) : ~EntryLess(e, es[i + 1])}
           n == Len(es)
<1>1. n \in Nat /\ \A i \in 1..n : es[i] \in Points
  BY EntryPoints
<1>2. \A i, j \in 0..(n - 1) : i < j /\ j \in below => i \in below
  <2> SUFFICES ASSUME NEW i \in 0..(n - 1), NEW j \in 0..(n - 1), i < j, j \in below PROVE i \in below
    OBVIOUS
  <2>1. i + 1 \in 1..n /\ j + 1 \in 1..n /\ i + 1 < j + 1
    BY <1>1
  <2>2. EntryLess(es[i + 1], es[j + 1]) /\ ~EntryLess(e, es[j + 1])
    BY <2>1 DEF Ascending
  <2> QED BY <1>1, <2>1, <2>2, Order DEF Positions
<1>3. /\ BinarySearch(n, below) \in 0..n
      /\ \A i \in 0..(n - 1) : i \in below <=> i < BinarySearch(n, below)
  <2> HIDE DEF below, n
  <2> QED BY <1>1, <1>2, SearchFinds
<1>4. NodeChildIndex(es, e) = BinarySearch(n, below)
  BY DEF NodeChildIndex
<1> DEFINE k == NodeChildIndex(es, e)
<1>5. k \in 0..n /\ \A i \in 0..(n - 1) : i \in below <=> i < k
  BY <1>3, <1>4
<1> HIDE DEF k
<1>6. ASSUME NEW i \in 1..n PROVE ~EntryLess(e, es[i]) <=> i <= k
  <2>1. i - 1 \in 0..(n - 1) /\ (i - 1) + 1 = i /\ k \in Nat
    BY <1>1, <1>5
  <2>2. i - 1 \in below <=> ~EntryLess(e, es[i])
    BY <2>1 DEF Positions
  <2> HIDE DEF below
  <2> QED BY <1>5, <2>1, <2>2
<1> QED BY <1>5, <1>6 DEF k

\* A sequence stays in order when e goes between the smaller and the greater ones.
LEMMA AscendingInsert ==
  ASSUME NEW s \in Seq(Entries), Ascending(s), NEW e \in Entries, NEW k \in 0..Len(s),
         \A i \in 1..k : EntryLess(s[i], e), \A i \in (k + 1)..Len(s) : EntryLess(e, s[i])
  PROVE  Ascending(InsertAt(s, k + 1, e))
<1> DEFINE t == InsertAt(s, k + 1, e)
           n == Len(s)
<1>1. n \in Nat /\ k \in Nat /\ k <= n /\ k + 1 \in 1..(n + 1)
  OBVIOUS
<1>2. Len(t) = n + 1 /\ \A i \in 1..(n + 1) : t[i] = IF i < k + 1 THEN s[i] ELSE IF i = k + 1 THEN e ELSE s[i - 1]
  BY <1>1, Inserted
<1> HIDE DEF t
<1> SUFFICES ASSUME NEW i \in 1..(n + 1), NEW j \in 1..(n + 1), i < j PROVE EntryLess(t[i], t[j])
  BY <1>2 DEF Ascending, t
<1>3. CASE i <= k /\ j <= k
  <2>1. i \in 1..n /\ j \in 1..n /\ t[i] = s[i] /\ t[j] = s[j]
    BY <1>1, <1>2, <1>3
  <2> QED BY <2>1 DEF Ascending
<1>4. CASE i <= k /\ j = k + 1
  <2>1. i \in 1..k /\ t[i] = s[i] /\ t[j] = e
    BY <1>1, <1>2, <1>4
  <2> QED BY <2>1
<1>5. CASE i <= k /\ j > k + 1
  <2>1. i \in 1..n /\ j - 1 \in 1..n /\ i < j - 1 /\ t[i] = s[i] /\ t[j] = s[j - 1]
    BY <1>1, <1>2, <1>5
  <2> QED BY <2>1 DEF Ascending
<1>6. CASE i = k + 1
  <2>1. j - 1 \in (k + 1)..n /\ t[i] = e /\ t[j] = s[j - 1]
    BY <1>1, <1>2, <1>6
  <2> QED BY <2>1
<1>7. CASE i > k + 1
  <2>1. i - 1 \in 1..n /\ j - 1 \in 1..n /\ i - 1 < j - 1 /\ t[i] = s[i - 1] /\ t[j] = s[j - 1]
    BY <1>1, <1>2, <1>7
  <2> QED BY <2>1 DEF Ascending
<1> QED BY <1>1, <1>3, <1>4, <1>5, <1>6, <1>7

-----------------------------------------------------------------------------
(* Changes of a tree *)

\* Tree pages are leaves and nodes.
LEMMA Kinds ==
  ASSUME NEW pg
  PROVE  /\ TreePages(pg) = Leaves(pg) \cup Nodes(pg) /\ Leaves(pg) \cap Nodes(pg) = {}
         /\ TreePages(pg) \subseteq Nos
BY DEF TreePages, IsTree, Leaves, Nodes

\* leaf_insert_at: an entry goes into the leaf that is for it.
LEMMA AddEntry ==
  ASSUME NEW pg, NEW R, NEW E, NEW rank, NEW low, NEW high, Tree(pg, R, E, R, R, rank, low, high),
         NEW no \in Leaves(pg), NEW e \in Entries, e \notin E, e \in low[no], e \notin high[no],
         NEW es, es = InsertAt(pg[no].es, LeafLowerBound(pg[no].es, e) + 1, e)
  PROVE  /\ es \in Seq(Entries) /\ Len(es) = Len(pg[no].es) + 1
         /\ \A i \in 1..Len(pg[no].es) : \E j \in 1..Len(es) : es[j] = pg[no].es[i] /\ j >= i /\ j <= i + 1
         /\ Tree([pg EXCEPT ![no].es = es], R, E \cup {e}, R, R, rank, low, high)
<1> DEFINE s == pg[no].es
           k == LeafLowerBound(s, e)
           pg2 == [pg EXCEPT ![no].es = es]
<1>1. no \in Nos /\ no \in TreePages(pg) /\ pg \in Files /\ pg[no] \in Page /\ s \in Seq(Entries) /\ Ascending(s) /\ e \in Points
  BY Kinds, EntryPoints DEF Tree, Local, Leaves, Files, Page
<1>2. k \in 0..Len(s) /\ \A i \in 1..Len(s) : EntryLess(s[i], e) <=> i <= k
  <2> HIDE DEF s
  <2> QED BY <1>1, LowerBound
<1>3. k + 1 \in 1..(Len(s) + 1) /\ Len(s) \in Nat /\ k \in Nat
  <2> HIDE DEF s, k
  <2> QED BY <1>1, <1>2
<1>4. /\ es \in Seq(Entries) /\ Len(es) = Len(s) + 1
      /\ \A i \in 1..(Len(s) + 1) : es[i] = IF i < k + 1 THEN s[i] ELSE IF i = k + 1 THEN e ELSE s[i - 1]
  <2>1. es = InsertAt(s, k + 1, e)
    OBVIOUS
  <2> HIDE DEF s, k
  <2> QED BY <1>1, <1>3, <2>1, Inserted, SMTT(30)
<1>5. \A i \in 1..Len(s) : s[i] \in E /\ s[i] # e
  BY <1>1 DEF Tree, Stored
<1>6. Ascending(es)
  <2>1. \A i \in 1..k : EntryLess(s[i], e)
    <3> HIDE DEF s, k
    <3> QED BY <1>2, <1>3
  <2>2. ASSUME NEW i \in (k + 1)..Len(s) PROVE EntryLess(e, s[i])
    <3>1. i \in 1..Len(s) /\ ~(i <= k)
      BY <1>3
    <3>2. ~EntryLess(s[i], e) /\ s[i] \in Points /\ s[i] # e
      <4> HIDE DEF k
      <4> QED BY <1>1, <1>2, <1>5, <3>1, EntryPoints
    <3> QED BY <1>1, <3>2, Order
  <2> HIDE DEF s, k
  <2> QED BY <1>1, <1>2, <2>1, <2>2, AscendingInsert DEF s, k
<1>7. ASSUME NEW p \in Nos
      PROVE  /\ pg2[p].type = pg[p].type /\ pg2[p].kids = pg[p].kids /\ pg2[p].next = pg[p].next
             /\ pg2[p].es = IF p = no THEN es ELSE pg[p].es
             /\ p # no => pg2[p] = pg[p]
  BY <1>1 DEF Files, Page
<1>8. pg2 \in Files
  <2> HIDE DEF pg2
  <2>1. pg2 = [pg EXCEPT ![no] = [pg[no] EXCEPT !.es = es]]
    BY DEF pg2
  <2>2. [pg[no] EXCEPT !.es = es] \in Page
    BY <1>1, <1>4 DEF Page
  <2> QED BY <1>1, <2>1, <2>2 DEF Files
<1> HIDE DEF pg2
<1>9. Leaves(pg2) = Leaves(pg) /\ Nodes(pg2) = Nodes(pg) /\ TreePages(pg2) = TreePages(pg)
  BY <1>7 DEF Leaves, Nodes, TreePages, IsTree
<1>10. Local(pg2)
  BY <1>6, <1>7, <1>8, <1>9, Kinds DEF Tree, Local
<1>11. Linked(pg2, R, R, R, rank)
  <2>1. 0 # no /\ 0 \in Nos
    BY <1>1, ConstantsOK DEF Tree, Linked, Header, TreePages, IsTree, Nos
  <2>2. pg2[0] = pg[0]
    BY <1>7, <2>1
  <2>3. \A p \in Nos : Len(pg2[p].es) >= Len(pg[p].es) /\ Len(pg[p].es) \in Nat
    <3> TAKE p \in Nos
    <3>1. pg[p].es \in Seq(Entries)
      BY <1>1 DEF Files, Page
    <3> QED BY <1>3, <1>4, <1>7, <3>1, SMTT(30)
  <2>4. \A p \in Leaves(pg2) : pg2[p].next # 0 => pg2[p].next \in Leaves(pg2) /\ Len(pg2[pg2[p].next].es) > 0
    <3> SUFFICES ASSUME NEW p \in Leaves(pg), pg[p].next # 0 PROVE pg[p].next \in Leaves(pg) /\ Len(pg2[pg[p].next].es) > 0
      BY <1>7, <1>9, Kinds
    <3>1. pg[p].next \in Leaves(pg) /\ Len(pg[pg[p].next].es) > 0
      BY DEF Tree, Linked
    <3>2. pg[p].next \in Nos
      BY <3>1 DEF Leaves
    <3>3. Len(pg2[pg[p].next].es) \in Nat
      BY <3>2, <1>8 DEF Files, Page
    <3> QED BY <2>3, <3>1, <3>2, <3>3
  <2>5. \A p \in Nodes(pg) : pg2[p].kids = pg[p].kids
    BY <1>7, Kinds
  <2>6. Linked(pg, R, R, R, rank)
    BY DEF Tree
  <2>7. \A p, q \in Nodes(pg2) : \A i \in 1..Len(pg2[p].kids), j \in 1..Len(pg2[q].kids) :
          pg2[p].kids[i] = pg2[q].kids[j] => p = q /\ i = j
    <3> SUFFICES ASSUME NEW p \in Nodes(pg), NEW q \in Nodes(pg),
                        NEW i \in 1..Len(pg[p].kids), NEW j \in 1..Len(pg[q].kids), pg[p].kids[i] = pg[q].kids[j]
                 PROVE  p = q /\ i = j
      BY <1>9, <2>5
    <3> QED BY <2>6 DEF Linked
  <2>8. \A p \in Nodes(pg2) : \A i \in 1..Len(pg2[p].kids) :
          /\ pg2[p].kids[i] \in TreePages(pg2) /\ rank[pg2[p].kids[i]] < rank[p]
          /\ pg2[p].kids[i] # R
    BY <1>9, <2>5, <2>6 DEF Linked
  <2> QED BY <1>9, <2>2, <2>4, <2>6, <2>7, <2>8 DEF Linked
<1>12. Fenced(pg2, R, R, R, low, high)
  <2>1. \A p \in TreePages(pg2) : \A i \in 1..Len(pg2[p].es) : pg2[p].es[i] \in low[p] /\ pg2[p].es[i] \notin high[p]
    <3> SUFFICES ASSUME NEW p \in TreePages(pg), NEW i \in 1..Len(pg2[p].es)
                 PROVE  pg2[p].es[i] \in low[p] /\ pg2[p].es[i] \notin high[p]
      BY <1>9
    <3>1. CASE p # no
      BY <1>7, <3>1, Kinds DEF Tree, Fenced
    <3>2. CASE p = no
      <4>1. i \in 1..(Len(s) + 1) /\ pg2[p].es[i] = es[i]
        BY <1>1, <1>4, <1>7, <3>2
      <4>2. es[i] = e \/ \E j \in 1..Len(s) : es[i] = s[j]
        <5> HIDE DEF s, k
        <5>1. CASE i < k + 1
          BY <1>3, <1>4, <4>1, <5>1
        <5>2. CASE i > k + 1
          BY <1>3, <1>4, <4>1, <5>2
        <5> QED BY <1>3, <1>4, <4>1, <5>1, <5>2
      <4> QED BY <1>1, <3>2, <4>1, <4>2 DEF Tree, Fenced
    <3> QED BY <3>1, <3>2
  <2>2. \A p \in Nodes(pg) : p # no
    BY Kinds
  <2> QED BY <1>7, <1>9, <2>1, <2>2, Kinds DEF Tree, Fenced
<1>13. \A i \in 1..Len(s) : \E j \in 1..Len(es) : es[j] = s[i] /\ j >= i /\ j <= i + 1
  <2> TAKE i \in 1..Len(s)
  <2> HIDE DEF s, k
  <2>1. CASE i <= k
    BY <1>3, <1>4, <2>1
  <2>2. CASE i > k
    <3>1. i + 1 \in 1..(Len(s) + 1) /\ ~(i + 1 < k + 1) /\ i + 1 # k + 1 /\ (i + 1) - 1 = i
      BY <1>3, <2>2
    <3>2. es[i + 1] = s[i]
      BY <1>4, <3>1
    <3> QED BY <1>3, <1>4, <3>1, <3>2
  <2> QED BY <1>3, <2>1, <2>2
<1>14. Stored(pg2, E \cup {e}, low, high)
  <2>1. E \cup {e} \subseteq Entries
    BY DEF Tree, Stored
  <2>2. ASSUME NEW p \in Leaves(pg), NEW x \in E \cup {e}, x \in low[p], x \notin high[p]
        PROVE  \E i \in 1..Len(pg2[p].es) : pg2[p].es[i] = x
    <3>1. CASE p # no
      <4>1. x \in E
        BY <1>1, <2>2, <3>1 DEF Tree, Stored
      <4> QED BY <1>7, <2>2, <3>1, <4>1, Kinds DEF Tree, Stored
    <3>2. CASE p = no /\ x = e
      <4>1. es[k + 1] = e /\ k + 1 \in 1..Len(es)
        <5> HIDE DEF s, k
        <5> QED BY <1>3, <1>4
      <4> HIDE DEF k
      <4> QED BY <1>1, <1>7, <3>2, <4>1
    <3>3. CASE p = no /\ x # e
      <4>1. PICK i \in 1..Len(s) : s[i] = x
        BY <2>2, <3>3 DEF Tree, Stored
      <4>2. PICK j \in 1..Len(es) : es[j] = s[i]
        BY <1>13
      <4> QED BY <1>1, <1>7, <3>3, <4>1, <4>2
    <3> QED BY <3>1, <3>2, <3>3
  <2>3. ASSUME NEW p \in Leaves(pg), NEW i \in 1..Len(pg2[p].es) PROVE pg2[p].es[i] \in E \cup {e}
    <3>1. CASE p # no
      BY <1>7, <2>3, <3>1, Kinds DEF Tree, Stored
    <3>2. CASE p = no
      <4>1. i \in 1..(Len(s) + 1) /\ pg2[p].es[i] = es[i]
        BY <1>1, <1>4, <1>7, <2>3, <3>2
      <4>2. es[i] = e \/ \E j \in 1..Len(s) : es[i] = s[j]
        <5> HIDE DEF s, k
        <5>1. CASE i < k + 1
          BY <1>3, <1>4, <4>1, <5>1
        <5>2. CASE i > k + 1
          BY <1>3, <1>4, <4>1, <5>2
        <5> QED BY <1>3, <1>4, <4>1, <5>1, <5>2
      <4> QED BY <1>5, <4>1, <4>2
    <3> QED BY <3>1, <3>2
  <2>4. \A p, q \in Leaves(pg) : \A x \in Points :
          x \in low[p] /\ x \notin high[p] /\ x \in low[q] /\ x \notin high[q] => p = q
    BY DEF Tree, Stored
  <2> QED BY <1>9, <2>1, <2>2, <2>3, <2>4 DEF Stored
<1>15. Tree(pg2, R, E \cup {e}, R, R, rank, low, high)
  BY <1>10, <1>11, <1>12, <1>14 DEF Tree
<1> QED BY <1>4, <1>13, <1>15 DEF pg2

\* Positions are in the order of the entries.
LEMMA AscendingIff ==
  ASSUME NEW s \in Seq(Entries), Ascending(s), NEW i \in 1..Len(s), NEW j \in 1..Len(s)
  PROVE  EntryLess(s[i], s[j]) <=> i < j
<1>1. s[i] \in Points /\ s[j] \in Points /\ (i < j \/ i = j \/ j < i)
  BY EntryPoints
<1>2. i < j => EntryLess(s[i], s[j])
  BY DEF Ascending
<1>3. j < i => EntryLess(s[j], s[i])
  BY DEF Ascending
<1> QED BY <1>1, <1>2, <1>3, Order

\* The points from x on.
LEMMA FromPoint ==
  ASSUME NEW x \in Points
  PROVE  Upward(AtLeast(x)) /\ x \in AtLeast(x) /\ AtLeast(x) \in SUBSET Points
BY Order DEF Upward, AtLeast

\* A part of an ascending sequence.
LEMMA AscendingCut ==
  ASSUME NEW s \in Seq(Entries), Ascending(s), NEW m \in 1..(Len(s) + 1), NEW n \in 0..Len(s), m <= n + 1
  PROVE  Ascending(SubSeq(s, m, n))
<1>1. /\ Len(SubSeq(s, m, n)) = n - m + 1
      /\ \A k \in 1..(n - m + 1) : SubSeq(s, m, n)[k] = s[m + k - 1]
  BY Cut
<1> SUFFICES ASSUME NEW i \in 1..(n - m + 1), NEW j \in 1..(n - m + 1), i < j
             PROVE  EntryLess(s[m + i - 1], s[m + j - 1])
  BY <1>1 DEF Ascending
<1>2. m + i - 1 \in 1..Len(s) /\ m + j - 1 \in 1..Len(s) /\ m + i - 1 < m + j - 1
  OBVIOUS
<1> QED BY <1>2 DEF Ascending

\* leaf_build, twice: the upper part of a leaf moves to the free page r.
LEMMA SplitLeaf ==
  ASSUME NEW pg, NEW R, NEW E, NEW rank, NEW low, NEW high, Tree(pg, R, E, R, R, rank, low, high),
         NEW no \in Leaves(pg), NEW r \in Nos, r \notin TreePages(pg), r # 0,
         NEW mid \in 1..(Len(pg[no].es) - 1)
  PROVE  LET s == pg[no].es
             pg2 == [pg EXCEPT ![r] = Leaf(SubSeq(s, mid + 1, Len(s)), pg[no].next), ![no] = Leaf(SubSeq(s, 1, mid), r)]
         IN \E rank2, low2, high2 : Tree(pg2, R, E, no, r, rank2, low2, high2) /\ Pending(no, r, s[mid + 1], low2, high2)
<1> DEFINE s == pg[no].es
           n == Len(s)
           a == SubSeq(s, 1, mid)
           b == SubSeq(s, mid + 1, n)
           sep == s[mid + 1]
           pg2 == [pg EXCEPT ![r] = Leaf(b, pg[no].next), ![no] = Leaf(a, r)]
           rank2 == [rank EXCEPT ![r] = rank[no]]
           low2 == [low EXCEPT ![r] = AtLeast(sep)]
           high2 == [high EXCEPT ![r] = high[no], ![no] = AtLeast(sep)]
<1>1. /\ no \in Nos /\ no \in TreePages(pg) /\ r # no /\ pg \in Files /\ pg[no] \in Page /\ s \in Seq(Entries)
      /\ Ascending(s) /\ pg[no].next \in Nos /\ n \in Nat
  BY Kinds DEF Tree, Local, Leaves, Files, Page
<1>2. mid + 1 \in 1..n /\ mid \in 1..n /\ mid \in Nat /\ mid >= 1 /\ mid < n
  <2>1. mid \in 1..(n - 1)
    OBVIOUS
  <2> HIDE DEF n
  <2> QED BY <1>1, <2>1
<1>3. a \in Seq(Entries) /\ Len(a) = mid /\ (\A i \in 1..mid : a[i] = s[i]) /\ Ascending(a)
  <2> HIDE DEF s, n
  <2>0. 1 \in 1..(Len(s) + 1) /\ mid \in 0..Len(s) /\ 1 <= mid + 1 /\ mid - 1 + 1 = mid
    BY <1>1, <1>2 DEF n
  <2>1. \A i \in 1..mid : 1 + i - 1 = i
    OBVIOUS
  <2>2. /\ SubSeq(s, 1, mid) \in Seq(Entries) /\ Len(SubSeq(s, 1, mid)) = mid - 1 + 1
        /\ \A k \in 1..(mid - 1 + 1) : SubSeq(s, 1, mid)[k] = s[1 + k - 1]
    BY <1>1, <2>0, Cut
  <2>3. Ascending(SubSeq(s, 1, mid))
    BY <1>1, <2>0, AscendingCut
  <2> QED BY <2>0, <2>1, <2>2, <2>3
<1>4. b \in Seq(Entries) /\ Len(b) = n - mid /\ (\A i \in 1..(n - mid) : b[i] = s[mid + i]) /\ Ascending(b)
  <2> HIDE DEF s
  <2>0. mid + 1 \in 1..(Len(s) + 1) /\ n \in 0..Len(s) /\ mid + 1 <= n + 1 /\ n - (mid + 1) + 1 = n - mid
    BY <1>1, <1>2
  <2>1. \A i \in 1..(n - mid) : mid + 1 + i - 1 = mid + i
    BY <1>1, <1>2
  <2>2. /\ b \in Seq(Entries) /\ Len(b) = n - (mid + 1) + 1
        /\ \A k \in 1..(n - (mid + 1) + 1) : b[k] = s[mid + 1 + k - 1]
    BY <1>1, <2>0, Cut
  <2>3. Ascending(b)
    BY <1>1, <2>0, AscendingCut
  <2> QED BY <2>0, <2>1, <2>2, <2>3
<1>5. sep \in Entries /\ sep \in Points /\ sep \in low[no] /\ sep \notin high[no]
  BY <1>1, <1>2, EntryPoints DEF Tree, Fenced
<1> HIDE DEF a, b
<1>6. ASSUME NEW p \in Nos
      PROVE  /\ p # no /\ p # r => pg2[p] = pg[p]
             /\ pg2[no] = Leaf(a, r) /\ pg2[r] = Leaf(b, pg[no].next)
  BY <1>1 DEF Files
<1>7. pg2 \in Files
  <2>1. Leaf(a, r) \in Page /\ Leaf(b, pg[no].next) \in Page
    BY <1>1, <1>3, <1>4 DEF Leaf, Page
  <2> QED BY <1>1, <2>1 DEF Files
<1>8. rank \in [Nos -> Nat] /\ low \in [Nos -> SUBSET Points] /\ high \in [Nos -> SUBSET Points]
  BY DEF Tree, Linked, Fenced
<1>9. /\ rank2 \in [Nos -> Nat] /\ low2 \in [Nos -> SUBSET Points] /\ high2 \in [Nos -> SUBSET Points]
      /\ \A p \in Nos : /\ rank2[p] = IF p = r THEN rank[no] ELSE rank[p]
                        /\ low2[p] = IF p = r THEN AtLeast(sep) ELSE low[p]
                        /\ high2[p] = IF p = r THEN high[no] ELSE IF p = no THEN AtLeast(sep) ELSE high[p]
  BY <1>1, <1>5, <1>8, FromPoint
<1> HIDE DEF pg2, rank2, low2, high2
<1>10. Leaves(pg2) = Leaves(pg) \cup {r} /\ Nodes(pg2) = Nodes(pg) /\ TreePages(pg2) = TreePages(pg) \cup {r}
  <2>1. pg2[no].type = "leaf" /\ pg2[r].type = "leaf"
    BY <1>1, <1>6 DEF Leaf
  <2>2. pg[r].type # "leaf" /\ pg[r].type # "node" /\ pg[no].type = "leaf"
    BY DEF TreePages, IsTree, Leaves
  <2> QED BY <1>6, <2>1, <2>2 DEF Leaves, Nodes, TreePages, IsTree
<1>11. \A p \in Nodes(pg) : p \in Nos /\ p # no /\ p # r /\ pg2[p] = pg[p]
  BY <1>6, Kinds
<1>12. Local(pg2)
  <2>1. \A p \in TreePages(pg2) : Ascending(pg2[p].es)
    <3> TAKE p \in TreePages(pg2)
    <3>1. p \in Nos /\ (p = r \/ p \in TreePages(pg))
      BY <1>10, Kinds
    <3>2. CASE p = r \/ p = no
      BY <1>3, <1>4, <1>6, <3>1, <3>2 DEF Leaf
    <3>3. CASE p # r /\ p # no
      BY <1>6, <3>1, <3>3 DEF Tree, Local
    <3> QED BY <3>2, <3>3
  <2> QED BY <1>7, <1>10, <1>11, <2>1 DEF Tree, Local
<1>13. Linked(pg2, R, no, r, rank2)
  <2>0. Linked(pg, R, R, R, rank)
    BY DEF Tree
  <2>1. 0 # no /\ 0 \in Nos /\ R \in Nos /\ R # r
    BY <1>1, <2>0, Kinds, ConstantsOK DEF Linked, Header, TreePages, IsTree, Nos
  <2>2. pg2[0] = pg[0]
    BY <1>6, <2>1
  <2>3. \A p \in Nodes(pg) : \A i \in 1..Len(pg[p].kids) :
          /\ pg[p].kids[i] \in TreePages(pg) /\ rank[pg[p].kids[i]] < rank[p] /\ pg[p].kids[i] # R
    BY <2>0 DEF Linked
  <2>4. \A p \in Nodes(pg2) : \A i \in 1..Len(pg2[p].kids) :
          /\ pg2[p].kids[i] \in TreePages(pg2) /\ rank2[pg2[p].kids[i]] < rank2[p]
          /\ pg2[p].kids[i] # R /\ pg2[p].kids[i] # r
    <3> SUFFICES ASSUME NEW p \in Nodes(pg), NEW i \in 1..Len(pg[p].kids)
                 PROVE  /\ pg[p].kids[i] \in TreePages(pg2) /\ rank2[pg[p].kids[i]] < rank2[p]
                        /\ pg[p].kids[i] # R /\ pg[p].kids[i] # r
      BY <1>10, <1>11
    <3> DEFINE c == pg[p].kids[i]
    <3>1. c \in TreePages(pg) /\ c \in Nos /\ c # r /\ rank[c] < rank[p] /\ c # R
      BY <2>3, Kinds
    <3> HIDE DEF c
    <3>2. rank2[c] = rank[c] /\ rank2[p] = rank[p]
      BY <1>9, <1>11, <3>1
    <3> QED BY <1>10, <3>1, <3>2 DEF c
  <2>5. \A p, q \in Nodes(pg2) : \A i \in 1..Len(pg2[p].kids), j \in 1..Len(pg2[q].kids) :
          pg2[p].kids[i] = pg2[q].kids[j] => p = q /\ i = j
    <3> SUFFICES ASSUME NEW p \in Nodes(pg), NEW q \in Nodes(pg),
                        NEW i \in 1..Len(pg[p].kids), NEW j \in 1..Len(pg[q].kids), pg[p].kids[i] = pg[q].kids[j]
                 PROVE  p = q /\ i = j
      BY <1>10, <1>11
    <3> QED BY <2>0 DEF Linked
  <2>6. ASSUME NEW p \in Leaves(pg2), pg2[p].next # 0
        PROVE  pg2[p].next \in Leaves(pg2) /\ Len(pg2[pg2[p].next].es) > 0
    <3>1. Len(pg2[r].es) > 0 /\ Len(pg2[no].es) > 0
      BY <1>1, <1>2, <1>3, <1>4, <1>6 DEF Leaf
    <3>2. ASSUME NEW q \in Leaves(pg), pg[q].next # 0
          PROVE  pg[q].next \in Leaves(pg) /\ Len(pg2[pg[q].next].es) > 0
      <4>1. pg[q].next \in Leaves(pg) /\ Len(pg[pg[q].next].es) > 0
        BY <2>0, <3>2 DEF Linked
      <4> QED BY <1>6, <3>1, <4>1, Kinds
    <3>3. p \in Nos
      BY Kinds
    <3>4. CASE p = no
      <4>1. pg2[p].next = r
        BY <1>6, <3>3, <3>4 DEF Leaf
      <4> QED BY <1>10, <3>1, <4>1
    <3>5. CASE p = r
      <4>1. pg2[p].next = pg[no].next
        BY <1>6, <3>3, <3>5 DEF Leaf
      <4> QED BY <1>10, <2>6, <3>2, <4>1
    <3>6. CASE p # r /\ p # no
      <4>1. pg2[p] = pg[p] /\ p \in Leaves(pg)
        BY <1>6, <1>10, <3>3, <3>6
      <4> QED BY <1>10, <2>6, <3>2, <4>1
    <3> QED BY <3>4, <3>5, <3>6
  <2>7. no \in TreePages(pg2) /\ r \in TreePages(pg2) /\ R \in TreePages(pg2) /\ rank2[no] = rank2[r]
    BY <1>1, <1>9, <1>10, <2>0 DEF Linked
  <2> QED BY <1>9, <2>0, <2>1, <2>2, <2>4, <2>5, <2>6, <2>7 DEF Linked
<1>14. Upward(low[no]) /\ Upward(high[no]) /\ Upward(AtLeast(sep))
  BY <1>1, <1>5, FromPoint DEF Tree, Fenced
<1>15. Fenced(pg2, R, no, r, low2, high2)
  <2>0. Fenced(pg, R, R, R, low, high) /\ Linked(pg, R, R, R, rank)
    BY DEF Tree
  <2>1. low2[R] = Points /\ Reach(R, no, r, high2) = {}
    <3>1. R \in Nos /\ R # r
      BY <2>0, Kinds DEF Linked
    <3> QED BY <1>9, <2>0, <3>1 DEF Fenced, Reach
  <2>2. ASSUME NEW p \in TreePages(pg2)
        PROVE  /\ Upward(low2[p]) /\ Upward(high2[p])
               /\ \A i \in 1..Len(pg2[p].es) : pg2[p].es[i] \in low2[p] /\ pg2[p].es[i] \notin high2[p]
    <3>1. p \in Nos /\ (p = r \/ p \in TreePages(pg))
      BY <1>10, Kinds
    <3>2. CASE p = r
      <4>1. Upward(low2[p]) /\ Upward(high2[p]) /\ pg2[p].es = b
        BY <1>6, <1>9, <1>14, <3>1, <3>2 DEF Leaf
      <4>2. ASSUME NEW i \in 1..(n - mid) PROVE b[i] \in AtLeast(sep) /\ b[i] \notin high[no]
        <5>1. mid + i \in 1..n /\ ~(mid + i < mid + 1)
          BY <1>1, <1>2
        <5>2. b[i] = s[mid + i] /\ s[mid + i] \in Points
          BY <1>1, <1>4, <5>1, EntryPoints
        <5>3. ~EntryLess(s[mid + i], sep)
          BY <1>1, <1>2, <5>1, AscendingIff
        <5>4. s[mid + i] \notin high[no]
          BY <1>1, <2>0, <5>1 DEF Fenced
        <5> QED BY <5>2, <5>3, <5>4 DEF AtLeast
      <4> QED BY <1>4, <1>9, <3>1, <3>2, <4>1, <4>2
    <3>3. CASE p = no
      <4>1. Upward(low2[p]) /\ Upward(high2[p]) /\ pg2[p].es = a
        BY <1>1, <1>6, <1>9, <1>14, <3>1, <3>3 DEF Leaf
      <4>2. ASSUME NEW i \in 1..mid PROVE a[i] \in low[no] /\ a[i] \notin AtLeast(sep)
        <5>1. i \in 1..n /\ i < mid + 1
          BY <1>1, <1>2
        <5>2. a[i] = s[i]
          BY <1>3
        <5>3. EntryLess(s[i], sep)
          BY <1>1, <1>2, <5>1, AscendingIff
        <5>4. s[i] \in low[no]
          BY <1>1, <2>0, <5>1 DEF Fenced
        <5> QED BY <5>2, <5>3, <5>4 DEF AtLeast
      <4> QED BY <1>1, <1>3, <1>9, <3>1, <3>3, <4>1, <4>2
    <3>4. CASE p # r /\ p # no
      <4>1. pg2[p] = pg[p] /\ low2[p] = low[p] /\ high2[p] = high[p] /\ p \in TreePages(pg)
        BY <1>6, <1>9, <3>1, <3>4
      <4> QED BY <2>0, <4>1 DEF Fenced
    <3> QED BY <3>2, <3>3, <3>4
  <2>3. ASSUME NEW p \in Nodes(pg), NEW i \in 1..Len(pg[p].kids)
        PROVE  /\ low2[pg[p].kids[i]] = IF i = 1 THEN low2[p] ELSE AtLeast(pg[p].es[i - 1])
               /\ Reach(pg[p].kids[i], no, r, high2) = IF i = Len(pg[p].kids) THEN high2[p] ELSE AtLeast(pg[p].es[i])
    <3> DEFINE c == pg[p].kids[i]
    <3>1. c \in TreePages(pg) /\ c \in Nos /\ c # r
      BY <2>0, Kinds DEF Linked
    <3>2. /\ low[c] = IF i = 1 THEN low[p] ELSE AtLeast(pg[p].es[i - 1])
          /\ Reach(c, R, R, high) = IF i = Len(pg[p].kids) THEN high[p] ELSE AtLeast(pg[p].es[i])
      BY <2>0 DEF Fenced
    <3>3. low2[c] = low[c] /\ low2[p] = low[p] /\ high2[p] = high[p] /\ Reach(c, no, r, high2) = high[c]
      BY <1>9, <1>11, <3>1 DEF Reach
    <3>4. Reach(c, R, R, high) = high[c]
      BY DEF Reach
    <3> QED BY <3>2, <3>3, <3>4
  <2>4. ASSUME NEW p \in Leaves(pg2)
        PROVE  high2[p] = IF pg2[p].next = 0 THEN {} ELSE low2[pg2[p].next]
    <3>1. p \in Nos /\ (p = r \/ p \in Leaves(pg))
      BY <1>10, Kinds
    <3>2. ASSUME NEW q \in Leaves(pg) PROVE high[q] = IF pg[q].next = 0 THEN {} ELSE low2[pg[q].next]
      <4>1. pg[q].next # 0 => pg[q].next \in Nos /\ pg[q].next # r
        BY <2>0, Kinds DEF Linked
      <4> QED BY <1>9, <2>0, <4>1 DEF Fenced
    <3>3. CASE p = no
      BY <1>1, <1>6, <1>9, <3>3 DEF Leaf
    <3>4. CASE p = r
      <4>1. high2[p] = high[no] /\ pg2[p].next = pg[no].next
        BY <1>6, <1>9, <3>4 DEF Leaf
      <4> QED BY <3>2, <4>1
    <3>5. CASE p # r /\ p # no
      <4>1. pg2[p] = pg[p] /\ high2[p] = high[p] /\ p \in Leaves(pg)
        BY <1>6, <1>9, <3>1, <3>5
      <4> QED BY <3>2, <4>1
    <3> QED BY <3>3, <3>4, <3>5
  <2>5. \A p \in Nodes(pg2) : \A i \in 1..Len(pg2[p].kids) :
          /\ low2[pg2[p].kids[i]] = IF i = 1 THEN low2[p] ELSE AtLeast(pg2[p].es[i - 1])
          /\ Reach(pg2[p].kids[i], no, r, high2) = IF i = Len(pg2[p].kids) THEN high2[p] ELSE AtLeast(pg2[p].es[i])
    <3> TAKE p \in Nodes(pg2)
    <3>1. p \in Nodes(pg) /\ pg2[p] = pg[p]
      BY <1>10, <1>11
    <3> QED BY <2>3, <3>1
  <2> QED BY <1>9, <2>1, <2>2, <2>4, <2>5 DEF Fenced
<1>16. Stored(pg2, E, low2, high2)
  <2>0. Stored(pg, E, low, high)
    BY DEF Tree
  <2>a. \A x \in AtLeast(sep) : x \in Points /\ x \in low[no]
    BY <1>5, <1>14, Order DEF AtLeast, Upward
  <2>b. \A x \in high[no] : x \in AtLeast(sep)
    BY <1>5, <1>14, Order DEF AtLeast, Upward
  <2>1. ASSUME NEW p \in Leaves(pg2), NEW e \in E, e \in low2[p], e \notin high2[p]
        PROVE  \E i \in 1..Len(pg2[p].es) : pg2[p].es[i] = e
    <3>1. p \in Nos /\ (p = r \/ p \in Leaves(pg)) /\ e \in Points
      BY <1>10, <2>0, Kinds, EntryPoints DEF Stored
    <3>2. CASE p = r \/ p = no
      <4>1. e \in low[no] /\ e \notin high[no]
        BY <1>1, <1>9, <2>a, <2>b, <2>1, <3>2
      <4>2. PICK i \in 1..n : s[i] = e
        BY <2>0, <4>1 DEF Stored
      <4>3. EntryLess(s[i], sep) <=> i < mid + 1
        BY <1>1, <1>2, AscendingIff
      <4>4. CASE p = r
        <5>1. ~EntryLess(e, sep)
          BY <1>9, <2>1, <4>4 DEF AtLeast
        <5>2. i - mid \in 1..(n - mid) /\ mid + (i - mid) = i
          BY <1>1, <1>2, <4>2, <4>3, <5>1
        <5>3. pg2[p].es = b /\ b[i - mid] = e
          BY <1>4, <1>6, <3>1, <4>2, <4>4, <5>2 DEF Leaf
        <5> QED BY <1>4, <5>2, <5>3
      <4>5. CASE p = no
        <5>1. EntryLess(e, sep)
          BY <1>1, <1>9, <2>1, <3>1, <4>5 DEF AtLeast
        <5>2. i \in 1..mid
          BY <1>1, <1>2, <4>2, <4>3, <5>1
        <5>3. pg2[p].es = a /\ a[i] = e
          BY <1>3, <1>6, <3>1, <4>2, <4>5, <5>2 DEF Leaf
        <5> QED BY <1>3, <5>2, <5>3
      <4> QED BY <3>2, <4>4, <4>5
    <3>3. CASE p # r /\ p # no
      <4>1. pg2[p] = pg[p] /\ low2[p] = low[p] /\ high2[p] = high[p] /\ p \in Leaves(pg)
        BY <1>6, <1>9, <3>1, <3>3
      <4> QED BY <2>0, <2>1, <4>1 DEF Stored
    <3> QED BY <3>2, <3>3
  <2>2. ASSUME NEW p \in Leaves(pg2), NEW i \in 1..Len(pg2[p].es) PROVE pg2[p].es[i] \in E
    <3>1. p \in Nos /\ (p = r \/ p \in Leaves(pg)) /\ \A k \in 1..n : s[k] \in E
      BY <1>10, <2>0, Kinds DEF Stored
    <3>2. CASE p = r
      <4>1. pg2[p].es = b /\ i \in 1..(n - mid)
        BY <1>4, <1>6, <2>2, <3>2 DEF Leaf
      <4>2. b[i] = s[mid + i] /\ mid + i \in 1..n
        BY <1>1, <1>2, <1>4, <4>1
      <4> QED BY <3>1, <4>1, <4>2
    <3>3. CASE p = no
      <4>1. pg2[p].es = a /\ i \in 1..mid
        BY <1>1, <1>3, <1>6, <2>2, <3>3 DEF Leaf
      <4>2. a[i] = s[i] /\ i \in 1..n
        BY <1>1, <1>2, <1>3, <4>1
      <4> QED BY <3>1, <4>1, <4>2
    <3>4. CASE p # r /\ p # no
      <4>1. pg2[p] = pg[p] /\ p \in Leaves(pg)
        BY <1>6, <3>1, <3>4
      <4> QED BY <2>0, <2>2, <4>1 DEF Stored
    <3> QED BY <3>2, <3>3, <3>4
  <2>3. ASSUME NEW p \in Leaves(pg2), NEW q \in Leaves(pg2), NEW x \in Points,
               x \in low2[p], x \notin high2[p], x \in low2[q], x \notin high2[q]
        PROVE  p = q
    <3>1. p \in Nos /\ q \in Nos /\ (p = r \/ p \in Leaves(pg)) /\ (q = r \/ q \in Leaves(pg))
      BY <1>10, Kinds
    <3> DEFINE home(k) == IF k = r THEN no ELSE k
    <3>2. ASSUME NEW k \in Leaves(pg) \cup {r}, x \in low2[k], x \notin high2[k]
          PROVE  home(k) \in Leaves(pg) /\ x \in low[home(k)] /\ x \notin high[home(k)]
      <4>1. CASE k = r \/ k = no
        BY <1>1, <1>9, <2>a, <2>b, <3>2, <4>1
      <4>2. CASE k # r /\ k # no
        BY <1>9, <3>2, <4>2, Kinds
      <4> QED BY <4>1, <4>2
    <3>3. home(p) = home(q)
      BY <2>0, <2>3, <3>1, <3>2 DEF Stored
    <3>4. CASE p # q
      <4>1. {p, q} = {no, r}
        BY <3>3, <3>4
      <4> QED BY <1>1, <1>9, <2>3, <4>1
    <3> QED BY <3>4
  <2> QED BY <2>0, <2>1, <2>2, <2>3 DEF Stored
<1>17. Pending(no, r, sep, low2, high2)
  <2>1. s[1] \in low[no] /\ EntryLess(s[1], sep)
    <3>1. 1 \in 1..n /\ 1 < mid + 1
      BY <1>1, <1>2
    <3> QED BY <1>1, <1>2, <3>1, AscendingIff DEF Tree, Fenced
  <2> QED BY <1>1, <1>5, <1>9, <2>1 DEF Pending
<1>18. Tree(pg2, R, E, no, r, rank2, low2, high2)
  BY <1>12, <1>13, <1>15, <1>16 DEF Tree
<1>19. \E rank3, low3, high3 : Tree(pg2, R, E, no, r, rank3, low3, high3) /\ Pending(no, r, sep, low3, high3)
  <2> HIDE DEF sep
  <2> QED BY <1>17, <1>18
<1> QED BY <1>19 DEF pg2, a, b

\* Page no with the separator and the right page of its child j's split.
Seps(pg, no, j, sep) == InsertAt(pg[no].es, j + 1, sep)
Kids(pg, no, j, y) == InsertAt(pg[no].kids, j + 2, y)
WithChild(pg, no, j, sep, y) == [pg EXCEPT ![no] = Node(Seps(pg, no, j, sep), Kids(pg, no, j, y))]

\* y has been split off child j of page no.
Growing(pg, R, E, x, y, sep, rank, low, high, no, j) ==
  /\ Tree(pg, R, E, x, y, rank, low, high) /\ Pending(x, y, sep, low, high)
  /\ no \in Nodes(pg) /\ j \in 0..Len(pg[no].es) /\ pg[no].kids[j + 1] = x

\* node_insert_at: the parent of x gets the page y split off it. The page may
\* be longer by one than fits on it.
LEMMA AddChild ==
  ASSUME NEW pg, NEW R, NEW E, NEW x, NEW y, NEW sep, NEW rank, NEW low, NEW high, NEW no, NEW j,
         Growing(pg, R, E, x, y, sep, rank, low, high, no, j)
  PROVE  /\ Tree(WithChild(pg, no, j, sep, y), R, E, R, R, rank, low, high)
         /\ Seps(pg, no, j, sep) \in Seq(Entries) /\ Len(Seps(pg, no, j, sep)) = Len(pg[no].es) + 1
         /\ Kids(pg, no, j, y) \in Seq(Nos) /\ Len(Kids(pg, no, j, y)) = Len(Seps(pg, no, j, sep)) + 1
<1> SUFFICES ASSUME Tree(pg, R, E, x, y, rank, low, high), Pending(x, y, sep, low, high),
                    no \in Nodes(pg), j \in 0..Len(pg[no].es), pg[no].kids[j + 1] = x,
                    NEW seps, seps = InsertAt(pg[no].es, j + 1, sep), NEW kids, kids = InsertAt(pg[no].kids, j + 2, y)
             PROVE  /\ Tree([pg EXCEPT ![no] = Node(seps, kids)], R, E, R, R, rank, low, high)
                    /\ seps \in Seq(Entries) /\ Len(seps) = Len(pg[no].es) + 1 /\ kids \in Seq(Nos) /\ Len(kids) = Len(seps) + 1
  BY Zenon DEF Growing, WithChild, Seps, Kids
<1> DEFINE s == pg[no].es
           c == pg[no].kids
           n == Len(s)
           pg2 == [pg EXCEPT ![no] = Node(seps, kids)]
<1>1. /\ no \in Nos /\ no \in TreePages(pg) /\ pg \in Files /\ pg[no] \in Page /\ s \in Seq(Entries) /\ c \in Seq(Nos)
      /\ Ascending(s) /\ n \in Nat /\ Len(c) = n + 1
  BY Kinds DEF Tree, Local, Files, Page
<1>2. j \in Nat /\ j <= n /\ j + 1 \in 1..(n + 1) /\ j + 2 \in 1..(n + 2)
  <2>1. j \in 0..n
    OBVIOUS
  <2> HIDE DEF n
  <2> QED BY <1>1, <2>1
<1>3. sep \in Entries /\ sep \in Points /\ x # y /\ x \in TreePages(pg) /\ y \in TreePages(pg) /\ x \in Nos /\ y \in Nos
  BY Kinds, EntryPoints DEF Pending, Tree, Linked
<1>4. /\ seps \in Seq(Entries) /\ Len(seps) = n + 1
      /\ \A k \in 1..(n + 1) : seps[k] = IF k < j + 1 THEN s[k] ELSE IF k = j + 1 THEN sep ELSE s[k - 1]
  <2>1. seps = InsertAt(s, j + 1, sep) /\ s \in Seq(Entries) /\ j + 1 \in 1..(Len(s) + 1)
    BY <1>1, <1>2
  <2>2. /\ seps \in Seq(Entries) /\ Len(seps) = Len(s) + 1
        /\ \A k \in 1..(Len(s) + 1) : seps[k] = IF k < j + 1 THEN s[k] ELSE IF k = j + 1 THEN sep ELSE s[k - 1]
    <3> DEFINE i == j + 1
    <3>1. s \in Seq(Entries) /\ i \in 1..(Len(s) + 1) /\ sep \in Entries
      BY <1>3, <2>1
    <3> HIDE DEF s, i
    <3>2. /\ InsertAt(s, i, sep) \in Seq(Entries) /\ Len(InsertAt(s, i, sep)) = Len(s) + 1
          /\ \A k \in 1..(Len(s) + 1) :
               InsertAt(s, i, sep)[k] = IF k < i THEN s[k] ELSE IF k = i THEN sep ELSE s[k - 1]
      BY ONLY <3>1, Inserted
    <3> QED BY <2>1, <3>2 DEF i
  <2> QED BY <2>2
<1>5. /\ kids \in Seq(Nos) /\ Len(kids) = n + 2
      /\ \A k \in 1..(n + 2) : kids[k] = IF k < j + 2 THEN c[k] ELSE IF k = j + 2 THEN y ELSE c[k - 1]
  <2>1. kids = InsertAt(c, j + 2, y) /\ Len(c) + 1 = n + 2 /\ j + 2 \in 1..(Len(c) + 1)
    BY <1>1, <1>2
  <2>2. /\ kids \in Seq(Nos) /\ Len(kids) = Len(c) + 1
        /\ \A k \in 1..(Len(c) + 1) : kids[k] = IF k < j + 2 THEN c[k] ELSE IF k = j + 2 THEN y ELSE c[k - 1]
    <3> DEFINE i == j + 2
    <3>1. c \in Seq(Nos) /\ i \in 1..(Len(c) + 1) /\ y \in Nos
      BY <1>1, <1>3, <2>1
    <3> HIDE DEF c, i
    <3>2. /\ InsertAt(c, i, y) \in Seq(Nos) /\ Len(InsertAt(c, i, y)) = Len(c) + 1
          /\ \A k \in 1..(Len(c) + 1) :
               InsertAt(c, i, y)[k] = IF k < i THEN c[k] ELSE IF k = i THEN y ELSE c[k - 1]
      BY <3>1, Inserted
    <3> QED BY <2>1, <3>2 DEF i
  <2> QED BY <2>1, <2>2
<1>6. ASSUME NEW p \in Nos PROVE pg2[no] = Node(seps, kids) /\ (p # no => pg2[p] = pg[p])
  BY <1>1 DEF Files
<1>7. pg2 \in Files
  <2>1. Node(seps, kids) \in Page
    BY <1>4, <1>5, ConstantsOK DEF Node, Page, Nos
  <2> QED BY <1>1, <2>1 DEF Files
<1>8. pg2[no].type = "node" /\ pg2[no].es = seps /\ pg2[no].kids = kids /\ pg[no].type = "node"
  BY <1>1, <1>6 DEF Node, Nodes
<1> HIDE DEF pg2
<1>9. Leaves(pg2) = Leaves(pg) /\ Nodes(pg2) = Nodes(pg) /\ TreePages(pg2) = TreePages(pg)
  BY <1>6, <1>8 DEF Leaves, Nodes, TreePages, IsTree
<1>10. \A p \in Leaves(pg) : p \in Nos /\ p # no /\ pg2[p] = pg[p]
  BY <1>6, Kinds
<1>11. \A p \in Nodes(pg) : p # no => pg2[p] = pg[p]
  BY <1>6, Kinds
<1>L. Linked(pg, R, x, y, rank) /\ Fenced(pg, R, x, y, low, high) /\ Local(pg) /\ Stored(pg, E, low, high)
  BY DEF Tree
<1>P. /\ high[x] = AtLeast(sep) /\ low[y] = AtLeast(sep) /\ sep \in low[x] /\ sep \notin high[y]
      /\ \E z \in low[x] : EntryLess(z, sep)
  BY DEF Pending
<1>X. /\ low[x] = IF j + 1 = 1 THEN low[no] ELSE AtLeast(s[j])
      /\ high[y] = IF j + 1 = n + 1 THEN high[no] ELSE AtLeast(s[j + 1])
  <2>1. /\ low[c[j + 1]] = IF j + 1 = 1 THEN low[no] ELSE AtLeast(s[j + 1 - 1])
        /\ Reach(c[j + 1], x, y, high) = IF j + 1 = Len(c) THEN high[no] ELSE AtLeast(s[j + 1])
    BY <1>1, <1>2, <1>L DEF Fenced
  <2>2. j + 1 - 1 = j
    BY <1>2
  <2> QED BY <1>1, <2>1, <2>2 DEF Reach
<1>12. \A i \in 1..j : EntryLess(s[i], sep)
  <2> TAKE i \in 1..j
  <2>1. i \in 1..n /\ j \in 1..n /\ j + 1 # 1 /\ i <= j
    BY <1>1, <1>2
  <2>2. PICK z \in low[x] : EntryLess(z, sep)
    BY <1>P
  <2>3. z \in Points /\ ~EntryLess(z, s[j])
    BY <1>X, <2>1 DEF AtLeast
  <2>4. i = j \/ EntryLess(s[i], s[j])
    BY <1>1, <2>1 DEF Ascending
  <2>5. s[i] \in Points /\ s[j] \in Points
    BY <1>1, <2>1, EntryPoints
  <2> QED BY <1>3, <2>2, <2>3, <2>4, <2>5, Order
<1>13. \A i \in (j + 1)..n : EntryLess(sep, s[i])
  <2> TAKE i \in (j + 1)..n
  <2>1. i \in 1..n /\ j + 1 \in 1..n /\ j + 1 # n + 1 /\ (i = j + 1 \/ j + 1 < i)
    BY <1>1, <1>2
  <2>2. EntryLess(sep, s[j + 1])
    BY <1>3, <1>P, <1>X, <2>1 DEF AtLeast
  <2>4. i = j + 1 \/ EntryLess(s[j + 1], s[i])
    BY <1>1, <2>1 DEF Ascending
  <2>5. s[i] \in Points /\ s[j + 1] \in Points
    BY <1>1, <2>1, EntryPoints
  <2> QED BY <1>3, <2>2, <2>4, <2>5, Order
<1>14. Ascending(seps)
  <2>1. j \in 0..Len(s) /\ seps = InsertAt(s, j + 1, sep) /\ Len(s) = n
    OBVIOUS
  <2> HIDE DEF s, n
  <2> QED BY <1>1, <1>3, <1>12, <1>13, <2>1, AscendingInsert
<1>15. Local(pg2)
  <2>1. \A p \in TreePages(pg2) : Ascending(pg2[p].es)
    <3> TAKE p \in TreePages(pg2)
    <3>1. CASE p = no
      BY <1>8, <1>14, <3>1
    <3>2. CASE p # no
      BY <1>6, <1>9, <1>L, <3>2, Kinds DEF Local
    <3> QED BY <3>1, <3>2
  <2>2. \A p \in Nodes(pg2) : Len(pg2[p].kids) = Len(pg2[p].es) + 1
    <3> TAKE p \in Nodes(pg2)
    <3>1. CASE p = no
      <4>1. n \in Nat
        BY <1>1
      <4> HIDE DEF n
      <4> QED BY <1>4, <1>5, <1>8, <3>1, <4>1
    <3>2. CASE p # no
      BY <1>9, <1>11, <1>L, <3>2 DEF Local
    <3> QED BY <3>1, <3>2
  <2> QED BY <1>7, <2>1, <2>2 DEF Local
\* Where a child stands after, and where it stood before.
<1> DEFINE at(p, i) == IF p = no /\ i > j + 1 THEN i + 1 ELSE i
<1>16. ASSUME NEW p \in Nodes(pg), NEW k \in 1..Len(pg2[p].kids)
       PROVE  \/ p = no /\ k = j + 2 /\ pg2[p].kids[k] = y
              \/ \E i \in 1..Len(pg[p].kids) : k = at(p, i) /\ pg2[p].kids[k] = pg[p].kids[i]
  <2>1. CASE p # no
    BY <1>11, <1>16, <2>1
  <2>2. CASE p = no
    <3>1. k \in 1..(n + 2) /\ pg2[p].kids[k] = kids[k]
      BY <1>5, <1>8, <1>16, <2>2
    <3> HIDE DEF n
    <3>2. CASE k < j + 2
      <4>1. k \in 1..(n + 1) /\ k = at(no, k) /\ kids[k] = c[k]
        BY <1>1, <1>2, <1>5, <3>1, <3>2
      <4> QED BY <1>1, <2>2, <3>1, <4>1
    <3>3. CASE k > j + 2
      <4>1. k - 1 \in 1..(n + 1) /\ k = at(no, k - 1) /\ kids[k] = c[k - 1]
        BY <1>1, <1>2, <1>5, <3>1, <3>3
      <4> QED BY <1>1, <2>2, <3>1, <4>1
    <3>4. CASE k = j + 2
      BY <1>2, <1>5, <2>2, <3>1, <3>4
    <3> QED BY <1>1, <1>2, <3>1, <3>2, <3>3, <3>4
  <2> QED BY <2>1, <2>2
<1>17. Linked(pg2, R, R, R, rank)
  <2>1. pg2[0] = pg[0]
    <3>1. 0 # no /\ 0 \in Nos
      BY <1>L, <1>8, ConstantsOK DEF Linked, Header, Nos
    <3> QED BY <1>6, <3>1
  <2>2. \A p \in Nodes(pg) : \A i \in 1..Len(pg[p].kids) :
          /\ pg[p].kids[i] \in TreePages(pg) /\ rank[pg[p].kids[i]] < rank[p] /\ pg[p].kids[i] # R /\ pg[p].kids[i] # y
    BY <1>3, <1>L DEF Linked
  <2>3. \A p, q \in Nodes(pg) : \A i \in 1..Len(pg[p].kids), k \in 1..Len(pg[q].kids) :
          pg[p].kids[i] = pg[q].kids[k] => p = q /\ i = k
    BY <1>L DEF Linked
  <2>4. y \in TreePages(pg) /\ rank[y] < rank[no] /\ y # R
    <3>1. rank[x] < rank[no]
      BY <1>1, <1>2, <2>2
    <3> QED BY <1>3, <1>L, <3>1 DEF Linked
  <2>5. ASSUME NEW p \in Nodes(pg), NEW k \in 1..Len(pg2[p].kids)
        PROVE  pg2[p].kids[k] \in TreePages(pg) /\ rank[pg2[p].kids[k]] < rank[p] /\ pg2[p].kids[k] # R
    <3>1. CASE p = no /\ pg2[p].kids[k] = y
      BY <2>4, <3>1
    <3>2. CASE \E i \in 1..Len(pg[p].kids) : pg2[p].kids[k] = pg[p].kids[i]
      BY <2>2, <3>2
    <3> QED BY <1>16, <3>1, <3>2
  <2>6. ASSUME NEW p \in Nodes(pg), NEW q \in Nodes(pg), NEW k \in 1..Len(pg2[p].kids), NEW l \in 1..Len(pg2[q].kids),
               pg2[p].kids[k] = pg2[q].kids[l]
        PROVE  p = q /\ k = l
    <3>1. CASE pg2[p].kids[k] = y
      <4>1. ASSUME NEW q2 \in Nodes(pg), NEW m \in 1..Len(pg2[q2].kids), pg2[q2].kids[m] = y PROVE q2 = no /\ m = j + 2
        BY <1>16, <2>2, <4>1, ZenonT(40)
      <4>2. p = no /\ k = j + 2
        BY <3>1, <4>1
      <4>3. q = no /\ l = j + 2
        BY <2>6, <3>1, <4>1
      <4> QED BY <4>2, <4>3
    <3>2. CASE pg2[p].kids[k] # y
      <4>1. PICK i \in 1..Len(pg[p].kids) : k = at(p, i) /\ pg2[p].kids[k] = pg[p].kids[i]
        BY <1>16, <3>2
      <4>2. PICK m \in 1..Len(pg[q].kids) : l = at(q, m) /\ pg2[q].kids[l] = pg[q].kids[m]
        BY <1>16, <2>6, <3>2
      <4>3. p = q /\ i = m
        BY <2>3, <2>6, <4>1, <4>2
      <4> QED BY <4>1, <4>2, <4>3
    <3> QED BY <3>1, <3>2
  <2>7. \A p \in Leaves(pg) : pg[p].next # 0 => pg[p].next \in Leaves(pg) /\ Len(pg2[pg[p].next].es) > 0
    BY <1>10, <1>L DEF Linked
  <2>8. \A p \in Leaves(pg2) : pg2[p].next # 0 => pg2[p].next \in Leaves(pg2) /\ Len(pg2[pg2[p].next].es) > 0
    BY <1>9, <1>10, <2>7
  <2>9. rank \in [Nos -> Nat] /\ R \in TreePages(pg2) /\ pg2[0] = Header(R)
    BY <1>9, <1>L, <2>1 DEF Linked
  <2> QED BY <1>9, <2>5, <2>6, <2>8, <2>9 DEF Linked
<1>18. Fenced(pg2, R, R, R, low, high)
  <2>1. /\ low \in [Nos -> SUBSET Points] /\ high \in [Nos -> SUBSET Points] /\ low[R] = Points /\ high[R] = {}
    <3>1. R # x
      BY <1>1, <1>2, <1>L DEF Linked
    <3> QED BY <1>L, <3>1 DEF Fenced, Reach
  <2>2. ASSUME NEW p \in Nodes(pg), NEW i \in 1..Len(pg[p].kids), p # no \/ i # j + 1
        PROVE  /\ low[pg[p].kids[i]] = IF i = 1 THEN low[p] ELSE AtLeast(pg[p].es[i - 1])
               /\ high[pg[p].kids[i]] = IF i = Len(pg[p].kids) THEN high[p] ELSE AtLeast(pg[p].es[i])
    <3>1. pg[p].kids[i] # x
      <4>1. j + 1 \in 1..Len(pg[no].kids)
        BY <1>1, <1>2
      <4>2. pg[p].kids[i] = pg[no].kids[j + 1] => p = no /\ i = j + 1
        BY <1>L, <4>1 DEF Linked
      <4> QED BY <2>2, <4>2
    <3> QED BY <1>L, <3>1 DEF Fenced, Reach
  <2>3. Upward(low[no]) /\ Upward(high[no]) /\ \A i \in 1..n : s[i] \in low[no] /\ s[i] \notin high[no]
    BY <1>1, <1>L DEF Fenced
  <2>4. sep \in low[no]
    <3>1. CASE j = 0
      BY <1>P, <1>X, <3>1
    <3>2. CASE j # 0
      <4>1. j \in 1..n /\ j \in 1..j
        BY <1>1, <1>2, <3>2
      <4> QED BY <1>3, <1>12, <2>3, <4>1 DEF Upward
    <3> QED BY <3>1, <3>2
  <2>5. sep \notin high[no]
    <3>1. CASE j = n
      BY <1>P, <1>X, <3>1
    <3>2. CASE j # n
      <4>1. j + 1 \in 1..n /\ j + 1 \in (j + 1)..n
        BY <1>1, <1>2, <3>2
      <4>2. EntryLess(sep, s[j + 1]) /\ s[j + 1] \in Points
        BY <1>1, <1>13, <4>1, EntryPoints
      <4> QED BY <2>3, <4>1, <4>2 DEF Upward
    <3> QED BY <3>1, <3>2
  <2>6. ASSUME NEW k \in 1..(n + 1) PROVE seps[k] \in low[no] /\ seps[k] \notin high[no]
    <3> HIDE DEF n
    <3>1. CASE k < j + 1
      <4>1. k \in 1..n /\ seps[k] = s[k]
        BY <1>1, <1>2, <1>4, <3>1
      <4> QED BY <2>3, <4>1
    <3>2. CASE k > j + 1
      <4>1. k - 1 \in 1..n /\ seps[k] = s[k - 1]
        BY <1>1, <1>2, <1>4, <3>2
      <4> QED BY <2>3, <4>1
    <3>3. CASE k = j + 1
      BY <1>4, <2>4, <2>5, <3>3
    <3> QED BY <1>1, <1>2, <3>1, <3>2, <3>3
  <2>7. ASSUME NEW p \in TreePages(pg2)
        PROVE  /\ Upward(low[p]) /\ Upward(high[p])
               /\ \A i \in 1..Len(pg2[p].es) : pg2[p].es[i] \in low[p] /\ pg2[p].es[i] \notin high[p]
    <3>1. CASE p = no
      BY <1>4, <1>8, <2>3, <2>6, <3>1
    <3>2. CASE p # no
      BY <1>6, <1>9, <1>L, <2>7, <3>2, Kinds DEF Fenced
    <3> QED BY <3>1, <3>2
  <2>8. ASSUME NEW k \in 1..(n + 2)
        PROVE  /\ low[kids[k]] = IF k = 1 THEN low[no] ELSE AtLeast(seps[k - 1])
               /\ high[kids[k]] = IF k = n + 2 THEN high[no] ELSE AtLeast(seps[k])
    <3>0. n \in Nat /\ j \in Nat /\ j <= n /\ k \in Nat /\ 1 <= k /\ k <= n + 2 /\ Len(c) = n + 1
      BY <1>1, <1>2
    <3>a. \A i \in 1..(n + 1) : i # j + 1 =>
            /\ low[c[i]] = IF i = 1 THEN low[no] ELSE AtLeast(s[i - 1])
            /\ high[c[i]] = IF i = n + 1 THEN high[no] ELSE AtLeast(s[i])
      BY <2>2, <3>0
    <3> HIDE DEF n, c, s
    <3>1. CASE k < j + 1
      <4>1. /\ k \in 1..(n + 1) /\ k # j + 1 /\ kids[k] = c[k] /\ k # n + 1 /\ k # n + 2 /\ seps[k] = s[k]
            /\ k # 1 => seps[k - 1] = s[k - 1]
        BY <1>4, <1>5, <3>0, <3>1
      <4> QED BY <3>a, <4>1
    <3>2. CASE k = j + 1
      <4>1. /\ kids[k] = x /\ k # n + 2 /\ seps[k] = sep /\ k - 1 = j
            /\ k # 1 => seps[j] = s[j]
        BY <1>4, <1>5, <3>0, <3>2 DEF c
      <4> QED BY <1>P, <1>X, <3>2, <4>1
    <3>3. CASE k = j + 2
      <4>1. /\ kids[k] = y /\ k # 1 /\ k - 1 = j + 1 /\ seps[j + 1] = sep
            /\ (k = n + 2) <=> (j + 1 = n + 1)
            /\ k # n + 2 => seps[k] = s[j + 1]
        <5>1. k # n + 2 => seps[k] = s[j + 1]
          <6>1. k # n + 2 => k \in 1..(n + 1) /\ k - 1 = j + 1
            BY <3>0, <3>3
          <6> QED BY <1>4, <3>0, <3>3, <6>1
        <5> QED BY <1>4, <1>5, <3>0, <3>3, <5>1
      <4> QED BY <1>P, <1>X, <4>1
    <3>4. CASE k > j + 2
      <4>1. /\ k - 1 \in 1..(n + 1) /\ k - 1 # j + 1 /\ kids[k] = c[k - 1] /\ k - 1 # 1 /\ k # 1
            /\ k # n + 2 => seps[k] = s[k - 1]
        <5>1. k # n + 2 => seps[k] = s[k - 1]
          BY <1>4, <3>0, <3>4
        <5> QED BY <1>5, <3>0, <3>4, <5>1
      <4>2. /\ low[c[k - 1]] = AtLeast(s[(k - 1) - 1])
            /\ high[c[k - 1]] = IF k - 1 = n + 1 THEN high[no] ELSE AtLeast(s[k - 1])
        BY <3>a, <4>1
      <4>3. (k = n + 2) <=> (k - 1 = n + 1)
        BY <3>0
      <4>4. seps[k - 1] = s[(k - 1) - 1]
        <5> DEFINE m == k - 1
        <5>1. m \in 1..(n + 1) /\ ~(m < j + 1) /\ m # j + 1
          BY <3>0, <3>4
        <5> HIDE DEF m
        <5>2. seps[m] = s[m - 1]
          BY <1>4, <5>1
        <5> QED BY <5>2 DEF m
      <4> QED BY <4>1, <4>2, <4>3, <4>4
    <3> QED BY <3>0, <3>1, <3>2, <3>3, <3>4
  <2>9. ASSUME NEW p \in Nodes(pg2), NEW i \in 1..Len(pg2[p].kids)
        PROVE  /\ low[pg2[p].kids[i]] = IF i = 1 THEN low[p] ELSE AtLeast(pg2[p].es[i - 1])
               /\ Reach(pg2[p].kids[i], R, R, high) = IF i = Len(pg2[p].kids) THEN high[p] ELSE AtLeast(pg2[p].es[i])
    <3>0. \A k : Reach(k, R, R, high) = high[k]
      BY DEF Reach
    <3>1. CASE p = no
      <4>1. pg2[p].kids = kids /\ pg2[p].es = seps /\ Len(kids) = n + 2
        BY <1>5, <1>8, <3>1
      <4> QED BY <2>8, <2>9, <3>0, <3>1, <4>1
    <3>2. CASE p # no
      <4>1. p \in Nodes(pg) /\ pg2[p] = pg[p]
        BY <1>9, <1>11, <3>2
      <4>2. /\ low[pg[p].kids[i]] = IF i = 1 THEN low[p] ELSE AtLeast(pg[p].es[i - 1])
            /\ high[pg[p].kids[i]] = IF i = Len(pg[p].kids) THEN high[p] ELSE AtLeast(pg[p].es[i])
        BY <2>2, <3>2, <4>1
      <4> QED BY <3>0, <4>1, <4>2
    <3> QED BY <3>1, <3>2
  <2>10. \A p \in Leaves(pg2) : high[p] = IF pg2[p].next = 0 THEN {} ELSE low[pg2[p].next]
    BY <1>9, <1>10, <1>L DEF Fenced
  <2>11. Reach(R, R, R, high) = {}
    BY <2>1 DEF Reach
  <2> QED BY <2>1, <2>7, <2>9, <2>10, <2>11 DEF Fenced
<1>19. Stored(pg2, E, low, high)
  BY <1>9, <1>10, <1>L DEF Stored
<1>20. Tree(pg2, R, E, R, R, rank, low, high)
  BY <1>15, <1>17, <1>18, <1>19 DEF Tree
<1> QED BY <1>1, <1>4, <1>5, <1>20 DEF pg2

\* node_build, twice: the upper part of a node moves to the free page r, its
\* middle separator to the parent.
LEMMA SplitNode ==
  ASSUME NEW pg, NEW R, NEW E, NEW rank, NEW low, NEW high, Tree(pg, R, E, R, R, rank, low, high),
         NEW no \in Nodes(pg), NEW r \in Nos, r \notin TreePages(pg), r # 0,
         NEW mid \in 1..(Len(pg[no].es) - 1)
  PROVE  LET s == pg[no].es
             c == pg[no].kids
             pg2 == [pg EXCEPT ![r] = Node(SubSeq(s, mid + 2, Len(s)), SubSeq(c, mid + 2, Len(c))),
                               ![no] = Node(SubSeq(s, 1, mid), SubSeq(c, 1, mid + 1))]
         IN \E rank2, low2, high2 : Tree(pg2, R, E, no, r, rank2, low2, high2) /\ Pending(no, r, s[mid + 1], low2, high2)
<1> DEFINE s == pg[no].es
           c == pg[no].kids
           n == Len(s)
           a == SubSeq(s, 1, mid)
           ak == SubSeq(c, 1, mid + 1)
           b == SubSeq(s, mid + 2, n)
           bk == SubSeq(c, mid + 2, Len(c))
           sep == s[mid + 1]
           pg2 == [pg EXCEPT ![r] = Node(b, bk), ![no] = Node(a, ak)]
           rank2 == [rank EXCEPT ![r] = rank[no]]
           low2 == [low EXCEPT ![r] = AtLeast(sep)]
           high2 == [high EXCEPT ![r] = high[no], ![no] = AtLeast(sep)]
<1>1. /\ no \in Nos /\ no \in TreePages(pg) /\ r # no /\ pg \in Files /\ pg[no] \in Page /\ s \in Seq(Entries)
      /\ c \in Seq(Nos) /\ Ascending(s) /\ n \in Nat /\ Len(c) = n + 1
  BY Kinds DEF Tree, Local, Files, Page
<1>2. mid + 1 \in 1..n /\ mid \in 1..n /\ mid \in Nat /\ mid >= 1 /\ mid < n
  <2>1. mid \in 1..(n - 1)
    OBVIOUS
  <2> HIDE DEF n
  <2> QED BY <1>1, <2>1
<1>3. a \in Seq(Entries) /\ Len(a) = mid /\ (\A i \in 1..mid : a[i] = s[i]) /\ Ascending(a)
  <2> HIDE DEF s, n
  <2>0. 1 \in 1..(Len(s) + 1) /\ mid \in 0..Len(s) /\ 1 <= mid + 1 /\ mid - 1 + 1 = mid
    BY <1>1, <1>2 DEF n
  <2>1. \A i \in 1..mid : 1 + i - 1 = i
    OBVIOUS
  <2>2. /\ SubSeq(s, 1, mid) \in Seq(Entries) /\ Len(SubSeq(s, 1, mid)) = mid - 1 + 1
        /\ \A k \in 1..(mid - 1 + 1) : SubSeq(s, 1, mid)[k] = s[1 + k - 1]
    BY <1>1, <2>0, Cut
  <2>3. Ascending(SubSeq(s, 1, mid))
    BY <1>1, <2>0, AscendingCut
  <2> QED BY <2>0, <2>1, <2>2, <2>3
<1>4. b \in Seq(Entries) /\ Len(b) = n - mid - 1 /\ (\A i \in 1..(n - mid - 1) : b[i] = s[mid + 1 + i]) /\ Ascending(b)
  <2> DEFINE m == mid + 2
  <2>0. /\ m \in 1..(Len(s) + 1) /\ n \in 0..Len(s) /\ m <= n + 1 /\ n - m + 1 = n - mid - 1
        /\ s \in Seq(Entries) /\ Ascending(s) /\ b = SubSeq(s, m, n)
    BY <1>1, <1>2
  <2>1. \A i \in 1..(n - mid - 1) : m + i - 1 = mid + 1 + i
    BY <1>1, <1>2
  <2> HIDE DEF s, m, n, b
  <2>2. /\ SubSeq(s, m, n) \in Seq(Entries) /\ Len(SubSeq(s, m, n)) = n - m + 1
        /\ \A k \in 1..(n - m + 1) : SubSeq(s, m, n)[k] = s[m + k - 1]
    BY <2>0, Cut
  <2>3. Ascending(SubSeq(s, m, n))
    BY <2>0, AscendingCut
  <2> QED BY <2>0, <2>1, <2>2, <2>3
<1>5. ak \in Seq(Nos) /\ Len(ak) = mid + 1 /\ \A i \in 1..(mid + 1) : ak[i] = c[i]
  <2> DEFINE m == mid + 1
  <2>0. 1 \in 1..(Len(c) + 1) /\ m \in 0..Len(c) /\ 1 <= m + 1 /\ m - 1 + 1 = m /\ c \in Seq(Nos) /\ ak = SubSeq(c, 1, m)
    BY <1>1, <1>2
  <2>1. \A i \in 1..m : 1 + i - 1 = i
    OBVIOUS
  <2> HIDE DEF c, m, ak
  <2>2. /\ SubSeq(c, 1, m) \in Seq(Nos) /\ Len(SubSeq(c, 1, m)) = m - 1 + 1
        /\ \A k \in 1..(m - 1 + 1) : SubSeq(c, 1, m)[k] = c[1 + k - 1]
    BY <2>0, Cut
  <2> QED BY <2>0, <2>1, <2>2 DEF m
<1>6. bk \in Seq(Nos) /\ Len(bk) = n - mid /\ \A i \in 1..(n - mid) : bk[i] = c[mid + 1 + i]
  <2> DEFINE m == mid + 2
             l == Len(c)
  <2>0. /\ m \in 1..(Len(c) + 1) /\ l \in 0..Len(c) /\ m <= l + 1 /\ l - m + 1 = n - mid
        /\ c \in Seq(Nos) /\ bk = SubSeq(c, m, l)
    BY <1>1, <1>2
  <2>1. \A i \in 1..(n - mid) : m + i - 1 = mid + 1 + i
    BY <1>1, <1>2
  <2> HIDE DEF c, m, l, n, bk
  <2>2. /\ SubSeq(c, m, l) \in Seq(Nos) /\ Len(SubSeq(c, m, l)) = l - m + 1
        /\ \A k \in 1..(l - m + 1) : SubSeq(c, m, l)[k] = c[m + k - 1]
    BY <2>0, Cut
  <2> QED BY <2>0, <2>1, <2>2
<1>7. sep \in Entries /\ sep \in Points /\ sep \in low[no] /\ sep \notin high[no]
  BY <1>1, <1>2, EntryPoints DEF Tree, Fenced
<1> HIDE DEF a, b, ak, bk
<1>8. ASSUME NEW p \in Nos
      PROVE  /\ p # no /\ p # r => pg2[p] = pg[p]
             /\ pg2[no] = Node(a, ak) /\ pg2[r] = Node(b, bk)
  BY <1>1 DEF Files
<1>9. pg2 \in Files
  <2>1. Node(a, ak) \in Page /\ Node(b, bk) \in Page
    BY <1>3, <1>4, <1>5, <1>6, ConstantsOK DEF Node, Page, Nos
  <2> QED BY <1>1, <2>1 DEF Files
<1>10. /\ pg2[no].type = "node" /\ pg2[no].es = a /\ pg2[no].kids = ak
       /\ pg2[r].type = "node" /\ pg2[r].es = b /\ pg2[r].kids = bk
  <2>1. pg2[no] = Node(a, ak) /\ pg2[r] = Node(b, bk)
    BY <1>8
  <2> HIDE DEF pg2
  <2> QED BY <2>1 DEF Node
<1>11. rank \in [Nos -> Nat] /\ low \in [Nos -> SUBSET Points] /\ high \in [Nos -> SUBSET Points]
  BY DEF Tree, Linked, Fenced
<1>12. /\ rank2 \in [Nos -> Nat] /\ low2 \in [Nos -> SUBSET Points] /\ high2 \in [Nos -> SUBSET Points]
       /\ \A p \in Nos : /\ rank2[p] = IF p = r THEN rank[no] ELSE rank[p]
                         /\ low2[p] = IF p = r THEN AtLeast(sep) ELSE low[p]
                         /\ high2[p] = IF p = r THEN high[no] ELSE IF p = no THEN AtLeast(sep) ELSE high[p]
  BY <1>1, <1>7, <1>11, FromPoint
<1> HIDE DEF pg2, rank2, low2, high2
<1>13. Leaves(pg2) = Leaves(pg) /\ Nodes(pg2) = Nodes(pg) \cup {r} /\ TreePages(pg2) = TreePages(pg) \cup {r}
  <2>1. pg[r].type # "leaf" /\ pg[r].type # "node" /\ pg[no].type = "node"
    BY DEF TreePages, IsTree, Nodes
  <2> QED BY <1>8, <1>10, <2>1 DEF Leaves, Nodes, TreePages, IsTree
<1>14. \A p \in Leaves(pg) : p \in Nos /\ p # no /\ p # r /\ pg2[p] = pg[p] /\ low2[p] = low[p] /\ high2[p] = high[p]
  BY <1>8, <1>12, Kinds
<1>15. Local(pg2)
  <2>1. \A p \in TreePages(pg2) : Ascending(pg2[p].es)
    <3> TAKE p \in TreePages(pg2)
    <3>1. p \in Nos /\ (p = r \/ p \in TreePages(pg))
      BY <1>13, Kinds
    <3>2. CASE p = r \/ p = no
      BY <1>3, <1>4, <1>10, <3>2
    <3>3. CASE p # r /\ p # no
      BY <1>8, <3>1, <3>3 DEF Tree, Local
    <3> QED BY <3>2, <3>3
  <2>2. \A p \in Nodes(pg2) : Len(pg2[p].kids) = Len(pg2[p].es) + 1
    <3> TAKE p \in Nodes(pg2)
    <3>0. n \in Nat /\ p \in Nos
      BY <1>1, Kinds
    <3>1. CASE p = r
      <4> HIDE DEF n
      <4> QED BY <1>2, <1>4, <1>6, <1>10, <3>0, <3>1
    <3>2. CASE p = no
      BY <1>3, <1>5, <1>10, <3>2
    <3>3. CASE p # r /\ p # no
      BY <1>8, <1>13, <3>0, <3>3 DEF Tree, Local
    <3> QED BY <3>1, <3>2, <3>3
  <2> QED BY <1>9, <2>1, <2>2 DEF Local
\* The page and the place where a child stood before.
<1> DEFINE was(p) == IF p = r THEN no ELSE p
           at(p, k) == IF p = r THEN mid + 1 + k ELSE k
<1>16. ASSUME NEW p \in Nodes(pg2), NEW k \in 1..Len(pg2[p].kids)
       PROVE  /\ was(p) \in Nodes(pg) /\ at(p, k) \in 1..Len(pg[was(p)].kids)
              /\ pg2[p].kids[k] = pg[was(p)].kids[at(p, k)]
              /\ k \in Nat /\ (p = no => k <= mid + 1)
  <2>1. CASE p = r
    <3>1. k \in 1..(n - mid) /\ pg2[p].kids[k] = bk[k]
      BY <1>6, <1>10, <1>16, <2>1
    <3>2. n \in Nat
      BY <1>1
    <3> HIDE DEF n, c
    <3>3. mid + 1 + k \in 1..(n + 1) /\ bk[k] = c[mid + 1 + k] /\ k \in Nat
      BY <1>2, <1>6, <3>1, <3>2
    <3> QED BY <1>1, <2>1, <3>1, <3>3 DEF c
  <2>2. CASE p = no
    <3>1. k \in 1..(mid + 1) /\ pg2[p].kids[k] = ak[k]
      BY <1>5, <1>10, <1>16, <2>2
    <3>2. n \in Nat
      BY <1>1
    <3> HIDE DEF n, c
    <3>3. k \in 1..(n + 1) /\ ak[k] = c[k] /\ k \in Nat /\ k <= mid + 1
      BY <1>2, <1>5, <3>1, <3>2
    <3> QED BY <1>1, <2>2, <3>1, <3>3 DEF c
  <2>3. CASE p # r /\ p # no
    BY <1>8, <1>13, <1>16, <2>3, Kinds
  <2> QED BY <2>1, <2>2, <2>3
<1>L. Linked(pg, R, R, R, rank) /\ Fenced(pg, R, R, R, low, high) /\ Stored(pg, E, low, high)
  BY DEF Tree
<1>17. \A k \in TreePages(pg) :
         /\ k \in Nos /\ k # r /\ rank2[k] = rank[k] /\ low2[k] = low[k] /\ Reach(k, no, r, high2) = high[k]
  <2> TAKE k \in TreePages(pg)
  <2>1. k \in Nos /\ k # r
    BY Kinds
  <2>2. high2[r] = high[no] /\ (k # no => high2[k] = high[k])
    BY <1>12, <2>1
  <2> QED BY <1>12, <2>1, <2>2 DEF Reach
<1>18. R \in TreePages(pg) /\ R # r
  BY <1>L DEF Linked
<1>19. Linked(pg2, R, no, r, rank2)
  <2>1. pg2[0] = Header(R)
    <3>1. 0 # no /\ 0 \in Nos
      BY <1>L, ConstantsOK DEF Linked, Header, Nos, Nodes
    <3> QED BY <1>8, <1>L, <3>1 DEF Linked
  <2>2. \A p \in Nodes(pg) : \A i \in 1..Len(pg[p].kids) :
          pg[p].kids[i] \in TreePages(pg) /\ rank[pg[p].kids[i]] < rank[p] /\ pg[p].kids[i] # R
    BY <1>L DEF Linked
  <2>3. ASSUME NEW p \in Nodes(pg2), NEW k \in 1..Len(pg2[p].kids)
        PROVE  /\ pg2[p].kids[k] \in TreePages(pg2) /\ rank2[pg2[p].kids[k]] < rank2[p]
               /\ pg2[p].kids[k] # R /\ pg2[p].kids[k] # r
    <3> DEFINE d == pg2[p].kids[k]
    <3>1. d \in TreePages(pg) /\ rank[d] < rank[was(p)] /\ d # R
      BY <1>16, <2>2, SMTT(30)
    <3>2. p \in Nos /\ rank2[p] = rank[was(p)]
      BY <1>12, <1>13, Kinds
    <3> HIDE DEF d
    <3> QED BY <1>13, <1>17, <3>1, <3>2 DEF d
  <2>4. ASSUME NEW p \in Nodes(pg2), NEW q \in Nodes(pg2), NEW k \in 1..Len(pg2[p].kids), NEW l \in 1..Len(pg2[q].kids),
               pg2[p].kids[k] = pg2[q].kids[l]
        PROVE  p = q /\ k = l
    <3>1. was(p) = was(q) /\ at(p, k) = at(q, l)
      <4>1. /\ was(p) \in Nodes(pg) /\ at(p, k) \in 1..Len(pg[was(p)].kids)
            /\ pg2[p].kids[k] = pg[was(p)].kids[at(p, k)]
        BY <1>16
      <4>2. /\ was(q) \in Nodes(pg) /\ at(q, l) \in 1..Len(pg[was(q)].kids)
            /\ pg2[q].kids[l] = pg[was(q)].kids[at(q, l)]
        BY <1>16
      <4>3. \A p0, q0 \in Nodes(pg) : \A k0 \in 1..Len(pg[p0].kids), l0 \in 1..Len(pg[q0].kids) :
              pg[p0].kids[k0] = pg[q0].kids[l0] => p0 = q0 /\ k0 = l0
        BY <1>L DEF Linked
      <4> DEFINE P == was(p)
                 Q == was(q)
                 K == at(p, k)
                 M == at(q, l)
      <4> HIDE DEF was, at
      <4>4. P \in Nodes(pg) /\ Q \in Nodes(pg) /\ K \in 1..Len(pg[P].kids) /\ M \in 1..Len(pg[Q].kids)
        BY <4>1, <4>2
      <4>5. pg[P].kids[K] = pg[Q].kids[M]
        BY <2>4, <4>1, <4>2, Zenon
      <4> HIDE DEF P, Q, K, M
      <4>6. P = Q /\ K = M
        BY <4>3, <4>4, <4>5
      <4> QED BY <4>6 DEF P, Q, K, M
    <3>2. k \in Nat /\ l \in Nat /\ (p = no => k <= mid + 1) /\ (q = no => l <= mid + 1)
      BY <1>16
    <3>3. CASE p = q
      BY <1>2, <3>1, <3>2, <3>3
    <3>4. CASE p = r /\ q # r
      BY <1>1, <1>2, <3>1, <3>2, <3>4
    <3>5. CASE p # r /\ q = r
      BY <1>1, <1>2, <3>1, <3>2, <3>5
    <3> QED BY <3>1, <3>3, <3>4, <3>5
  <2>5. \A p \in Leaves(pg) : pg[p].next # 0 => pg[p].next \in Leaves(pg) /\ Len(pg2[pg[p].next].es) > 0
    BY <1>14, <1>L DEF Linked
  <2>6. \A p \in Leaves(pg2) : pg2[p].next # 0 => pg2[p].next \in Leaves(pg2) /\ Len(pg2[pg2[p].next].es) > 0
    BY <1>13, <1>14, <2>5
  <2>7. no \in TreePages(pg2) /\ r \in TreePages(pg2) /\ R \in TreePages(pg2) /\ rank2[no] = rank2[r]
    BY <1>1, <1>12, <1>13, <1>18
  <2> QED BY <1>12, <1>18, <2>1, <2>3, <2>4, <2>6, <2>7 DEF Linked
<1>20. Upward(low[no]) /\ Upward(high[no]) /\ Upward(AtLeast(sep)) /\ \A i \in 1..n : s[i] \in low[no] /\ s[i] \notin high[no]
  BY <1>1, <1>7, <1>L, FromPoint DEF Fenced
<1>21. Fenced(pg2, R, no, r, low2, high2)
  <2>1. low2[R] = Points /\ Reach(R, no, r, high2) = {}
    BY <1>17, <1>18, <1>L DEF Fenced, Reach
  <2>2. ASSUME NEW p \in TreePages(pg2)
        PROVE  /\ Upward(low2[p]) /\ Upward(high2[p])
               /\ \A i \in 1..Len(pg2[p].es) : pg2[p].es[i] \in low2[p] /\ pg2[p].es[i] \notin high2[p]
    <3>1. p \in Nos /\ (p = r \/ p \in TreePages(pg))
      BY <1>13, Kinds
    <3>2. CASE p = r
      <4>1. ASSUME NEW i \in 1..(n - mid - 1) PROVE b[i] \in AtLeast(sep) /\ b[i] \notin high[no]
        <5>0. n \in Nat
          BY <1>1
        <5>1. mid + 1 + i \in 1..n /\ ~(mid + 1 + i < mid + 1)
          <6> HIDE DEF n
          <6> QED BY <1>2, <5>0
        <5>2. b[i] = s[mid + 1 + i] /\ s[mid + 1 + i] \in Points
          BY <1>1, <1>4, <5>1, EntryPoints
        <5>3. ~EntryLess(s[mid + 1 + i], sep)
          BY <1>1, <1>2, <5>1, AscendingIff
        <5> QED BY <1>20, <5>1, <5>2, <5>3 DEF AtLeast
      <4>2. low2[p] = AtLeast(sep) /\ high2[p] = high[no]
        BY <1>12, <3>2
      <4> QED BY <1>4, <1>10, <1>20, <3>2, <4>1, <4>2
    <3>3. CASE p = no
      <4>1. ASSUME NEW i \in 1..mid PROVE a[i] \in low[no] /\ a[i] \notin AtLeast(sep)
        <5>0. n \in Nat
          BY <1>1
        <5>1. i \in 1..n /\ i < mid + 1
          <6> HIDE DEF n
          <6> QED BY <1>2, <5>0
        <5>2. EntryLess(s[i], sep)
          BY <1>1, <1>2, <5>1, AscendingIff
        <5> QED BY <1>3, <1>20, <5>1, <5>2 DEF AtLeast
      <4>2. low2[p] = low[no] /\ high2[p] = AtLeast(sep)
        BY <1>1, <1>12, <3>3
      <4> QED BY <1>3, <1>10, <1>20, <3>3, <4>1, <4>2
    <3>4. CASE p # r /\ p # no
      <4>1. pg2[p] = pg[p] /\ low2[p] = low[p] /\ high2[p] = high[p] /\ p \in TreePages(pg)
        BY <1>8, <1>12, <3>1, <3>4
      <4> QED BY <1>L, <4>1 DEF Fenced
    <3> QED BY <3>2, <3>3, <3>4
  <2>3. ASSUME NEW p \in Nodes(pg), NEW i \in 1..Len(pg[p].kids)
        PROVE  /\ low2[pg[p].kids[i]] = IF i = 1 THEN low[p] ELSE AtLeast(pg[p].es[i - 1])
               /\ Reach(pg[p].kids[i], no, r, high2) = IF i = Len(pg[p].kids) THEN high[p] ELSE AtLeast(pg[p].es[i])
    <3>1. pg[p].kids[i] \in TreePages(pg)
      BY <1>L DEF Linked
    <3>2. /\ low[pg[p].kids[i]] = IF i = 1 THEN low[p] ELSE AtLeast(pg[p].es[i - 1])
          /\ Reach(pg[p].kids[i], R, R, high) = IF i = Len(pg[p].kids) THEN high[p] ELSE AtLeast(pg[p].es[i])
      BY <1>L DEF Fenced
    <3>3. Reach(pg[p].kids[i], R, R, high) = high[pg[p].kids[i]]
      BY DEF Reach
    <3> QED BY <1>17, <3>1, <3>2, <3>3
  <2>4. ASSUME NEW p \in Nodes(pg2), NEW k \in 1..Len(pg2[p].kids)
        PROVE  /\ low2[pg2[p].kids[k]] = IF k = 1 THEN low2[p] ELSE AtLeast(pg2[p].es[k - 1])
               /\ Reach(pg2[p].kids[k], no, r, high2) = IF k = Len(pg2[p].kids) THEN high2[p] ELSE AtLeast(pg2[p].es[k])
    <3>0. n \in Nat /\ p \in Nos /\ Len(c) = n + 1
      BY <1>1, Kinds
    <3>a. \A i \in 1..(n + 1) :
            /\ low2[c[i]] = IF i = 1 THEN low[no] ELSE AtLeast(s[i - 1])
            /\ Reach(c[i], no, r, high2) = IF i = n + 1 THEN high[no] ELSE AtLeast(s[i])
      BY <2>3, <3>0
    <3>1. CASE p = r
      <4>1. k \in 1..(n - mid) /\ pg2[p].kids[k] = bk[k] /\ Len(pg2[p].kids) = n - mid /\ pg2[p].es = b
        BY <1>6, <1>10, <2>4, <3>1
      <4>2. low2[p] = AtLeast(sep) /\ high2[p] = high[no]
        BY <1>12, <3>1
      <4>x. sep = s[mid + 1]
        OBVIOUS
      <4> HIDE DEF n, c, s, sep
      <4> DEFINE i == mid + 1 + k
      <4>3. /\ i \in 1..(n + 1) /\ bk[k] = c[i] /\ i # 1 /\ i - 1 = mid + k /\ (i = n + 1 <=> k = n - mid)
            /\ (k = 1 => s[i - 1] = sep) /\ (k # 1 => b[k - 1] = s[i - 1]) /\ (k # n - mid => b[k] = s[i])
        <5>1. i \in 1..(n + 1) /\ i # 1 /\ i - 1 = mid + k /\ (i = n + 1 <=> k = n - mid)
          <6>1. n \in Nat /\ mid \in Nat /\ mid >= 1 /\ mid < n /\ k \in 1..(n - mid)
            BY <1>2, <3>0, <4>1
          <6> QED BY ONLY <6>1
        <5>2. bk[k] = c[i]
          BY <1>6, <4>1
        <5>3. k = 1 => s[i - 1] = sep
          BY <4>x, <5>1
        <5>4. k # 1 => b[k - 1] = s[i - 1]
          <6>1. k # 1 => k - 1 \in 1..(n - mid - 1) /\ mid + 1 + (k - 1) = i - 1
            BY <1>2, <3>0, <4>1
          <6> QED BY <1>4, <6>1
        <5>5. k # n - mid => b[k] = s[i]
          <6>1. k # n - mid => k \in 1..(n - mid - 1)
            BY <1>2, <3>0, <4>1
          <6> QED BY <1>4, <6>1
        <5> QED BY <5>1, <5>2, <5>3, <5>4, <5>5
      <4> HIDE DEF i
      <4>4. /\ low2[bk[k]] = IF k = 1 THEN AtLeast(sep) ELSE AtLeast(b[k - 1])
            /\ Reach(bk[k], no, r, high2) = IF k = n - mid THEN high[no] ELSE AtLeast(b[k])
        BY <3>a, <4>3
      <4> QED BY <4>1, <4>2, <4>4
    <3>2. CASE p = no
      <4>1. k \in 1..(mid + 1) /\ pg2[p].kids[k] = ak[k] /\ Len(pg2[p].kids) = mid + 1 /\ pg2[p].es = a
        BY <1>5, <1>10, <2>4, <3>2
      <4>2. low2[p] = low[no] /\ high2[p] = AtLeast(sep)
        BY <1>1, <1>12, <3>2
      <4>x. sep = s[mid + 1]
        OBVIOUS
      <4> HIDE DEF n, c, s, sep
      <4>3. /\ k \in 1..(n + 1) /\ ak[k] = c[k] /\ k # n + 1 /\ (k # 1 => a[k - 1] = s[k - 1])
            /\ (k # mid + 1 => a[k] = s[k]) /\ (k = mid + 1 => sep = s[k])
        <5>1. k \in 1..(n + 1) /\ k # n + 1
          BY <1>2, <3>0, <4>1
        <5>2. ak[k] = c[k]
          BY <1>5, <4>1
        <5>3. k # 1 => a[k - 1] = s[k - 1]
          <6>1. k # 1 => k - 1 \in 1..mid
            BY <1>2, <4>1
          <6> QED BY <1>3, <6>1
        <5>4. k # mid + 1 => a[k] = s[k]
          <6>1. k # mid + 1 => k \in 1..mid
            BY <1>2, <4>1
          <6> QED BY <1>3, <6>1
        <5> QED BY <4>x, <5>1, <5>2, <5>3, <5>4
      <4>4. /\ low2[ak[k]] = IF k = 1 THEN low[no] ELSE AtLeast(a[k - 1])
            /\ Reach(ak[k], no, r, high2) = IF k = mid + 1 THEN AtLeast(sep) ELSE AtLeast(a[k])
        BY <3>a, <4>3
      <4> QED BY <4>1, <4>2, <4>4
    <3>3. CASE p # r /\ p # no
      <4>1. pg2[p] = pg[p] /\ low2[p] = low[p] /\ high2[p] = high[p] /\ p \in Nodes(pg)
        BY <1>8, <1>12, <1>13, <3>0, <3>3
      <4> QED BY <2>3, <2>4, <4>1
    <3> QED BY <3>1, <3>2, <3>3
  <2>5. \A p \in Leaves(pg2) : high2[p] = IF pg2[p].next = 0 THEN {} ELSE low2[pg2[p].next]
    <3>1. \A p \in Leaves(pg) : high[p] = IF pg[p].next = 0 THEN {} ELSE low[pg[p].next]
      BY <1>L DEF Fenced
    <3>2. \A p \in Leaves(pg) : pg[p].next # 0 => pg[p].next \in Leaves(pg)
      BY <1>L DEF Linked
    <3> QED BY <1>13, <1>14, <3>1, <3>2
  <2> QED BY <1>12, <2>1, <2>2, <2>4, <2>5 DEF Fenced
<1>22. Stored(pg2, E, low2, high2)
  BY <1>13, <1>14, <1>L DEF Stored
<1>23. Pending(no, r, sep, low2, high2)
  <2>1. s[1] \in low[no] /\ EntryLess(s[1], sep)
    <3>0. n \in Nat
      BY <1>1
    <3>1. 1 \in 1..n /\ 1 < mid + 1
      <4> HIDE DEF n
      <4> QED BY <1>2, <3>0
    <3> QED BY <1>1, <1>2, <1>20, <3>1, AscendingIff
  <2> QED BY <1>1, <1>7, <1>12, <2>1 DEF Pending
<1>24. Tree(pg2, R, E, no, r, rank2, low2, high2)
  BY <1>15, <1>19, <1>21, <1>22 DEF Tree
<1>25. \E rank3, low3, high3 : Tree(pg2, R, E, no, r, rank3, low3, high3) /\ Pending(no, r, sep, low3, high3)
  <2> HIDE DEF sep
  <2> QED BY <1>23, <1>24
<1> QED BY <1>25 DEF pg2, a, b, ak, bk

\* set_root: the root and the page y split off it get a parent, the free page no.
LEMMA NewRoot ==
  ASSUME NEW pg, NEW R, NEW E, NEW y, NEW sep, NEW rank, NEW low, NEW high,
         Tree(pg, R, E, R, y, rank, low, high), Pending(R, y, sep, low, high),
         NEW no \in Nos, no \notin TreePages(pg), no # 0
  PROVE  LET pg2 == [pg EXCEPT ![no] = Node(<<sep>>, <<R, y>>), ![0] = Header(no)]
         IN \E rank2, low2, high2 : Tree(pg2, no, E, no, no, rank2, low2, high2)
<1> DEFINE pg2 == [pg EXCEPT ![no] = Node(<<sep>>, <<R, y>>), ![0] = Header(no)]
           rank2 == [rank EXCEPT ![no] = rank[R] + 1]
           low2 == [low EXCEPT ![no] = Points]
           high2 == [high EXCEPT ![no] = {}]
<1>L. Linked(pg, R, R, y, rank) /\ Fenced(pg, R, R, y, low, high) /\ Stored(pg, E, low, high) /\ Local(pg)
  BY DEF Tree
<1>P. /\ sep \in Entries /\ sep \in Points /\ y # R /\ high[R] = AtLeast(sep) /\ low[y] = AtLeast(sep)
  BY EntryPoints DEF Pending
<1>1. /\ pg \in Files /\ 0 \in Nos /\ 0 \notin TreePages(pg) /\ R \in TreePages(pg) /\ y \in TreePages(pg)
      /\ R \in Nos /\ y \in Nos /\ R # no /\ y # no /\ R # 0 /\ y # 0
  <2>1. 0 \in Nos /\ pg[0].type = "header" /\ R \in TreePages(pg) /\ y \in TreePages(pg)
    BY <1>L, ConstantsOK DEF Linked, Header, Nos
  <2>2. 0 \notin TreePages(pg)
    BY <2>1 DEF TreePages, IsTree
  <2> QED BY <1>L, <2>1, <2>2, Kinds DEF Local
<1>2. ASSUME NEW p \in Nos
      PROVE  /\ p # no /\ p # 0 => pg2[p] = pg[p]
             /\ pg2[no] = Node(<<sep>>, <<R, y>>) /\ pg2[0] = Header(no)
  BY <1>1 DEF Files
<1>3. pg2 \in Files
  <2>1. Node(<<sep>>, <<R, y>>) \in Page /\ Header(no) \in Page
    <3>1. <<sep>> \in Seq(Entries) /\ <<R, y>> \in Seq(Nos) /\ <<no>> \in Seq(Nos) /\ <<>> \in Seq(Entries)
      BY <1>1, <1>P
    <3> QED BY <1>1, <3>1 DEF Node, Header, Page
  <2> QED BY <1>1, <2>1 DEF Files
<1>4. rank \in [Nos -> Nat] /\ low \in [Nos -> SUBSET Points] /\ high \in [Nos -> SUBSET Points]
  BY <1>L DEF Linked, Fenced
<1>5. /\ rank2 \in [Nos -> Nat] /\ low2 \in [Nos -> SUBSET Points] /\ high2 \in [Nos -> SUBSET Points]
      /\ rank2[no] = rank[R] + 1 /\ low2[no] = Points /\ high2[no] = {}
      /\ \A p \in Nos : p # no => rank2[p] = rank[p] /\ low2[p] = low[p] /\ high2[p] = high[p]
  BY <1>1, <1>4
<1> HIDE DEF rank2, low2, high2
<1>6. pg2[no].type = "node" /\ pg2[no].es = <<sep>> /\ pg2[no].kids = <<R, y>> /\ pg2[0].type = "header"
  <2>1. pg2[no] = Node(<<sep>>, <<R, y>>) /\ pg2[0] = Header(no)
    BY <1>2
  <2> HIDE DEF pg2
  <2> QED BY <2>1 DEF Node, Header
<1> HIDE DEF pg2
<1>7. Leaves(pg2) = Leaves(pg) /\ Nodes(pg2) = Nodes(pg) \cup {no} /\ TreePages(pg2) = TreePages(pg) \cup {no}
  <2>1. pg[no].type # "leaf" /\ pg[no].type # "node" /\ pg[0].type # "leaf" /\ pg[0].type # "node"
    BY <1>1 DEF TreePages, IsTree
  <2> QED BY <1>1, <1>2, <1>6, <2>1 DEF Leaves, Nodes, TreePages, IsTree
<1>8. \A p \in TreePages(pg) : p \in Nos /\ p # no /\ p # 0 /\ pg2[p] = pg[p]
  BY <1>1, <1>2, Kinds
<1>9. \A p \in Leaves(pg) : p \in TreePages(pg)
  BY Kinds
<1>10. \A p \in Nodes(pg) : p \in TreePages(pg)
  BY Kinds
<1>11. Len(<<sep>>) = 1 /\ <<sep>>[1] = sep /\ Len(<<R, y>>) = 2 /\ <<R, y>>[1] = R /\ <<R, y>>[2] = y
  OBVIOUS
<1>12. Local(pg2)
  <2>1. Ascending(<<sep>>)
    BY <1>11 DEF Ascending
  <2>2. \A p \in TreePages(pg2) : Ascending(pg2[p].es)
    BY <1>6, <1>7, <1>8, <1>L, <2>1 DEF Local
  <2>3. \A p \in Nodes(pg2) : Len(pg2[p].kids) = Len(pg2[p].es) + 1
    <3> TAKE p \in Nodes(pg2)
    <3>1. CASE p = no
      <4>1. Len(pg2[p].kids) = 2 /\ Len(pg2[p].es) = 1
        BY <1>6, <1>11, <3>1, Zenon
      <4> QED BY <4>1
    <3>2. CASE p # no
      BY <1>7, <1>8, <1>10, <1>L, <3>2 DEF Local
    <3> QED BY <3>1, <3>2
  <2> QED BY <1>3, <2>2, <2>3 DEF Local
<1>13. \A p \in Nodes(pg) : \A i \in 1..Len(pg[p].kids) :
         pg[p].kids[i] \in TreePages(pg) /\ rank[pg[p].kids[i]] < rank[p] /\ pg[p].kids[i] # R /\ pg[p].kids[i] # y
  BY <1>L, <1>P DEF Linked
<1>14. ASSUME NEW k \in 1..Len(pg2[no].kids) PROVE (k = 1 /\ pg2[no].kids[k] = R) \/ (k = 2 /\ pg2[no].kids[k] = y)
  <2>1. k \in 1..2
    BY <1>6, <1>11, <1>14
  <2>2. k = 1 \/ k = 2
    BY <2>1
  <2> QED BY <1>6, <1>11, <2>2
<1>15. Linked(pg2, no, no, no, rank2)
  <2>1. rank[R] = rank[y] /\ rank[R] \in Nat
    BY <1>1, <1>4, <1>L DEF Linked
  <2>2. ASSUME NEW p \in Nodes(pg2), NEW k \in 1..Len(pg2[p].kids)
        PROVE  /\ pg2[p].kids[k] \in TreePages(pg) /\ rank2[pg2[p].kids[k]] < rank2[p]
               /\ pg2[p].kids[k] # no
    <3>1. CASE p = no
      <4>1. pg2[p].kids[k] \in {R, y}
        BY <1>14, <2>2, <3>1
      <4>2. rank2[R] < rank2[no] /\ rank2[y] < rank2[no]
        BY <1>1, <1>5, <2>1
      <4> QED BY <1>1, <3>1, <4>1, <4>2
    <3>2. CASE p # no
      <4>1. p \in Nodes(pg) /\ pg2[p] = pg[p] /\ rank2[p] = rank[p]
        BY <1>5, <1>7, <1>8, <1>10, <3>2
      <4> DEFINE d == pg[p].kids[k]
      <4>2. d \in TreePages(pg) /\ rank[d] < rank[p]
        BY <1>13, <2>2, <4>1
      <4>3. pg2[p].kids[k] = d
        BY <4>1
      <4> HIDE DEF d
      <4> QED BY <1>5, <1>8, <4>1, <4>2, <4>3
    <3> QED BY <3>1, <3>2
  <2>3. ASSUME NEW p \in Nodes(pg2), NEW q \in Nodes(pg2), NEW k \in 1..Len(pg2[p].kids), NEW l \in 1..Len(pg2[q].kids),
               pg2[p].kids[k] = pg2[q].kids[l]
        PROVE  p = q /\ k = l
    <3>1. CASE p = no /\ q = no
      BY <1>14, <1>P, <2>3, <3>1
    <3>2. ASSUME NEW p0 \in Nodes(pg), NEW k0 \in 1..Len(pg2[p0].kids) PROVE pg2[p0].kids[k0] # R /\ pg2[p0].kids[k0] # y
      BY <1>8, <1>10, <1>13, <3>2
    <3>3. CASE p = no /\ q # no
      <4>1. pg2[q].kids[l] # R /\ pg2[q].kids[l] # y
        BY <1>7, <3>2, <3>3
      <4> QED BY <1>14, <2>3, <3>3, <4>1
    <3>4. CASE p # no /\ q = no
      <4>1. pg2[p].kids[k] # R /\ pg2[p].kids[k] # y
        BY <1>7, <3>2, <3>4
      <4>2. pg2[q].kids[l] = R \/ pg2[q].kids[l] = y
        BY <1>14, <3>4
      <4> QED BY <2>3, <4>1, <4>2
    <3>5. CASE p # no /\ q # no
      <4>1. p \in Nodes(pg) /\ q \in Nodes(pg) /\ pg2[p] = pg[p] /\ pg2[q] = pg[q]
        BY <1>7, <1>8, <1>10, <3>5
      <4>2. k \in 1..Len(pg[p].kids) /\ l \in 1..Len(pg[q].kids) /\ pg[p].kids[k] = pg[q].kids[l]
        BY <2>3, <4>1
      <4>3. \A p0, q0 \in Nodes(pg) : \A k0 \in 1..Len(pg[p0].kids), l0 \in 1..Len(pg[q0].kids) :
              pg[p0].kids[k0] = pg[q0].kids[l0] => p0 = q0 /\ k0 = l0
        BY <1>L DEF Linked
      <4> QED BY <4>1, <4>2, <4>3
    <3> QED BY <3>1, <3>3, <3>4, <3>5
  <2>4. \A p \in Leaves(pg2) : pg2[p].next # 0 => pg2[p].next \in Leaves(pg2) /\ Len(pg2[pg2[p].next].es) > 0
    <3>1. \A p \in Leaves(pg) : pg[p].next # 0 => pg[p].next \in Leaves(pg) /\ Len(pg[pg[p].next].es) > 0
      BY <1>L DEF Linked
    <3> QED BY <1>7, <1>8, <1>9, <3>1
  <2>5. pg2[0] = Header(no)
    BY <1>1, <1>2
  <2> QED BY <1>5, <1>7, <2>2, <2>3, <2>4, <2>5 DEF Linked
<1>16. Fenced(pg2, no, no, no, low2, high2)
  <2>0. /\ low[R] = Points /\ high[y] = {}
        /\ \A p \in TreePages(pg) : low2[p] = low[p] /\ high2[p] = high[p]
        /\ \A k : Reach(k, no, no, high2) = high2[k]
    BY <1>5, <1>8, <1>L DEF Fenced, Reach
  <2>1. \A p \in TreePages(pg2) :
          /\ Upward(low2[p]) /\ Upward(high2[p])
          /\ \A i \in 1..Len(pg2[p].es) : pg2[p].es[i] \in low2[p] /\ pg2[p].es[i] \notin high2[p]
    <3> TAKE p \in TreePages(pg2)
    <3>1. CASE p = no
      <4>1. Upward(Points) /\ Upward({})
        BY DEF Upward
      <4>2. \A i \in 1..Len(pg2[no].es) : pg2[no].es[i] = sep
        BY <1>6, <1>11
      <4> QED BY <1>5, <1>P, <3>1, <4>1, <4>2
    <3>2. CASE p # no
      BY <1>7, <1>8, <1>L, <2>0, <3>2 DEF Fenced
    <3> QED BY <3>1, <3>2
  <2>2. ASSUME NEW p \in Nodes(pg2), NEW i \in 1..Len(pg2[p].kids)
        PROVE  /\ low2[pg2[p].kids[i]] = IF i = 1 THEN low2[p] ELSE AtLeast(pg2[p].es[i - 1])
               /\ high2[pg2[p].kids[i]] = IF i = Len(pg2[p].kids) THEN high2[p] ELSE AtLeast(pg2[p].es[i])
    <3>1. CASE p = no /\ i = 1
      <4>1. pg2[p].kids[i] = R /\ i # Len(pg2[p].kids) /\ pg2[p].es[i] = sep
        BY <1>6, <1>11, <3>1, SMTT(30)
      <4> QED BY <1>1, <1>5, <1>P, <2>0, <3>1, <4>1
    <3>2. CASE p = no /\ i = 2
      <4>1. pg2[p].kids[i] = y /\ i = Len(pg2[p].kids) /\ i # 1 /\ pg2[p].es[i - 1] = sep
        <5>1. i - 1 = 1 /\ i # 1
          BY <3>2
        <5> QED BY <1>6, <1>11, <3>2, <5>1
      <4> QED BY <1>1, <1>5, <1>P, <2>0, <3>2, <4>1
    <3>3. CASE p # no
      <4>1. p \in Nodes(pg) /\ pg2[p] = pg[p] /\ p \in TreePages(pg)
        BY <1>7, <1>8, <1>10, <3>3
      <4>2. i \in 1..Len(pg[p].kids) /\ pg[p].kids[i] # R /\ pg[p].kids[i] \in TreePages(pg)
        BY <1>13, <2>2, <4>1
      <4>3. /\ low[pg[p].kids[i]] = IF i = 1 THEN low[p] ELSE AtLeast(pg[p].es[i - 1])
            /\ Reach(pg[p].kids[i], R, y, high) = IF i = Len(pg[p].kids) THEN high[p] ELSE AtLeast(pg[p].es[i])
        BY <1>L, <4>1, <4>2 DEF Fenced
      <4>4. Reach(pg[p].kids[i], R, y, high) = high[pg[p].kids[i]]
        BY <4>2 DEF Reach
      <4> QED BY <2>0, <4>1, <4>2, <4>3, <4>4
    <3> QED BY <1>14, <2>2, <3>1, <3>2, <3>3
  <2>3. \A p \in Leaves(pg2) : high2[p] = IF pg2[p].next = 0 THEN {} ELSE low2[pg2[p].next]
    <3>1. \A p \in Leaves(pg) : high[p] = IF pg[p].next = 0 THEN {} ELSE low[pg[p].next]
      BY <1>L DEF Fenced
    <3>2. \A p \in Leaves(pg) : pg[p].next # 0 => pg[p].next \in Leaves(pg)
      BY <1>L DEF Linked
    <3> QED BY <1>7, <1>8, <1>9, <2>0, <3>1, <3>2
  <2> QED BY <1>5, <2>0, <2>1, <2>2, <2>3 DEF Fenced
<1>17. Stored(pg2, E, low2, high2)
  <2>1. \A p \in Leaves(pg) : pg2[p] = pg[p] /\ low2[p] = low[p] /\ high2[p] = high[p]
    BY <1>5, <1>8, <1>9
  <2> QED BY <1>7, <1>L, <2>1 DEF Stored
<1>18. Tree(pg2, no, E, no, no, rank2, low2, high2)
  BY <1>12, <1>15, <1>16, <1>17 DEF Tree
<1>19. \E rank3, low3, high3 : Tree(pg2, no, E, no, no, rank3, low3, high3)
  BY <1>18
<1> QED BY <1>19 DEF pg2

-----------------------------------------------------------------------------
(* Descents *)

\* Ranks are bounded.
LEMMA RankBound ==
  ASSUME NEW rank \in [Nos -> Nat]
  PROVE  \E N \in Nat : \A p \in Nos : rank[p] < N
<1> DEFINE S == {n \in Nat : \E N \in Nat : \A p \in Nos : p <= n => rank[p] < N}
<1>1. ASSUME NEW n \in Nat, \A m \in Nat : m < n => m \in S PROVE n \in S
  <2>1. PICK N \in Nat : \A p \in Nos : p < n => rank[p] < N
    <3>1. CASE n = 0
      BY <3>1 DEF Nos
    <3>2. CASE n # 0
      <4>1. n - 1 \in S /\ n - 1 \in Nat
        BY <1>1, <3>2
      <4>2. \A p \in Nos : p < n => p <= n - 1
        BY <4>1 DEF Nos
      <4> QED BY <4>1, <4>2
    <3> QED BY <3>1, <3>2
  <2>2. CASE n \in Nos
    <3> DEFINE M == IF rank[n] < N THEN N ELSE rank[n] + 1
    <3>0. rank[n] \in Nat
      BY <2>2
    <3>1. M \in Nat /\ N <= M /\ rank[n] < M
      BY <3>0
    <3> HIDE DEF M
    <3>2. ASSUME NEW p \in Nos, p <= n PROVE rank[p] < M
      <4>0. rank[p] \in Nat /\ p \in Nat
        BY DEF Nos
      <4>1. CASE p = n
        BY <3>1, <4>1
      <4>2. CASE p # n
        <5>1. rank[p] < N
          BY <2>1, <3>2, <4>0, <4>2
        <5> QED BY <3>1, <4>0, <5>1
      <4> QED BY <4>1, <4>2
    <3> QED BY <3>1, <3>2
  <2>3. CASE n \notin Nos
    <3>1. \A p \in Nos : p <= n => p < n
      BY <2>3 DEF Nos
    <3> QED BY <2>1, <3>1
  <2> QED BY <2>2, <2>3
<1>2. \A n \in Nat : n \in S
  <2> HIDE DEF S
  <2> QED BY <1>1, Descend
<1>3. MaxPage \in S /\ \A p \in Nos : p <= MaxPage
  <2> HIDE DEF S
  <2> QED BY <1>2, ConstantsOK DEF Nos
<1> QED BY <1>3

\* The child that node_child_index selects is for the point.
LEMMA Route ==
  ASSUME NEW pg, NEW R, NEW E, NEW rank, NEW low, NEW high, Tree(pg, R, E, R, R, rank, low, high),
         NEW p \in Nodes(pg), NEW e \in Points,
         NEW j, j = NodeChildIndex(pg[p].es, e), NEW k, k = pg[p].kids[j + 1]
  PROVE  /\ j \in 0..Len(pg[p].es) /\ j + 1 \in 1..Len(pg[p].kids) /\ k \in TreePages(pg) /\ rank[k] < rank[p]
         /\ (e \in low[p] /\ e \notin high[p] => e \in low[k] /\ e \notin high[k])
         /\ rank[k] \in Nat /\ rank[p] \in Nat
<1> DEFINE s == pg[p].es
           n == Len(s)
<1>1. s \in Seq(Entries) /\ Ascending(s) /\ n \in Nat /\ Len(pg[p].kids) = n + 1 /\ p \in Nos
  BY Kinds DEF Tree, Local, Files, Page
<1>2. j \in 0..n /\ \A i \in 1..n : ~EntryLess(e, s[i]) <=> i <= j
  <2>1. s \in Seq(Entries) /\ Ascending(s) /\ j = NodeChildIndex(s, e)
    BY <1>1
  <2> HIDE DEF s
  <2> QED BY <2>1, ChildIndex
<1>3. j \in Nat /\ j <= n /\ j + 1 \in 1..(n + 1) /\ j + 1 \in 1..Len(pg[p].kids)
  BY <1>1, <1>2
<1>4. k \in TreePages(pg) /\ rank[k] < rank[p] /\ k \in Nos /\ rank[k] \in Nat /\ rank[p] \in Nat
  BY <1>1, <1>3, Kinds DEF Tree, Linked
<1>5. /\ low[k] = IF j + 1 = 1 THEN low[p] ELSE AtLeast(s[j + 1 - 1])
      /\ high[k] = IF j + 1 = n + 1 THEN high[p] ELSE AtLeast(s[j + 1])
  BY <1>1, <1>3 DEF Tree, Fenced, Reach
<1>6. ASSUME e \in low[p], e \notin high[p] PROVE e \in low[k] /\ e \notin high[k]
  <2>1. j # 0 => j \in 1..n /\ j <= j /\ j + 1 - 1 = j
    BY <1>3
  <2>2. j # n => j + 1 \in 1..n /\ ~(j + 1 <= j)
    BY <1>1, <1>3
  <2>3. j # 0 => ~EntryLess(e, s[j])
    BY <1>2, <2>1
  <2>4. j # n => EntryLess(e, s[j + 1])
    <3> HIDE DEF s, n
    <3> QED BY <1>2, <2>2
  <2>5. j + 1 = 1 <=> j = 0
    BY <1>3
  <2>6. j + 1 = n + 1 <=> j = n
    <3> HIDE DEF n
    <3> QED BY <1>1, <1>3
  <2> QED BY <1>5, <1>6, <2>1, <2>3, <2>4, <2>5, <2>6 DEF AtLeast
<1> QED BY <1>2, <1>3, <1>4, <1>6

\* A turn of insert_rec, g standing for the calls below it.
Turn(t, e, g, p) ==
  LET j   == NodeChildIndex(t.pg[p].es, e)
      sub == g[t.pg[p].kids[j + 1]]
  IN IF t.pg[p].type = "leaf" THEN LeafInsert(t, p, e)
     ELSE IF sub.split THEN NodeInsert(sub.t, p, j, sub) ELSE sub

\* insert_rec ends on a tree: its turns have a solution.
LEMMA InsertRecTurns ==
  ASSUME NEW t, NEW R, NEW E, NEW rank, NEW low, NEW high, Tree(t.pg, R, E, R, R, rank, low, high),
         NEW e \in Points, NEW no \in TreePages(t.pg)
  PROVE  \E rec : InsertRec(t, no, e) = rec[no] /\ \A p \in TreePages(t.pg) : rec[p] = Turn(t, e, rec, p)
<1> DEFINE T == TreePages(t.pg)
           Rec(g) == g = [p \in T |-> Turn(t, e, g, p)]
<1>1. rank \in [Nos -> Nat] /\ T \subseteq Nos
  BY Kinds DEF Tree, Linked
<1>2. ASSUME NEW f, NEW g, NEW p \in T, \A q \in T : rank[q] < rank[p] => f[q] = g[q]
      PROVE  Turn(t, e, f, p) = Turn(t, e, g, p)
  <2>1. CASE t.pg[p].type = "leaf"
    BY <2>1 DEF Turn
  <2>2. CASE p \in Nodes(t.pg)
    <3> DEFINE j == NodeChildIndex(t.pg[p].es, e)
               k == t.pg[p].kids[j + 1]
    <3>1. k \in T /\ rank[k] < rank[p]
      BY <2>2, Route
    <3>2. f[k] = g[k]
      BY <1>2, <3>1
    <3> QED BY <3>2 DEF Turn
  <2> QED BY <2>1, <2>2 DEF TreePages, IsTree, Nodes
<1> DEFINE S == {n \in Nat : \E f : \A p \in T : rank[p] < n => f[p] = Turn(t, e, f, p)}
<1>3. ASSUME NEW n \in Nat, \A m \in Nat : m < n => m \in S PROVE n \in S
  <2>1. CASE n = 0
    <3>1. \A p \in T : ~(rank[p] < n)
      BY <1>1, <2>1
    <3> QED BY <3>1
  <2>2. CASE n # 0
    <3>1. n - 1 \in S
      BY <1>3, <2>2
    <3>2. PICK f : \A p \in T : rank[p] < n - 1 => f[p] = Turn(t, e, f, p)
      BY <3>1
    <3> DEFINE g == [p \in T |-> Turn(t, e, f, p)]
    <3>3. ASSUME NEW p \in T, rank[p] < n PROVE g[p] = Turn(t, e, g, p)
      <4>1. ASSUME NEW q \in T, rank[q] < rank[p] PROVE f[q] = g[q]
        <5>1. rank[q] < n - 1
          BY <1>1, <3>3, <4>1
        <5> QED BY <3>2, <5>1
      <4>2. g[p] = Turn(t, e, f, p)
        OBVIOUS
      <4> HIDE DEF g
      <4> QED BY <1>2, <4>1, <4>2
    <3> HIDE DEF g
    <3> QED BY <3>3
  <2> QED BY <2>1, <2>2
<1>4. \A n \in Nat : n \in S
  <2> HIDE DEF S
  <2> QED BY <1>3, Descend
<1>5. PICK N \in Nat : \A p \in Nos : rank[p] < N
  BY <1>1, RankBound
<1>6. PICK f : \A p \in T : f[p] = Turn(t, e, f, p)
  <2>1. PICK f : \A p \in T : rank[p] < N => f[p] = Turn(t, e, f, p)
    BY <1>4
  <2> QED BY <1>1, <1>5, <2>1
<1>7. Rec([p \in T |-> Turn(t, e, f, p)])
  <2> DEFINE g == [p \in T |-> Turn(t, e, f, p)]
  <2>1. ASSUME NEW p \in T PROVE Turn(t, e, f, p) = Turn(t, e, g, p)
    <3>1. \A q \in T : f[q] = g[q]
      BY <1>6
    <3> HIDE DEF g
    <3> QED BY <1>2, <3>1
  <2>2. \A p \in T : g[p] = Turn(t, e, g, p)
    BY <2>1
  <2> QED BY <2>1
<1>8. Rec(CHOOSE g : Rec(g))
  <2> HIDE DEF Rec
  <2> QED BY <1>7
<1>9. InsertRec(t, no, e) = (CHOOSE g : Rec(g))[no]
  BY DEF InsertRec, Turn
<1> DEFINE rec == CHOOSE g : Rec(g)
<1>10. \A p \in T : rec[p] = Turn(t, e, rec, p)
  <2>1. Rec(rec)
    BY <1>8
  <2> HIDE DEF rec
  <2> QED BY <2>1
<1> HIDE DEF rec
<1> QED BY <1>9, <1>10 DEF rec

-----------------------------------------------------------------------------
(* insert_rec *)

\* Leaves hold what fits on them.
Capped(pg) == \A p \in Leaves(pg) : Len(pg[p].es) <= LeafCap

\* Pages are written by leaf_build and node_build.
Formed(pg) ==
  \A p \in Nos \ {0} : pg[p] \in {ZeroPage, Leaf(pg[p].es, pg[p].next), Node(pg[p].es, pg[p].kids)}

\* Pages from h on are free.
Free(pg, h) == \A q \in Nos : q >= h => pg[q] = ZeroPage

\* The file with e in leaf q.
WithEntry(pg, q, e) == [pg EXCEPT ![q].es = InsertAt(pg[q].es, LeafLowerBound(pg[q].es, e) + 1, e)]

\* What insert_rec(p) leaves, as long as page numbers last: the tree with e, or
\* one whose page p has been split and whose parent must hear of it; without a
\* new page, one leaf has changed.
InsertDone(pg0, R, E, rank0, h, e, p, r) ==
  /\ r.t = [pg |-> r.t.pg, hint |-> r.t.hint] /\ r.t.hint \in Nat /\ r.t.hint >= h
  /\ r.t.hint <= MaxPage =>
       /\ Free(r.t.pg, r.t.hint) /\ Capped(r.t.pg) /\ Formed(r.t.pg)
       /\ \A q \in TreePages(pg0) : rank0[q] > rank0[p] => r.t.pg[q] = pg0[q]
       /\ r.split => \E rank, low, high :
                       Tree(r.t.pg, R, E \cup {e}, p, r.right, rank, low, high) /\ Pending(p, r.right, r.sep, low, high)
       /\ ~r.split => \E rank, low, high : Tree(r.t.pg, R, E \cup {e}, R, R, rank, low, high)
       /\ r.t.hint = h => ~r.split /\ \E q \in Leaves(pg0) : r.t.pg = WithEntry(pg0, q, e)

\* A leaf.
LEMMA LeafInserts ==
  ASSUME NEW pg, NEW h, NEW R, NEW E, NEW rank, NEW low, NEW high, Tree(pg, R, E, R, R, rank, low, high),
         h \in Nat, h # 0, Free(pg, h), Capped(pg), Formed(pg), count \in Nat, count <= h,
         NEW e \in Entries, e \notin E, NEW p \in Leaves(pg), e \in low[p], e \notin high[p]
  PROVE  InsertDone(pg, R, E, rank, h, e, p, LeafInsert([pg |-> pg, hint |-> h], p, e))
<1> DEFINE t == [pg |-> pg, hint |-> h]
           es == InsertAt(pg[p].es, LeafLowerBound(pg[p].es, e) + 1, e)
           mid == Len(es) \div 2
           pg1 == [pg EXCEPT ![p].es = es]
           b == SubSeq(es, mid + 1, Len(es))
           a == SubSeq(es, 1, mid)
           pg2 == [pg EXCEPT ![h] = Leaf(b, pg[p].next), ![p] = Leaf(a, h)]
<1>1. /\ p \in Nos /\ p \in TreePages(pg) /\ pg \in Files /\ pg[p] \in Page /\ pg[p].es \in Seq(Entries)
      /\ pg[p].type = "leaf" /\ pg[p].next \in Nos /\ rank \in [Nos -> Nat] /\ TreePages(pg) \subseteq Nos
  BY Kinds DEF Tree, Local, Leaves, Files, Page, Linked
<1>2. /\ es \in Seq(Entries) /\ Len(es) = Len(pg[p].es) + 1
      /\ Tree(pg1, R, E \cup {e}, R, R, rank, low, high)
  <2> HIDE DEF es
  <2> QED BY AddEntry DEF es
<1>3. NewPage(t) = h /\ t.pg = pg /\ t.hint = h
  BY DEF NewPage
<1>4. pg1 = WithEntry(pg, p, e)
  BY DEF WithEntry
<1> HIDE DEF es
<1>5. Len(pg[p].es) \in Nat /\ Len(es) \in Nat /\ LeafCap \in Nat /\ LeafCap >= 1 /\ Len(pg[p].es) <= LeafCap
  BY <1>1, <1>2, ConstantsOK DEF Capped
<1>6. ~(p >= h)
  BY <1>1 DEF Free, ZeroPage
<1>7. ASSUME NEW q \in Nos
      PROVE  /\ q # p => pg1[q] = pg[q]
             /\ pg1[p].es = es /\ pg1[p].type = "leaf" /\ pg1[p].next = pg[p].next
  BY <1>1 DEF Files, Page
<1>8. Leaves(pg1) = Leaves(pg) /\ TreePages(pg1) = TreePages(pg)
  <2> HIDE DEF pg1
  <2> QED BY <1>1, <1>7 DEF Leaves, TreePages, IsTree
<1>9. CASE Len(pg[p].es) < LeafCap
  <2> DEFINE r == Whole([t EXCEPT !.pg[p].es = es])
  <2>1. LeafInsert(t, p, e) = r
    BY <1>3, <1>9 DEF LeafInsert, es
  <2>2. r.t.pg = pg1 /\ r.t.hint = h /\ r.split = FALSE /\ r.t = [pg |-> pg1, hint |-> h]
    BY <1>3 DEF Whole
  <2>3. Free(pg1, h)
    BY <1>6, <1>7 DEF Free
  <2>4. Capped(pg1)
    <3> HIDE DEF pg1
    <3>1. Len(es) <= LeafCap
      BY <1>2, <1>5, <1>9
    <3> SUFFICES ASSUME NEW q \in Leaves(pg) PROVE Len(pg1[q].es) <= LeafCap
      BY <1>8 DEF Capped
    <3>2. CASE q = p
      BY <1>1, <1>7, <3>1, <3>2
    <3>3. CASE q # p
      BY <1>7, <3>3, Kinds DEF Capped
    <3> QED BY <3>2, <3>3
  <2>5. \A q \in TreePages(pg) : rank[q] > rank[p] => pg1[q] = pg[q]
    <3> TAKE q \in TreePages(pg)
    <3>1. q \in Nos /\ rank[q] \in Nat /\ rank[p] \in Nat
      BY <1>1
    <3>2. rank[q] > rank[p] => q # p
      BY <3>1
    <3> QED BY <1>7, <3>1, <3>2
  <2>6. \E q \in Leaves(pg) : pg1 = WithEntry(pg, q, e)
    BY <1>4
  <2>7. \E rank2, low2, high2 : Tree(pg1, R, E \cup {e}, R, R, rank2, low2, high2)
    BY <1>2
  <2>9. Formed(pg1)
    <3>1. p # 0 /\ 0 \in Nos
      BY <1>1, ConstantsOK DEF Tree, Linked, Header, Nos
    <3>2. pg[p] = Leaf(pg[p].es, pg[p].next)
      BY <1>1, <3>1 DEF Formed, ZeroPage, Node
    <3>3. pg1[p] = [pg[p] EXCEPT !.es = es]
      BY <1>1 DEF Files
    <3>4. pg1[p] = Leaf(es, pg[p].next)
      <4> HIDE DEF pg1
      <4> QED BY <3>2, <3>3 DEF Leaf
    <3>5. pg1[p] = Leaf(pg1[p].es, pg1[p].next)
      BY <1>1, <1>7, <3>4
    <3> HIDE DEF pg1
    <3> QED BY <1>7, <3>5 DEF Formed
  <2> HIDE DEF r, pg1
  <2>8. InsertDone(pg, R, E, rank, h, e, p, r)
    BY <2>2, <2>3, <2>4, <2>5, <2>6, <2>7, <2>9 DEF InsertDone
  <2> QED BY <2>1, <2>8
<1>10. CASE ~(Len(pg[p].es) < LeafCap)
  <2> DEFINE r == Split([pg |-> pg2, hint |-> h + 1], es[mid + 1], h)
  <2>1. LeafInsert(t, p, e) = r
    BY <1>3, <1>10 DEF LeafInsert, es
  <2>2. /\ r.t.pg = pg2 /\ r.t.hint = h + 1 /\ r.split = TRUE /\ r.right = h /\ r.sep = es[mid + 1]
        /\ r.t = [pg |-> pg2, hint |-> h + 1]
    BY DEF Split
  <2> HIDE DEF r
  <2>3. CASE ~(h + 1 <= MaxPage)
    BY <2>1, <2>2, <2>3 DEF InsertDone
  <2>4. CASE h + 1 <= MaxPage
    <3>1. h \in Nos /\ h # p /\ h \notin TreePages(pg) /\ h \notin TreePages(pg1)
      <4>1. h \in Nos
        BY <2>4, ConstantsOK DEF Nos
      <4>2. pg[h] = ZeroPage
        BY <4>1 DEF Free
      <4>3. h \notin TreePages(pg)
        BY <4>2 DEF TreePages, IsTree, ZeroPage
      <4> QED BY <1>1, <1>8, <4>1, <4>3
    <3>2. mid \in 1..(Len(es) - 1) /\ mid \in Nat
      <4> DEFINE l == Len(es)
      <4>1. l \in Nat /\ l >= 2
        BY <1>2, <1>5, <1>10
      <4>2. mid = l \div 2
        OBVIOUS
      <4> HIDE DEF l, mid
      <4>3. mid \in 1..(l - 1) /\ mid \in Nat
        BY <4>1, <4>2
      <4> QED BY <4>3 DEF l
    <3>3. p \in Leaves(pg1) /\ pg1[p].es = es /\ pg1[p].next = pg[p].next
      BY <1>1, <1>7, <1>8
    <3>4. pg2 = [pg1 EXCEPT ![h] = Leaf(b, pg[p].next), ![p] = Leaf(a, h)]
      BY <1>1, <3>1 DEF Files
    <3> HIDE DEF mid
    <3>5. \E rank2, low2, high2 : Tree(pg2, R, E \cup {e}, p, h, rank2, low2, high2) /\ Pending(p, h, es[mid + 1], low2, high2)
      <4> HIDE DEF pg1
      <4> QED BY <1>2, <3>1, <3>2, <3>3, <3>4, SplitLeaf
    <3>6. ASSUME NEW q \in Nos PROVE pg2[h] = Leaf(b, pg[p].next) /\ pg2[p] = Leaf(a, h) /\ (q # h /\ q # p => pg2[q] = pg[q])
      BY <1>1, <3>1 DEF Files
    <3> HIDE DEF pg2, a, b
    <3>7. Free(pg2, h + 1)
      <4> SUFFICES ASSUME NEW q \in Nos, q >= h + 1 PROVE pg2[q] = ZeroPage
        BY DEF Free
      <4>1. q >= h /\ q # h /\ q # p
        BY <1>1, <1>6, ConstantsOK DEF Nos
      <4> QED BY <3>6, <4>1 DEF Free
    <3>8. Capped(pg2)
      <4>1. Len(a) = mid /\ Len(b) = Len(es) - mid
        <5>1. mid + 1 \in 1..(Len(es) + 1) /\ Len(es) \in 0..Len(es) /\ mid + 1 <= Len(es) + 1
          BY <1>5, <3>2
        <5>2. 1 \in 1..(Len(es) + 1) /\ mid \in 0..Len(es) /\ 1 <= mid + 1
          BY <1>5, <3>2
        <5>3. Len(SubSeq(es, 1, mid)) = mid - 1 + 1
          BY <1>2, <5>2, Cut
        <5>4. Len(SubSeq(es, mid + 1, Len(es))) = Len(es) - (mid + 1) + 1
          <6> DEFINE m == mid + 1
                     l == Len(es)
          <6>1. m \in 1..(Len(es) + 1) /\ l \in 0..Len(es) /\ m <= l + 1
            BY <5>1
          <6> HIDE DEF m, l
          <6>2. Len(SubSeq(es, m, l)) = l - m + 1
            BY <1>2, <6>1, Cut
          <6> QED BY <6>2 DEF m, l
        <5> QED BY <1>5, <3>2, <5>3, <5>4 DEF a, b
      <4>2. Len(a) <= LeafCap /\ Len(b) <= LeafCap
        BY <1>2, <1>5, <3>2, <4>1
      <4> SUFFICES ASSUME NEW q \in Leaves(pg2) PROVE Len(pg2[q].es) <= LeafCap
        BY DEF Capped
      <4>3. CASE q = h
        BY <3>1, <3>6, <4>2, <4>3 DEF Leaf
      <4>4. CASE q = p
        BY <1>1, <3>6, <4>2, <4>4 DEF Leaf
      <4>5. CASE q # h /\ q # p
        <5>1. q \in Nos /\ pg2[q] = pg[q] /\ q \in Leaves(pg)
          BY <3>6, <4>5 DEF Leaves
        <5> QED BY <5>1 DEF Capped
      <4> QED BY <4>3, <4>4, <4>5
    <3>9. \A q \in TreePages(pg) : rank[q] > rank[p] => pg2[q] = pg[q]
      <4> TAKE q \in TreePages(pg)
      <4>1. q \in Nos /\ rank[q] \in Nat /\ rank[p] \in Nat /\ q # h
        BY <1>1, <3>1
      <4>2. rank[q] > rank[p] => q # p
        BY <4>1
      <4> QED BY <3>6, <4>1, <4>2
    <3>10. h + 1 \in Nat /\ h + 1 >= h /\ h + 1 # h
      OBVIOUS
    <3>12. Formed(pg2)
      <4>1. pg2[h] = Leaf(pg2[h].es, pg2[h].next) /\ pg2[p] = Leaf(pg2[p].es, pg2[p].next)
        BY <3>1, <3>6 DEF Leaf
      <4> QED BY <3>6, <4>1 DEF Formed
    <3>11. InsertDone(pg, R, E, rank, h, e, p, r)
      BY <2>2, <3>5, <3>7, <3>8, <3>9, <3>10, <3>12 DEF InsertDone
    <3> QED BY <2>1, <3>11
  <2> QED BY <2>3, <2>4
<1> QED BY <1>9, <1>10

\* A node whose child k has been split.
LEMMA NodeInserts ==
  ASSUME NEW pg, NEW h, NEW R, NEW E, NEW rank, NEW low, NEW high, Tree(pg, R, E, R, R, rank, low, high),
         h \in Nat, h # 0, count \in Nat, count <= h, NEW e,
         NEW p \in Nodes(pg), NEW j \in 0..Len(pg[p].es), NEW k, k = pg[p].kids[j + 1], rank[k] < rank[p],
         rank[k] \in Nat, NEW sub, sub.split, InsertDone(pg, R, E, rank, h, e, k, sub)
  PROVE  InsertDone(pg, R, E, rank, h, e, p, NodeInsert(sub.t, p, j, sub))
<1> DEFINE t == sub.t
           u == t.hint
           F == E \cup {e}
           seps == InsertAt(t.pg[p].es, j + 1, sub.sep)
           kids == InsertAt(t.pg[p].kids, j + 2, sub.right)
           mid == Len(seps) \div 2
           pg1 == [t.pg EXCEPT ![p] = Node(seps, kids)]
           pg2 == [t.pg EXCEPT ![u] = Node(SubSeq(seps, mid + 2, Len(seps)), SubSeq(kids, mid + 2, Len(kids))),
                               ![p] = Node(SubSeq(seps, 1, mid), SubSeq(kids, 1, mid + 1))]
           r == NodeInsert(t, p, j, sub)
<1>1. u \in Nat /\ u >= h /\ t = [pg |-> t.pg, hint |-> u]
  BY DEF InsertDone
<1>2. NewPage(t) = u
  BY <1>1 DEF NewPage
<1>3. /\ p \in Nos /\ p \in TreePages(pg) /\ pg \in Files /\ rank \in [Nos -> Nat] /\ TreePages(pg) \subseteq Nos
      /\ NodeCap \in Nat /\ NodeCap >= 2 /\ rank[p] \in Nat
  BY Kinds, ConstantsOK DEF Tree, Local, Linked
<1>4. Len(t.pg[p].es) < NodeCap => r = Whole([t EXCEPT !.pg[p] = Node(seps, kids)])
  BY DEF NodeInsert
<1>5. ~(Len(t.pg[p].es) < NodeCap) => r = Split([pg |-> pg2, hint |-> u + 1], seps[mid + 1], u)
  BY <1>2 DEF NodeInsert
<1>6. [t EXCEPT !.pg[p] = Node(seps, kids)] = [pg |-> pg1, hint |-> u]
  <2> DEFINE n == Node(seps, kids)
  <2> HIDE DEF n, u
  <2>1. t = [pg |-> t.pg, hint |-> u]
    BY <1>1
  <2> QED BY <2>1
<1>7. /\ r.t = [pg |-> r.t.pg, hint |-> r.t.hint] /\ r.t.hint \in Nat /\ r.t.hint >= u
  <2> HIDE DEF r, t, u, seps, kids, mid, pg1, pg2
  <2>1. CASE Len(t.pg[p].es) < NodeCap
    BY <1>1, <1>4, <1>6, <2>1 DEF Whole
  <2>2. CASE ~(Len(t.pg[p].es) < NodeCap)
    BY <1>1, <1>5, <2>2 DEF Split
  <2> QED BY <2>1, <2>2
<1>8. CASE ~(r.t.hint <= MaxPage)
  <2>1. r.t.hint >= h
    BY <1>1, <1>7
  <2> HIDE DEF r, t
  <2> QED BY <1>7, <1>8, <2>1 DEF InsertDone, r, t
<1>9. CASE r.t.hint <= MaxPage
  <2>1. u <= MaxPage /\ MaxPage \in Nat
    <3> HIDE DEF r, u
    <3> QED BY <1>1, <1>7, <1>9, ConstantsOK
  <2>2. /\ Free(t.pg, u) /\ Capped(t.pg) /\ Formed(t.pg) /\ u # h
        /\ \A q \in TreePages(pg) : rank[q] > rank[k] => t.pg[q] = pg[q]
        /\ \E rank2, low2, high2 : Tree(t.pg, R, F, k, sub.right, rank2, low2, high2) /\ Pending(k, sub.right, sub.sep, low2, high2)
    BY <2>1 DEF InsertDone
  <2> HIDE DEF r, t, u, F
  <2>3. PICK rank2, low2, high2 : Tree(t.pg, R, F, k, sub.right, rank2, low2, high2) /\ Pending(k, sub.right, sub.sep, low2, high2)
    BY <2>2
  <2>4. t.pg[p] = pg[p] /\ t.pg \in Files /\ p \in Nodes(t.pg)
    <3>1. t.pg[p] = pg[p]
      BY <1>3, <2>2
    <3> QED BY <1>3, <2>3, <3>1 DEF Tree, Local, Nodes
  <2> HIDE DEF seps, kids
  <2>5. /\ Tree(pg1, R, F, R, R, rank2, low2, high2)
        /\ seps \in Seq(Entries) /\ Len(seps) = Len(t.pg[p].es) + 1 /\ kids \in Seq(Nos) /\ Len(kids) = Len(seps) + 1
    <3>1. j \in 0..Len(t.pg[p].es) /\ t.pg[p].kids[j + 1] = k
      BY <2>4
    <3>2. seps = InsertAt(t.pg[p].es, j + 1, sub.sep) /\ kids = InsertAt(t.pg[p].kids, j + 2, sub.right)
      BY DEF seps, kids
    <3> DEFINE g == t.pg
               y == sub.right
               sep == sub.sep
    <3>3. /\ Growing(g, R, F, k, y, sep, rank2, low2, high2, p, j)
          /\ seps = Seps(g, p, j, sep) /\ kids = Kids(g, p, j, y) /\ pg1 = WithChild(g, p, j, sep, y)
      BY <2>3, <2>4, <3>1, <3>2 DEF Growing, WithChild, Seps, Kids
    <3> HIDE DEF g, y, sep, pg1
    <3>4. /\ Tree(WithChild(g, p, j, sep, y), R, F, R, R, rank2, low2, high2)
          /\ Seps(g, p, j, sep) \in Seq(Entries) /\ Len(Seps(g, p, j, sep)) = Len(g[p].es) + 1
          /\ Kids(g, p, j, y) \in Seq(Nos) /\ Len(Kids(g, p, j, y)) = Len(Seps(g, p, j, sep)) + 1
      BY <3>3, AddChild
    <3> QED BY <3>3, <3>4 DEF g
  <2>6. ASSUME NEW q \in Nos PROVE pg1[p] = Node(seps, kids) /\ (q # p => pg1[q] = t.pg[q])
    BY <1>3, <2>4 DEF Files
  <2> HIDE DEF pg1
  <2>7. pg1[p].type = "node" /\ pg1[p].es = seps /\ pg1[p].kids = kids /\ t.pg[p].type = "node"
    BY <1>3, <2>4, <2>6 DEF Node, Nodes
  <2>8. Leaves(pg1) = Leaves(t.pg) /\ TreePages(pg1) = TreePages(t.pg)
    BY <2>6, <2>7 DEF Leaves, TreePages, IsTree
  <2>9. ~(p >= u)
    BY <1>3, <2>2, <2>7 DEF Free, ZeroPage
  <2>10. \A q \in TreePages(pg) : rank[q] > rank[p] => q \in Nos /\ q # p /\ t.pg[q] = pg[q] /\ q \in TreePages(t.pg)
    <3> SUFFICES ASSUME NEW q \in TreePages(pg), rank[q] > rank[p] PROVE q \in Nos /\ q # p /\ t.pg[q] = pg[q] /\ q \in TreePages(t.pg)
      OBVIOUS
    <3>1. q \in Nos /\ rank[q] \in Nat
      BY <1>3
    <3>2. q # p /\ rank[q] > rank[k]
      BY <1>3, <3>1
    <3> QED BY <2>2, <3>1, <3>2 DEF TreePages
  <2>11. CASE Len(t.pg[p].es) < NodeCap
    <3>1. r.t.pg = pg1 /\ r.t.hint = u /\ r.split = FALSE
      BY <1>4, <1>6, <2>11 DEF Whole
    <3>2. Free(pg1, u)
      BY <2>2, <2>6, <2>9 DEF Free
    <3>3. Capped(pg1)
      <4>1. \A q \in Leaves(t.pg) : q \in Nos /\ q # p /\ pg1[q] = t.pg[q]
        BY <2>4, <2>6, Kinds
      <4> QED BY <2>2, <2>8, <4>1 DEF Capped
    <3>4. \A q \in TreePages(pg) : rank[q] > rank[p] => pg1[q] = pg[q]
      BY <2>6, <2>10
    <3>5. \E rank3, low3, high3 : Tree(pg1, R, F, R, R, rank3, low3, high3)
      BY <2>5
    <3>6. Formed(pg1)
      <4>1. pg1[p] = Node(pg1[p].es, pg1[p].kids)
        BY <1>3, <2>6, <2>7
      <4> QED BY <2>2, <2>6, <4>1 DEF Formed
    <3> QED BY <1>1, <1>7, <2>2, <3>1, <3>2, <3>3, <3>4, <3>5, <3>6 DEF InsertDone, F, r, t
  <2>12. CASE ~(Len(t.pg[p].es) < NodeCap)
    <3>1. r.t.pg = pg2 /\ r.t.hint = u + 1 /\ r.split = TRUE /\ r.right = u /\ r.sep = seps[mid + 1]
      BY <1>5, <2>12 DEF Split
    <3>2. u \in Nos /\ u # p /\ u # 0 /\ u \notin TreePages(t.pg) /\ u \notin TreePages(pg1)
      <4>1. u \in Nos /\ u # 0
        BY <1>1, <2>1 DEF Nos
      <4>2. t.pg[u] = ZeroPage
        BY <1>1, <2>2, <4>1 DEF Free
      <4>3. u \notin TreePages(t.pg)
        BY <4>2 DEF TreePages, IsTree, ZeroPage
      <4> QED BY <2>4, <2>8, <4>1, <4>3, Kinds
    <3>3. mid \in 1..(Len(seps) - 1) /\ mid \in Nat
      <4> DEFINE l == Len(seps)
      <4>1. l \in Nat /\ l >= 3
        <5>1. Len(t.pg[p].es) \in Nat
          BY <1>3, <2>4 DEF Files, Page
        <5> QED BY <1>3, <2>5, <2>12, <5>1
      <4>2. mid = l \div 2
        OBVIOUS
      <4> HIDE DEF l, mid
      <4>3. mid \in 1..(l - 1) /\ mid \in Nat
        BY <4>1, <4>2
      <4> QED BY <4>3 DEF l
    <3> HIDE DEF mid
    <3> DEFINE A == Node(SubSeq(seps, 1, mid), SubSeq(kids, 1, mid + 1))
               B == Node(SubSeq(seps, mid + 2, Len(seps)), SubSeq(kids, mid + 2, Len(kids)))
    <3>4. pg2 = [pg1 EXCEPT ![u] = B, ![p] = A]
      <4> HIDE DEF A, B
      <4>1. pg2 = [t.pg EXCEPT ![u] = B, ![p] = A]
        BY DEF A, B
      <4> HIDE DEF pg2
      <4> QED BY <1>3, <2>4, <3>2, <4>1 DEF Files, pg1
    <3>5. p \in Nodes(pg1)
      BY <1>3, <2>7 DEF Nodes
    <3>6. \E rank3, low3, high3 : Tree(pg2, R, F, p, u, rank3, low3, high3) /\ Pending(p, u, seps[mid + 1], low3, high3)
      <4> HIDE DEF pg2
      <4> QED BY <2>5, <2>7, <3>2, <3>3, <3>4, <3>5, SplitNode
    <3>7. ASSUME NEW q \in Nos PROVE q # u /\ q # p => pg2[q] = t.pg[q]
      BY <1>3, <2>4, <3>2 DEF Files
    <3>8. /\ pg2[u].type = "node" /\ pg2[p].type = "node"
          /\ pg2[u] = Node(pg2[u].es, pg2[u].kids) /\ pg2[p] = Node(pg2[p].es, pg2[p].kids)
      <4>1. pg2[u] = B /\ pg2[p] = A
        BY <1>3, <2>4, <3>2 DEF Files
      <4> HIDE DEF pg2
      <4> QED BY <4>1 DEF Node
    <3> HIDE DEF pg2, A, B
    <3>9. Free(pg2, u + 1)
      <4> SUFFICES ASSUME NEW q \in Nos, q >= u + 1 PROVE pg2[q] = ZeroPage
        BY DEF Free
      <4>1. q >= u /\ q # u /\ q # p
        BY <1>1, <1>3, <2>9, ConstantsOK, SMTT(30) DEF Nos
      <4> QED BY <2>2, <3>7, <4>1 DEF Free
    <3>10. Capped(pg2)
      <4>1. \A q \in Leaves(pg2) : q \in Leaves(t.pg) /\ pg2[q] = t.pg[q]
        BY <3>7, <3>8 DEF Leaves
      <4> QED BY <2>2, <4>1 DEF Capped
    <3>11. \A q \in TreePages(pg) : rank[q] > rank[p] => pg2[q] = pg[q]
      BY <2>10, <3>2, <3>7
    <3>12. u + 1 # h /\ u + 1 >= h
      BY <1>1
    <3>13. Formed(pg2)
      BY <2>2, <3>7, <3>8 DEF Formed
    <3> QED BY <1>1, <1>7, <3>1, <3>6, <3>9, <3>10, <3>11, <3>12, <3>13 DEF InsertDone, F, r, t
  <2> QED BY <2>11, <2>12
<1> QED BY <1>8, <1>9

\* insert_rec on a page that is for e.
LEMMA InsertRecInserts ==
  ASSUME NEW pg, NEW h, NEW R, NEW E, NEW rank, NEW low, NEW high, Tree(pg, R, E, R, R, rank, low, high),
         h \in Nat, h # 0, Free(pg, h), Capped(pg), Formed(pg), count \in Nat, count <= h,
         NEW e \in Entries, e \notin E, NEW no \in TreePages(pg), e \in low[no], e \notin high[no]
  PROVE  InsertDone(pg, R, E, rank, h, e, no, InsertRec([pg |-> pg, hint |-> h], no, e))
<1> DEFINE t == [pg |-> pg, hint |-> h]
<1>1. e \in Points /\ t.pg = pg /\ t.hint = h
  BY EntryPoints
<1> HIDE DEF t
<1>2. PICK rec : InsertRec(t, no, e) = rec[no] /\ \A p \in TreePages(pg) : rec[p] = Turn(t, e, rec, p)
  <2>1. Tree(t.pg, R, E, R, R, rank, low, high) /\ no \in TreePages(t.pg)
    BY <1>1
  <2>2. \E rec : InsertRec(t, no, e) = rec[no] /\ \A p \in TreePages(t.pg) : rec[p] = Turn(t, e, rec, p)
    BY <1>1, <2>1, InsertRecTurns
  <2> QED BY <1>1, <2>2
<1>3. rank \in [Nos -> Nat] /\ TreePages(pg) \subseteq Nos
  BY Kinds DEF Tree, Linked
<1> DEFINE S == {n \in Nat : \A p \in TreePages(pg) : rank[p] = n /\ e \in low[p] /\ e \notin high[p] =>
                               InsertDone(pg, R, E, rank, h, e, p, rec[p])}
<1>4. ASSUME NEW n \in Nat, \A m \in Nat : m < n => m \in S PROVE n \in S
  <2> SUFFICES ASSUME NEW p \in TreePages(pg), rank[p] = n, e \in low[p], e \notin high[p]
               PROVE  InsertDone(pg, R, E, rank, h, e, p, rec[p])
    OBVIOUS
  <2>0. rec[p] = Turn(t, e, rec, p)
    BY <1>2
  <2>1. CASE p \in Leaves(pg)
    <3>1. pg[p].type = "leaf"
      BY <2>1 DEF Leaves
    <3>2. rec[p] = LeafInsert(t, p, e)
      BY <1>1, <2>0, <3>1 DEF Turn
    <3> QED BY <2>1, <3>2, LeafInserts DEF t
  <2>2. CASE p \in Nodes(pg)
    <3>1. pg[p].type = "node"
      BY <2>2 DEF Nodes
    <3> DEFINE j == NodeChildIndex(pg[p].es, e)
               k == pg[p].kids[j + 1]
               sub == rec[k]
    <3>2. rec[p] = IF sub.split THEN NodeInsert(sub.t, p, j, sub) ELSE sub
      BY <1>1, <2>0, <3>1 DEF Turn
    <3>3. /\ j \in 0..Len(pg[p].es) /\ k \in TreePages(pg) /\ rank[k] < rank[p]
          /\ e \in low[k] /\ e \notin high[k] /\ rank[k] \in Nat /\ rank[p] \in Nat
      BY <1>1, <2>2, Route
    <3>4. k = pg[p].kids[j + 1]
      OBVIOUS
    <3> HIDE DEF j, k
    <3>5. InsertDone(pg, R, E, rank, h, e, k, sub)
      BY <1>4, <3>3
    <3> HIDE DEF sub
    <3>6. CASE sub.split
      <4>1. InsertDone(pg, R, E, rank, h, e, p, NodeInsert(sub.t, p, j, sub))
        BY <2>2, <3>3, <3>4, <3>5, <3>6, NodeInserts
      <4> QED BY <3>2, <3>6, <4>1
    <3>7. CASE ~sub.split
      <4>1. rec[p] = sub
        BY <3>2, <3>7
      <4>2. ASSUME NEW q \in TreePages(pg), rank[q] > rank[p] PROVE rank[q] > rank[k]
        <5>1. rank[q] \in Nat
          BY <1>3
        <5> QED BY <3>3, <4>2, <5>1
      <4>3. InsertDone(pg, R, E, rank, h, e, p, sub)
        BY <3>5, <3>7, <4>2 DEF InsertDone
      <4> QED BY <4>1, <4>3
    <3> QED BY <3>6, <3>7
  <2> QED BY <2>1, <2>2, Kinds
<1>5. \A n \in Nat : n \in S
  <2> HIDE DEF S
  <2> QED BY <1>4, Descend
<1>6. InsertDone(pg, R, E, rank, h, e, no, rec[no])
  <2>1. rank[no] \in S /\ rank[no] \in Nat
    <3> HIDE DEF S
    <3> QED BY <1>3, <1>5
  <2> QED BY <2>1
<1> QED BY <1>2, <1>6 DEF t

-----------------------------------------------------------------------------
(* The file *)

RootOf(pg) == pg[0].kids[1]

TreeOf(pg, E) == \E rank, low, high : Tree(pg, RootOf(pg), E, RootOf(pg), RootOf(pg), rank, low, high)

FileOK(pg, E, h) == TreeOf(pg, E) /\ Free(pg, h) /\ Capped(pg) /\ Formed(pg)

\* The BTree object, the file and its committed state. What a rolled back root
\* split leaves in root_page is the number of a free page.
StoreInv ==
  /\ txn \in BOOLEAN /\ count \in Nat /\ hint \in Nat /\ root \in Nos
  /\ 2 <= count /\ count <= hint /\ hint <= MaxPage + 1
  /\ FileOK(pages, entries, hint) /\ FileOK(saved, entries0, hint)
  /\ entries0 \subseteq entries /\ (entries = entries0 => pages = saved) /\ (~txn => entries = entries0)
  /\ root = RootOf(pages) \/ pages[root] = ZeroPage
  /\ root = RootOf(saved) \/ saved[root] = ZeroPage

\* The root is what the header says.
LEMMA HeaderRoot ==
  ASSUME NEW pg, NEW R, NEW E, NEW x, NEW y, NEW rank, NEW low, NEW high, Tree(pg, R, E, x, y, rank, low, high)
  PROVE  RootOf(pg) = R /\ R \in TreePages(pg)
<1>1. pg[0] = Header(R) /\ R \in TreePages(pg)
  BY DEF Tree, Linked
<1> QED BY <1>1 DEF RootOf, Header

\* Pages name pages of the tree.
LEMMA NamedPages ==
  ASSUME NEW pg, NEW E, NEW h, FileOK(pg, E, h)
  PROVE  Named(pg) \subseteq {0} \cup TreePages(pg) /\ \A p \in TreePages(pg) : p # h
<1> DEFINE R == RootOf(pg)
<1>1. PICK rank, low, high : Tree(pg, R, E, R, R, rank, low, high)
  BY DEF FileOK, TreeOf
<1> HIDE DEF R
<1>2. /\ pg \in Files /\ pg[0] = Header(R) /\ R \in TreePages(pg)
      /\ \A p \in Nodes(pg) : \A i \in 1..Len(pg[p].kids) : pg[p].kids[i] \in TreePages(pg)
      /\ \A p \in Leaves(pg) : pg[p].next # 0 => pg[p].next \in Leaves(pg)
  BY <1>1 DEF Tree, Local, Linked
<1>3. ASSUME NEW p \in Nos PROVE Range(pg[p].kids) \subseteq TreePages(pg) /\ pg[p].next \in {0} \cup TreePages(pg)
  <2>0. pg[p].kids \in Seq(Nos)
    BY <1>2 DEF Files, Page
  <2>1. \A z \in Range(pg[p].kids) : \E i \in 1..Len(pg[p].kids) : z = pg[p].kids[i]
    BY <2>0 DEF Range
  <2>2. CASE p = 0
    <3>1. pg[p].kids = <<R>> /\ pg[p].next = 0 /\ Len(<<R>>) = 1 /\ <<R>>[1] = R
      BY <1>2, <2>2 DEF Header
    <3>2. \A i \in 1..1 : i = 1
      OBVIOUS
    <3> QED BY <1>2, <2>1, <3>1, <3>2
  <2>3. CASE p # 0 /\ pg[p] = ZeroPage
    <3>1. pg[p].kids = <<>> /\ pg[p].next = 0 /\ Len(<<>>) = 0
      BY <2>3 DEF ZeroPage
    <3>2. \A i \in 1..0 : FALSE
      OBVIOUS
    <3> QED BY <2>1, <3>1, <3>2
  <2>4. CASE p # 0 /\ pg[p] = Leaf(pg[p].es, pg[p].next)
    <3>1. pg[p].kids = <<>> /\ pg[p].type = "leaf" /\ Len(<<>>) = 0
      BY <2>4 DEF Leaf
    <3>2. \A i \in 1..0 : FALSE
      OBVIOUS
    <3>3. p \in Leaves(pg)
      BY <3>1 DEF Leaves
    <3> QED BY <1>2, <2>1, <3>1, <3>2, <3>3, Kinds
  <2>5. CASE p # 0 /\ pg[p] = Node(pg[p].es, pg[p].kids)
    <3>1. pg[p].next = 0 /\ pg[p].type = "node"
      BY <2>5 DEF Node
    <3>3. p \in Nodes(pg)
      BY <3>1 DEF Nodes
    <3> QED BY <1>2, <2>1, <3>1, <3>3
  <2> QED BY <2>2, <2>3, <2>4, <2>5 DEF FileOK, Formed
<1>4. Named(pg) \subseteq {0} \cup TreePages(pg)
  BY <1>3 DEF Named
<1>5. ASSUME NEW p \in TreePages(pg), p = h PROVE FALSE
  <2>1. p \in Nos /\ p >= h
    BY <1>5, Kinds, ConstantsOK DEF Nos
  <2>2. pg[p] = ZeroPage
    BY <2>1 DEF FileOK, Free
  <2> QED BY <1>5, <2>2 DEF TreePages, IsTree, ZeroPage
<1> QED BY <1>4, <1>5

\* A file of free pages from h on is one from a later page on.
LEMMA FreeLater ==
  ASSUME NEW pg, NEW E, NEW h \in Nat, NEW k \in Nat, k >= h, FileOK(pg, E, h)
  PROVE  FileOK(pg, E, k)
<1>1. \A q \in Nos : q >= k => q >= h
  BY ConstantsOK DEF Nos
<1> QED BY <1>1 DEF FileOK, Free

\* BTree::create.
LEMMA StoreInit ==
  ASSUME Init
  PROVE  StoreInv
<1> DEFINE rank == [p \in Nos |-> 0]
           low == [p \in Nos |-> Points]
           high == [p \in Nos |-> {}]
<1>1. /\ 0 \in Nos /\ 1 \in Nos /\ MaxPage \in Nat /\ MaxPage >= 1
      /\ pages[0] = Header(1) /\ pages[1] = Leaf(<<>>, 0) /\ \A p \in Nos : p # 0 /\ p # 1 => pages[p] = ZeroPage
  BY ConstantsOK DEF Init, Nos
<1>2. pages \in Files
  <2>1. <<>> \in Seq(Entries) /\ <<1>> \in Seq(Nos) /\ <<>> \in Seq(Nos)
    BY <1>1
  <2>2. Header(1) \in Page /\ Leaf(<<>>, 0) \in Page /\ ZeroPage \in Page
    BY <1>1, <2>1 DEF Header, Leaf, ZeroPage, Page
  <2> QED BY <2>2 DEF Init, Files
<1>3. Leaves(pages) = {1} /\ Nodes(pages) = {} /\ TreePages(pages) = {1}
  BY <1>1 DEF Leaves, Nodes, TreePages, IsTree, Header, Leaf, ZeroPage
<1>4. pages[1].es = <<>> /\ pages[1].next = 0 /\ Len(<<>>) = 0 /\ 1..0 = {}
  BY <1>1 DEF Leaf
<1>5. Local(pages)
  BY <1>2, <1>3, <1>4 DEF Local, Ascending
<1>6. Linked(pages, 1, 1, 1, rank)
  BY <1>1, <1>3, <1>4 DEF Linked
<1>7. Fenced(pages, 1, 1, 1, low, high)
  <2>1. low[1] = Points /\ high[1] = {} /\ Upward(Points) /\ Upward({})
    BY <1>1 DEF Upward
  <2>2. low \in [Nos -> SUBSET Points] /\ high \in [Nos -> SUBSET Points]
    OBVIOUS
  <2> HIDE DEF low, high
  <2>3. /\ \A p \in TreePages(pages) : /\ Upward(low[p]) /\ Upward(high[p])
                                       /\ \A i \in 1..Len(pages[p].es) : pages[p].es[i] \in low[p] /\ pages[p].es[i] \notin high[p]
        /\ \A p \in Leaves(pages) : high[p] = IF pages[p].next = 0 THEN {} ELSE low[pages[p].next]
    BY <1>3, <1>4, <2>1
  <2> QED BY <1>3, <2>1, <2>2, <2>3 DEF Fenced, Reach
<1>8. Stored(pages, {}, low, high)
  BY <1>3, <1>4 DEF Stored
<1>9. Tree(pages, 1, {}, 1, 1, rank, low, high)
  BY <1>5, <1>6, <1>7, <1>8 DEF Tree
<1>10. RootOf(pages) = 1
  BY <1>9, HeaderRoot
<1>11. TreeOf(pages, {})
  <2> HIDE DEF rank, low, high
  <2> QED BY <1>9, <1>10 DEF TreeOf
<1>12. Free(pages, 2) /\ Capped(pages) /\ Formed(pages)
  <2>1. Free(pages, 2)
    BY <1>1 DEF Free
  <2>2. Capped(pages)
    BY <1>3, <1>4, ConstantsOK DEF Capped
  <2>3. Formed(pages)
    BY <1>1, <1>4 DEF Formed
  <2> QED BY <2>1, <2>2, <2>3
<1>13. count = 2 /\ hint = 2 /\ root = 1 /\ saved = pages /\ entries = {} /\ entries0 = {} /\ txn = FALSE
  BY DEF Init
<1>14. FileOK(pages, entries, hint) /\ FileOK(saved, entries0, hint)
  BY <1>11, <1>12, <1>13 DEF FileOK
<1>15. root = RootOf(pages) /\ root = RootOf(saved)
  BY <1>10, <1>13
<1>16. count \in Nat /\ hint \in Nat /\ 2 <= count /\ count <= hint /\ hint <= MaxPage + 1
  BY <1>1, <1>13
<1>17. txn \in BOOLEAN /\ root \in Nos /\ entries0 \subseteq entries /\ pages = saved /\ entries = entries0
  BY <1>1, <1>13
<1> QED BY <1>14, <1>15, <1>16, <1>17, Zenon DEF StoreInv

\* What an insertion starts from and what insert_rec returns to it.
LEMMA InsertRuns ==
  ASSUME StoreInv, NEW e \in Entries, Insert(e), NEW r, r = InsertRec([pg |-> pages, hint |-> hint], root, e)
  PROVE  /\ root \in TreePages(pages) /\ root = RootOf(pages)
         /\ \E rank : InsertDone(pages, root, entries, rank, hint, e, root, r)
         /\ NewPage(r.t) = r.t.hint /\ r.t.hint \in Nat /\ r.t.hint >= hint /\ r.t.hint <= MaxPage
<1>1. IsTree(pages[root]) /\ root \in Nos /\ e \notin entries /\ NewPage(r.t) <= MaxPage
  BY DEF StoreInv, Insert
<1>2. root = RootOf(pages) /\ root \in TreePages(pages)
  BY <1>1 DEF StoreInv, IsTree, ZeroPage, TreePages
<1>3. PICK rank, low, high : Tree(pages, root, entries, root, root, rank, low, high)
  BY <1>2 DEF StoreInv, FileOK, TreeOf
<1>4. e \in low[root] /\ e \notin high[root]
  BY <1>3, EntryPoints DEF Tree, Fenced, Reach
<1>5. /\ hint \in Nat /\ hint # 0 /\ count \in Nat /\ count <= hint /\ Free(pages, hint) /\ Capped(pages) /\ Formed(pages)
  BY DEF StoreInv, FileOK
<1>6. InsertDone(pages, root, entries, rank, hint, e, root, r)
  BY <1>1, <1>2, <1>3, <1>4, <1>5, InsertRecInserts
<1>7. r.t.hint \in Nat /\ r.t.hint >= hint
  BY <1>6 DEF InsertDone
<1>8. NewPage(r.t) = r.t.hint
  BY <1>5, <1>7 DEF NewPage
<1> QED BY <1>1, <1>2, <1>6, <1>7, <1>8

\* index_insert.
LEMMA StoreInsert ==
  ASSUME StoreInv, NEW e \in Entries, Insert(e), NEW r, r = InsertRec([pg |-> pages, hint |-> hint], root, e)
  PROVE  /\ StoreInv'
         /\ r.t.hint = hint => \E q \in Leaves(pages) : pages' = WithEntry(pages, q, e)
<1> DEFINE no == r.t.hint
           F == entries \cup {e}
<1>1. /\ root \in TreePages(pages) /\ root = RootOf(pages)
      /\ NewPage(r.t) = no /\ no \in Nat /\ no >= hint /\ no <= MaxPage
  BY InsertRuns
<1>2. PICK rank : InsertDone(pages, root, entries, rank, hint, e, root, r)
  BY InsertRuns
<1>3. /\ Free(r.t.pg, no) /\ Capped(r.t.pg) /\ Formed(r.t.pg)
      /\ r.split => \E rank2, low, high : Tree(r.t.pg, root, F, root, r.right, rank2, low, high) /\ Pending(root, r.right, r.sep, low, high)
      /\ ~r.split => \E rank2, low, high : Tree(r.t.pg, root, F, root, root, rank2, low, high)
      /\ no = hint => ~r.split /\ \E q \in Leaves(pages) : r.t.pg = WithEntry(pages, q, e)
  BY <1>1, <1>2 DEF InsertDone
<1>4. /\ IF r.split
         THEN /\ pages' = [r.t.pg EXCEPT ![no] = Node(<<r.sep>>, <<root, r.right>>), ![0] = Header(no)]
              /\ hint' = no + 1 /\ root' = no
         ELSE pages' = r.t.pg /\ hint' = no /\ root' = root
      /\ entries' = F /\ count' = count /\ txn' = txn /\ saved' = saved /\ entries0' = entries0 /\ txn /\ e \notin entries
  BY <1>1 DEF Insert
<1>5. /\ hint \in Nat /\ count \in Nat /\ 2 <= count /\ count <= hint /\ root \in Nos /\ FileOK(saved, entries0, hint)
      /\ entries0 \subseteq entries /\ (root = RootOf(saved) \/ saved[root] = ZeroPage) /\ MaxPage \in Nat
  BY ConstantsOK DEF StoreInv
<1> HIDE DEF no, F
<1>6. entries0 \subseteq F /\ entries0 # F
  BY <1>4, <1>5 DEF F
<1>7. CASE ~r.split
  <2>1. PICK rank2, low, high : Tree(r.t.pg, root, F, root, root, rank2, low, high)
    BY <1>3, <1>7
  <2>2. RootOf(r.t.pg) = root
    BY <2>1, HeaderRoot
  <2>3. FileOK(r.t.pg, F, no)
    BY <1>3, <2>1, <2>2 DEF FileOK, TreeOf
  <2>4. FileOK(saved, entries0, no)
    BY <1>1, <1>5, FreeLater
  <2>5. pages' = r.t.pg /\ hint' = no /\ root' = root
    BY <1>4, <1>7
  <2>6. StoreInv'
    <3>1. txn' \in BOOLEAN /\ count' \in Nat /\ hint' \in Nat /\ root' \in Nos
      BY <1>1, <1>4, <1>5, <2>5 DEF StoreInv
    <3>2. 2 <= count' /\ count' <= hint' /\ hint' <= MaxPage + 1
      BY <1>1, <1>4, <1>5, <2>5
    <3>3. FileOK(pages', entries', hint') /\ FileOK(saved', entries0', hint')
      BY <1>4, <2>3, <2>4, <2>5
    <3>4. entries0' \subseteq entries' /\ entries' # entries0' /\ txn'
      BY <1>4, <1>6
    <3>5. root' = RootOf(pages') /\ (root' = RootOf(saved') \/ saved'[root'] = ZeroPage)
      BY <1>4, <1>5, <2>2, <2>5
    <3> QED BY <3>1, <3>2, <3>3, <3>4, <3>5 DEF StoreInv, FileOK, TreeOf, RootOf, Free, Capped, Formed
  <2> QED BY <1>3, <2>5, <2>6 DEF no
<1>8. CASE r.split
  <2> DEFINE sep == r.sep
             y == r.right
             pg == r.t.pg
             pg2 == [pg EXCEPT ![no] = Node(<<sep>>, <<root, y>>), ![0] = Header(no)]
  <2>1. PICK rank2, low, high : Tree(pg, root, F, root, y, rank2, low, high) /\ Pending(root, y, sep, low, high)
    BY <1>3, <1>8
  <2>2. no \in Nos /\ no # 0 /\ pg[no] = ZeroPage /\ saved[no] = ZeroPage
    <3>1. no \in Nos /\ no # 0
      BY <1>1, <1>5 DEF Nos
    <3> QED BY <1>1, <1>3, <1>5, <3>1 DEF FileOK, Free
  <2>3. no \notin TreePages(pg)
    BY <2>2 DEF TreePages, IsTree, ZeroPage
  <2>4. pages' = pg2 /\ hint' = no + 1 /\ root' = no
    BY <1>4, <1>8
  <2>5. pg \in Files /\ 0 \in Nos
    BY <2>1, ConstantsOK DEF Tree, Local, Nos
  <2> HIDE DEF sep, y, pg
  <2>6. \E rank3, low3, high3 : Tree(pg2, no, F, no, no, rank3, low3, high3)
    BY <2>1, <2>2, <2>3, NewRoot
  <2>7. ASSUME NEW q \in Nos
        PROVE  (q # 0 /\ q # no => pg2[q] = pg[q]) /\ pg2[no] = Node(<<sep>>, <<root, y>>) /\ pg2[0] = Header(no)
    BY <2>2, <2>5 DEF Files
  <2> HIDE DEF pg2
  <2>8. RootOf(pg2) = no
    BY <2>6, HeaderRoot
  <2>9. TreeOf(pg2, F)
    BY <2>6, <2>8 DEF TreeOf
  <2>10. Free(pg2, no + 1)
    <3> SUFFICES ASSUME NEW q \in Nos, q >= no + 1 PROVE pg2[q] = ZeroPage
      BY DEF Free
    <3>1. q >= no /\ q # no /\ q # 0
      BY <1>1, ConstantsOK DEF Nos
    <3> QED BY <1>3, <2>7, <3>1 DEF Free, pg
  <2>11. Capped(pg2)
    <3>1. pg2[no].type = "node" /\ pg2[0].type = "header"
      BY <2>5, <2>7 DEF Node, Header
    <3>2. \A q \in Leaves(pg2) : q \in Leaves(pg) /\ pg2[q] = pg[q]
      BY <2>7, <3>1 DEF Leaves
    <3> QED BY <1>3, <3>2 DEF Capped, pg
  <2>12. Formed(pg2)
    <3>1. pg2[no] = Node(pg2[no].es, pg2[no].kids)
      BY <2>2, <2>7 DEF Node
    <3>2. Formed(pg)
      BY <1>3 DEF pg
    <3> QED BY <2>7, <3>1, <3>2 DEF Formed
  <2>13. FileOK(pg2, F, no + 1) /\ FileOK(saved, entries0, no + 1)
    <3>1. no + 1 \in Nat /\ no + 1 >= hint
      BY <1>1, <1>5
    <3>2. FileOK(saved, entries0, no + 1)
      BY <1>5, <3>1, FreeLater
    <3> QED BY <2>9, <2>10, <2>11, <2>12, <3>2 DEF FileOK
  <2>14. StoreInv'
    <3>1. txn' \in BOOLEAN /\ count' \in Nat /\ hint' \in Nat /\ root' \in Nos
      BY <1>1, <1>4, <1>5, <2>2, <2>4 DEF StoreInv
    <3>2. 2 <= count' /\ count' <= hint' /\ hint' <= MaxPage + 1
      BY <1>1, <1>4, <1>5, <2>4
    <3>3. FileOK(pages', entries', hint') /\ FileOK(saved', entries0', hint')
      BY <1>4, <2>4, <2>13
    <3>4. entries0' \subseteq entries' /\ entries' # entries0' /\ txn'
      BY <1>4, <1>6
    <3>5. root' = RootOf(pages') /\ saved'[root'] = ZeroPage
      BY <1>4, <2>2, <2>4, <2>8
    <3> QED BY <3>1, <3>2, <3>3, <3>4, <3>5 DEF StoreInv, FileOK, TreeOf, RootOf, Free, Capped, Formed
  <2>15. no # hint
    BY <1>3, <1>8
  <2> QED BY <2>14, <2>15 DEF no
<1> QED BY <1>7, <1>8

\* The other steps. A restart without residue leaves the committed pages.
LEMMA StoreNext ==
  ASSUME StoreInv, [Next]_vars, ~spoilt'
  PROVE  StoreInv'
<1>1. CASE Begin
  BY <1>1 DEF Begin, StoreInv, FileOK, TreeOf, RootOf, Free, Capped, Formed
<1>2. CASE CommitTxn
  <2>1. /\ pages' = pages /\ saved' = pages /\ entries' = entries /\ entries0' = entries /\ txn' = FALSE
        /\ count' = count /\ root' = root /\ hint' = hint
    BY <1>2 DEF CommitTxn
  <2> QED BY <2>1 DEF StoreInv, FileOK, TreeOf, RootOf, Free, Capped, Formed
<1>3. CASE RollbackTxn
  <2>1. /\ pages' = saved /\ saved' = saved /\ entries' = entries0 /\ entries0' = entries0 /\ txn' = FALSE
        /\ count' = count /\ root' = root /\ hint' = hint
    BY <1>3 DEF RollbackTxn
  <2> QED BY <2>1 DEF StoreInv, FileOK, TreeOf, RootOf, Free, Capped, Formed
<1>4. CASE WriteBack
  <2>1. /\ pages' = pages /\ saved' = saved /\ entries' = entries /\ entries0' = entries0 /\ txn' = txn
        /\ root' = root /\ hint' = hint /\ count' \in (count + 1)..hint
    BY <1>4 DEF WriteBack
  <2>2. count' \in Nat /\ 2 <= count' /\ count' <= hint
    BY <2>1 DEF StoreInv
  <2> QED BY <2>1, <2>2 DEF StoreInv, FileOK, TreeOf, RootOf, Free, Capped, Formed
<1>5. CASE Reopen
  <2>1. /\ pages' = saved /\ saved' = saved /\ entries' = entries0 /\ entries0' = entries0 /\ txn' = FALSE
        /\ count' \in 2..(MaxPage + 1) /\ (\A p \in Nos : p >= count' => saved[p] = ZeroPage)
        /\ root' = RootOf(saved) /\ hint' = IF count' > root' + 1 THEN count' ELSE root' + 1
    <3>1. residue = NoPages
      BY <1>5 DEF Reopen
    <3>2. DOMAIN residue = {}
      BY <3>1 DEF NoPages
    <3>3. PICK kept \in SUBSET DOMAIN residue :
            pages' = [p \in Nos |-> IF p \in kept THEN residue[p] ELSE saved[p]]
      BY <1>5 DEF Reopen
    <3>4. kept = {}
      BY <3>2, <3>3
    <3>5. pages' = [p \in Nos |-> saved[p]]
      BY <3>3, <3>4
    <3>6. saved \in Files
      BY DEF StoreInv, FileOK, TreeOf, Tree, Local
    <3>7. pages' = saved
      BY <3>5, <3>6 DEF Files
    <3> QED BY <1>5, <3>7 DEF Reopen, RootOf
  <2>2. FileOK(saved, entries0, hint)
    BY DEF StoreInv
  <2>3. root' \in Nos /\ MaxPage \in Nat
    <3>1. PICK rank, low, high : Tree(saved, RootOf(saved), entries0, RootOf(saved), RootOf(saved), rank, low, high)
      BY <2>2 DEF FileOK, TreeOf
    <3>2. RootOf(saved) \in TreePages(saved)
      BY <3>1, HeaderRoot
    <3> QED BY <2>1, <3>2, Kinds, ConstantsOK
  <2>4. count' \in Nat /\ hint' \in Nat /\ 2 <= count' /\ count' <= hint' /\ hint' <= MaxPage + 1
    BY <2>1, <2>3 DEF Nos
  <2>5. FileOK(saved, entries0, count')
    BY <2>1, <2>2 DEF FileOK, Free
  <2>6. FileOK(saved, entries0, hint')
    BY <2>4, <2>5, FreeLater
  <2> QED BY <2>1, <2>3, <2>4, <2>6 DEF StoreInv, FileOK, TreeOf, RootOf, Free, Capped, Formed
<1>6. ASSUME NEW e \in Entries, Insert(e) PROVE StoreInv'
  BY <1>6, StoreInsert
<1>7. CASE UNCHANGED store
  BY <1>7 DEF store, StoreInv, FileOK, TreeOf, RootOf, Free, Capped, Formed
<1>8. ASSUME NEW range \in CursorRanges, Scan(range[1], range[2]) PROVE UNCHANGED store
  BY <1>8 DEF Scan
<1>9. Fetch \/ CloseScan \/ UNCHANGED vars => UNCHANGED store
  BY DEF Fetch, CloseScan, vars, store
<1>10. ASSUME NEW p \in Nos, WritePage(p) PROVE UNCHANGED store
  BY <1>10 DEF WritePage
<1> QED BY <1>1, <1>2, <1>3, <1>4, <1>5, <1>6, <1>7, <1>8, <1>9, <1>10 DEF Next

\* What a restart has taken for the tree's stays in it.
LEMMA StaysSpoilt ==
  ASSUME spoilt, [Next]_vars
  PROVE  spoilt'
<1>1. CASE Next
  BY <1>1 DEF Next, Begin, CommitTxn, RollbackTxn, WriteBack, Reopen, Insert, WritePage, Scan, Fetch, CloseScan, file
<1>2. CASE UNCHANGED vars
  BY <1>2 DEF vars, file
<1> QED BY <1>1, <1>2

\* The file holds a tree of the entries and a free page is next, whatever was
\* split, rolled back, written back or reopened, until a restart finds bytes of
\* a rolled-back transaction in the file.
THEOREM TreeInvariant ==
  Spec => [](spoilt \/ StoreInv)
<1>1. Init => StoreInv
  BY StoreInit
<1>2. (spoilt \/ StoreInv) /\ [Next]_vars => (spoilt \/ StoreInv)'
  BY StoreNext, StaysSpoilt
<1> QED BY <1>1, <1>2, PTL DEF Spec

\* BTree::new_page: the next page number belongs to no page of the tree,
\* committed or current, unless the file is spoilt.
THEOREM NewPageIsFresh ==
  Spec => []NewPageFresh
<1>1. ASSUME StoreInv PROVE NewPageFresh
  <2>1. NewPage([pg |-> pages, hint |-> hint]) = hint /\ hint # 0
    BY <1>1 DEF StoreInv, NewPage
  <2>2. FileOK(pages, entries, hint) /\ FileOK(saved, entries0, hint)
    BY <1>1 DEF StoreInv
  <2>3. hint \notin Named(pages) /\ hint \notin Named(saved)
    BY <2>1, <2>2, NamedPages
  <2> QED BY <2>1, <2>3 DEF NewPageFresh
<1>2. spoilt \/ StoreInv => NewPageFresh
  BY <1>1 DEF NewPageFresh
<1> QED BY <1>2, TreeInvariant, PTL

\* Engine::tree_for: a root_page left by a rolled back root split is the number
\* of a free page, never of an old part of the tree, unless the file is spoilt.
THEOREM StaleRootIsDetected ==
  Spec => []StaleRootDetected
<1>1. spoilt \/ StoreInv => StaleRootDetected
  BY DEF StoreInv, StaleRootDetected, RootOf, IsTree, ZeroPage
<1> QED BY <1>1, TreeInvariant, PTL

-----------------------------------------------------------------------------
(* Scans *)

\* A bound's probe is a point.
LEMMA ProbePoint ==
  ASSUME NEW lo \in Bounds
  PROVE  lo.none \in BOOLEAN /\ (~lo.none => lo.key \in Keys /\ lo.incl \in BOOLEAN /\ Probe(lo) \in Points /\ Probe(lo).key = lo.key)
<1>1. CASE lo = NoBound
  BY <1>1 DEF NoBound
<1>2. CASE lo \in [none : {FALSE}, key : Keys, incl : BOOLEAN]
  <2>1. lo.none = FALSE /\ lo.key \in Keys /\ lo.incl \in BOOLEAN
    BY <1>2
  <2>2. Probe(lo) \in Points /\ Probe(lo).key = lo.key
    BY <2>1 DEF Probe, Points
  <2> QED BY <2>1, <2>2
<1> QED BY <1>1, <1>2 DEF Bounds

\* A turn of the constructor's loop, g standing for the turns after it.
Down(pg, lo, g, p) ==
  LET j == IF lo.none THEN 0 ELSE NodeChildIndex(pg[p].es, Probe(lo))
  IN IF pg[p].type = "leaf" THEN p ELSE g[pg[p].kids[j + 1]]

\* The child of the lower bound.
LEMMA DownChild ==
  ASSUME NEW pg, NEW R, NEW E, NEW rank, NEW low, NEW high, Tree(pg, R, E, R, R, rank, low, high),
         NEW lo \in Bounds, NEW p \in Nodes(pg),
         NEW k, k = pg[p].kids[(IF lo.none THEN 0 ELSE NodeChildIndex(pg[p].es, Probe(lo))) + 1]
  PROVE  /\ k \in TreePages(pg) /\ rank[k] < rank[p] /\ rank[k] \in Nat /\ rank[p] \in Nat
         /\ lo.none /\ low[p] = Points => low[k] = Points
         /\ ~lo.none /\ Probe(lo) \in low[p] /\ Probe(lo) \notin high[p] => Probe(lo) \in low[k] /\ Probe(lo) \notin high[k]
<1>1. CASE ~lo.none
  <2>1. Probe(lo) \in Points /\ k = pg[p].kids[NodeChildIndex(pg[p].es, Probe(lo)) + 1]
    BY <1>1, ProbePoint
  <2> QED BY <1>1, <2>1, Route
<1>2. CASE lo.none
  <2>1. k = pg[p].kids[1]
    BY <1>2
  <2>2. 1 \in 1..Len(pg[p].kids) /\ p \in Nos
    <3>1. p \in Nos /\ pg[p].es \in Seq(Entries) /\ Len(pg[p].kids) = Len(pg[p].es) + 1
      BY Kinds DEF Tree, Local, Files, Page
    <3> QED BY <3>1
  <2>3. k \in TreePages(pg) /\ rank[k] < rank[p] /\ rank \in [Nos -> Nat] /\ k \in Nos
    BY <2>1, <2>2, Kinds DEF Tree, Linked
  <2>4. low[k] = low[p]
    BY <2>1, <2>2 DEF Tree, Fenced
  <2> QED BY <1>2, <2>2, <2>3, <2>4
<1>3. lo.none \in BOOLEAN
  BY ProbePoint
<1> QED BY <1>1, <1>2, <1>3

\* The constructor ends on a tree: its turns have a solution.
LEMMA LeafForTurns ==
  ASSUME NEW pg, NEW R, NEW E, NEW rank, NEW low, NEW high, Tree(pg, R, E, R, R, rank, low, high),
         NEW lo \in Bounds, NEW no \in TreePages(pg)
  PROVE  \E leaf : LeafFor(pg, no, lo) = leaf[no] /\ \A p \in TreePages(pg) : leaf[p] = Down(pg, lo, leaf, p)
<1> DEFINE T == TreePages(pg)
           Rec(g) == g = [p \in T |-> Down(pg, lo, g, p)]
<1>1. rank \in [Nos -> Nat] /\ T \subseteq Nos
  BY Kinds DEF Tree, Linked
<1>2. ASSUME NEW f, NEW g, NEW p \in T, \A q \in T : rank[q] < rank[p] => f[q] = g[q]
      PROVE  Down(pg, lo, f, p) = Down(pg, lo, g, p)
  <2>1. CASE pg[p].type = "leaf"
    BY <2>1 DEF Down
  <2>2. CASE p \in Nodes(pg)
    <3> DEFINE k == pg[p].kids[(IF lo.none THEN 0 ELSE NodeChildIndex(pg[p].es, Probe(lo))) + 1]
    <3>1. k \in T /\ rank[k] < rank[p]
      BY <2>2, DownChild
    <3>2. f[k] = g[k]
      BY <1>2, <3>1
    <3> QED BY <3>2 DEF Down
  <2> QED BY <2>1, <2>2 DEF TreePages, IsTree, Nodes
<1> DEFINE S == {n \in Nat : \E f : \A p \in T : rank[p] < n => f[p] = Down(pg, lo, f, p)}
<1>3. ASSUME NEW n \in Nat, \A m \in Nat : m < n => m \in S PROVE n \in S
  <2>1. CASE n = 0
    <3>1. \A p \in T : ~(rank[p] < n)
      BY <1>1, <2>1
    <3> QED BY <3>1
  <2>2. CASE n # 0
    <3>1. n - 1 \in S
      BY <1>3, <2>2
    <3>2. PICK f : \A p \in T : rank[p] < n - 1 => f[p] = Down(pg, lo, f, p)
      BY <3>1
    <3> DEFINE g == [p \in T |-> Down(pg, lo, f, p)]
    <3>3. ASSUME NEW p \in T, rank[p] < n PROVE g[p] = Down(pg, lo, g, p)
      <4>1. ASSUME NEW q \in T, rank[q] < rank[p] PROVE f[q] = g[q]
        <5>1. rank[q] < n - 1
          BY <1>1, <3>3, <4>1
        <5> QED BY <3>2, <5>1
      <4>2. g[p] = Down(pg, lo, f, p)
        OBVIOUS
      <4> HIDE DEF g
      <4> QED BY <1>2, <4>1, <4>2
    <3> HIDE DEF g
    <3> QED BY <3>3
  <2> QED BY <2>1, <2>2
<1>4. \A n \in Nat : n \in S
  <2> HIDE DEF S
  <2> QED BY <1>3, Descend
<1>5. PICK N \in Nat : \A p \in Nos : rank[p] < N
  BY <1>1, RankBound
<1>6. PICK f : \A p \in T : f[p] = Down(pg, lo, f, p)
  <2>1. PICK f : \A p \in T : rank[p] < N => f[p] = Down(pg, lo, f, p)
    BY <1>4
  <2> QED BY <1>1, <1>5, <2>1
<1>7. Rec([p \in T |-> Down(pg, lo, f, p)])
  <2> DEFINE g == [p \in T |-> Down(pg, lo, f, p)]
  <2>1. ASSUME NEW p \in T PROVE Down(pg, lo, f, p) = Down(pg, lo, g, p)
    <3>1. \A q \in T : f[q] = g[q]
      BY <1>6
    <3> HIDE DEF g
    <3> QED BY <1>2, <3>1
  <2> QED BY <2>1
<1>8. Rec(CHOOSE g : Rec(g))
  <2> HIDE DEF Rec
  <2> QED BY <1>7
<1>9. LeafFor(pg, no, lo) = (CHOOSE g : Rec(g))[no]
  BY DEF LeafFor, Down
<1> DEFINE leaf == CHOOSE g : Rec(g)
<1>10. \A p \in T : leaf[p] = Down(pg, lo, leaf, p)
  <2>1. Rec(leaf)
    BY <1>8
  <2> HIDE DEF leaf
  <2> QED BY <2>1
<1> HIDE DEF leaf
<1> QED BY <1>9, <1>10 DEF leaf

\* The constructor comes to the leaf that is for the lower bound.
LEMMA LeafForFinds ==
  ASSUME NEW pg, NEW R, NEW E, NEW rank, NEW low, NEW high, Tree(pg, R, E, R, R, rank, low, high), NEW lo \in Bounds
  PROVE  /\ LeafFor(pg, R, lo) \in Leaves(pg)
         /\ lo.none => low[LeafFor(pg, R, lo)] = Points
         /\ ~lo.none => Probe(lo) \in low[LeafFor(pg, R, lo)] /\ Probe(lo) \notin high[LeafFor(pg, R, lo)]
<1> DEFINE Home(p) == /\ lo.none => low[p] = Points
                      /\ ~lo.none => Probe(lo) \in low[p] /\ Probe(lo) \notin high[p]
<1>1. R \in TreePages(pg) /\ rank \in [Nos -> Nat] /\ TreePages(pg) \subseteq Nos
  BY Kinds DEF Tree, Linked
<1>2. Home(R)
  BY ProbePoint DEF Tree, Fenced, Reach
<1>3. PICK leaf : LeafFor(pg, R, lo) = leaf[R] /\ \A p \in TreePages(pg) : leaf[p] = Down(pg, lo, leaf, p)
  BY <1>1, LeafForTurns
<1> DEFINE S == {n \in Nat : \A p \in TreePages(pg) : rank[p] = n /\ Home(p) => leaf[p] \in Leaves(pg) /\ Home(leaf[p])}
<1>4. ASSUME NEW n \in Nat, \A m \in Nat : m < n => m \in S PROVE n \in S
  <2> SUFFICES ASSUME NEW p \in TreePages(pg), rank[p] = n, Home(p) PROVE leaf[p] \in Leaves(pg) /\ Home(leaf[p])
    OBVIOUS
  <2>1. CASE p \in Leaves(pg)
    <3>1. leaf[p] = p
      BY <1>3, <2>1 DEF Down, Leaves
    <3> QED BY <2>1, <3>1
  <2>2. CASE p \in Nodes(pg)
    <3> DEFINE k == pg[p].kids[(IF lo.none THEN 0 ELSE NodeChildIndex(pg[p].es, Probe(lo))) + 1]
    <3>1. leaf[p] = leaf[k]
      BY <1>3, <2>2 DEF Down, Nodes
    <3>2. k \in TreePages(pg) /\ rank[k] < rank[p] /\ rank[k] \in Nat /\ Home(k)
      BY <2>2, DownChild
    <3> HIDE DEF k
    <3> QED BY <1>4, <3>1, <3>2
  <2> QED BY <2>1, <2>2, Kinds
<1>5. \A n \in Nat : n \in S
  <2> HIDE DEF S
  <2> QED BY <1>4, Descend
<1>6. leaf[R] \in Leaves(pg) /\ Home(leaf[R])
  <2>1. rank[R] \in S
    <3> HIDE DEF S
    <3> QED BY <1>1, <1>5
  <2> QED BY <1>1, <1>2, <2>1
<1> QED BY <1>3, <1>6

\* Where a scanner is, while nobody moves entries.
At(pg, s) ==
  /\ s.cur # 0 => s.cur \in Leaves(pg) /\ s.next = pg[s.cur].next
  /\ s.next # 0 => s.next \in Leaves(pg) /\ Len(pg[s.next].es) > 0

\* What it has yet to come to.
Ahead(pg, E, s) ==
  {x \in E : \/ s.cur # 0 /\ \E i \in 1..Len(pg[s.cur].es) : i > s.idx /\ pg[s.cur].es[i] = x
             \/ s.next # 0 /\ ~EntryLess(x, pg[s.next].es[1])}

\* A leaf of a tree.
LEMMA LeafFacts ==
  ASSUME NEW pg, NEW R, NEW E, NEW rank, NEW low, NEW high, Tree(pg, R, E, R, R, rank, low, high), NEW p \in Leaves(pg)
  PROVE  /\ p \in Nos /\ pg[p].type = "leaf" /\ pg[p].es \in Seq(Entries) /\ Ascending(pg[p].es) /\ pg[p].next \in Nos
         /\ Upward(low[p]) /\ Upward(high[p]) /\ high[p] = (IF pg[p].next = 0 THEN {} ELSE low[pg[p].next])
         /\ \A i \in 1..Len(pg[p].es) : pg[p].es[i] \in E /\ pg[p].es[i] \in low[p] /\ pg[p].es[i] \notin high[p]
         /\ \A x \in E : x \in low[p] /\ x \notin high[p] => \E i \in 1..Len(pg[p].es) : pg[p].es[i] = x
         /\ pg[p].next # 0 => pg[p].next \in Leaves(pg) /\ Len(pg[pg[p].next].es) > 0
<1>1. p \in TreePages(pg) /\ p \in Nos /\ pg[p].type = "leaf"
  BY Kinds DEF Leaves
<1>2. pg[p].es \in Seq(Entries) /\ pg[p].next \in Nos /\ Ascending(pg[p].es)
  BY <1>1 DEF Tree, Local, Files, Page
<1>3. /\ Upward(low[p]) /\ Upward(high[p]) /\ high[p] = IF pg[p].next = 0 THEN {} ELSE low[pg[p].next]
      /\ \A i \in 1..Len(pg[p].es) : pg[p].es[i] \in low[p] /\ pg[p].es[i] \notin high[p]
  BY <1>1 DEF Tree, Fenced
<1>4. /\ \A i \in 1..Len(pg[p].es) : pg[p].es[i] \in E
      /\ \A x \in E : x \in low[p] /\ x \notin high[p] => \E i \in 1..Len(pg[p].es) : pg[p].es[i] = x
  BY DEF Tree, Stored
<1>5. pg[p].next # 0 => pg[p].next \in Leaves(pg) /\ Len(pg[pg[p].next].es) > 0
  BY DEF Tree, Linked
<1> QED BY <1>1, <1>2, <1>3, <1>4, <1>5

\* The entries behind a leaf are those from the next leaf's first on.
LEMMA Behind ==
  ASSUME NEW pg, NEW R, NEW E, NEW rank, NEW low, NEW high, Tree(pg, R, E, R, R, rank, low, high),
         NEW p \in Leaves(pg), NEW x \in E
  PROVE  x \in high[p] <=> (pg[p].next # 0 /\ ~EntryLess(x, pg[pg[p].next].es[1]))
<1> DEFINE q == pg[p].next
           f == pg[q].es[1]
<1>0. E \subseteq Entries /\ x \in Points
  BY EntryPoints DEF Tree, Stored
<1>1. CASE q = 0
  BY <1>1, LeafFacts
<1>2. CASE q # 0
  <2>1. q \in Leaves(pg) /\ Len(pg[q].es) > 0 /\ high[p] = low[q]
    BY <1>2, LeafFacts
  <2> HIDE DEF q
  <2>2. /\ pg[q].es \in Seq(Entries) /\ Ascending(pg[q].es) /\ Upward(low[q]) /\ Upward(high[q])
        /\ \A i \in 1..Len(pg[q].es) : pg[q].es[i] \in E /\ pg[q].es[i] \in low[q] /\ pg[q].es[i] \notin high[q]
        /\ x \in low[q] /\ x \notin high[q] => \E i \in 1..Len(pg[q].es) : pg[q].es[i] = x
    BY <2>1, LeafFacts
  <2>3. 1 \in 1..Len(pg[q].es)
    BY <2>1, <2>2
  <2>4. f \in low[q] /\ f \notin high[q] /\ f \in Points
    BY <1>0, <2>2, <2>3, EntryPoints
  <2>5. ASSUME x \in low[q] PROVE ~EntryLess(x, f)
    <3>1. CASE x \in high[q]
      BY <1>0, <2>2, <2>4, <3>1 DEF Upward
    <3>2. CASE x \notin high[q]
      <4>1. PICK i \in 1..Len(pg[q].es) : pg[q].es[i] = x
        BY <2>2, <2>5, <3>2
      <4>2. EntryLess(x, f) <=> i < 1
        BY <2>2, <2>3, <4>1, AscendingIff
      <4>3. ~(i < 1)
        OBVIOUS
      <4> QED BY <4>2, <4>3
    <3> QED BY <3>1, <3>2
  <2>6. ASSUME ~EntryLess(x, f) PROVE x \in low[q]
    BY <1>0, <2>2, <2>4, <2>6, Order DEF Upward
  <2> QED BY <1>2, <2>1, <2>5, <2>6 DEF q
<1> QED BY <1>1, <1>2

\* next, the next page of the chain: nothing ahead changes.
LEMMA AheadLoad ==
  ASSUME NEW pg, NEW R, NEW E, NEW rank, NEW low, NEW high, Tree(pg, R, E, R, R, rank, low, high),
         NEW s, s.cur = 0, s.next \in Leaves(pg), Len(pg[s.next].es) > 0, s.next # 0,
         NEW t, t.cur = s.next, t.next = pg[s.next].next, t.idx = 0
  PROVE  At(pg, t) /\ Ahead(pg, E, t) = Ahead(pg, E, s)
<1> DEFINE q == s.next
           f == pg[q].es[1]
<1>1. q \in Leaves(pg) /\ Len(pg[q].es) > 0
  OBVIOUS
<1> HIDE DEF q
<1>2. /\ pg[q].es \in Seq(Entries) /\ Ascending(pg[q].es) /\ Upward(low[q]) /\ Upward(high[q])
      /\ \A i \in 1..Len(pg[q].es) : pg[q].es[i] \in E /\ pg[q].es[i] \in low[q] /\ pg[q].es[i] \notin high[q]
      /\ \A x \in E : x \in low[q] /\ x \notin high[q] => \E i \in 1..Len(pg[q].es) : pg[q].es[i] = x
      /\ pg[q].next # 0 => pg[q].next \in Leaves(pg) /\ Len(pg[pg[q].next].es) > 0
  BY <1>1, LeafFacts
<1>3. 1 \in 1..Len(pg[q].es) /\ \A i \in 1..Len(pg[q].es) : i > 0 /\ ~(i < 1)
  BY <1>1, <1>2
<1>4. f \in low[q] /\ f \notin high[q] /\ f \in Points /\ E \subseteq Points
  BY <1>2, <1>3, EntryPoints DEF Tree, Stored
<1>5. At(pg, t)
  BY <1>1, <1>2 DEF At, q
<1>6. ASSUME NEW x \in E
      PROVE  ~EntryLess(x, f) <=> (\E i \in 1..Len(pg[q].es) : pg[q].es[i] = x) \/ x \in high[q]
  <2>1. ASSUME ~EntryLess(x, f) PROVE x \in low[q]
    BY <1>2, <1>4, <2>1, Order DEF Upward
  <2>2. ASSUME x \in high[q] PROVE ~EntryLess(x, f)
    BY <1>2, <1>4, <2>2, Order DEF Upward
  <2>3. ASSUME NEW i \in 1..Len(pg[q].es), pg[q].es[i] = x PROVE ~EntryLess(x, f)
    BY <1>2, <1>3, <2>3, AscendingIff
  <2> QED BY <1>2, <2>1, <2>2, <2>3
<1>7. \A x \in E : x \in high[q] <=> (pg[q].next # 0 /\ ~EntryLess(x, pg[pg[q].next].es[1]))
  BY <1>1, Behind
<1>8. \A x \in E : x \in Ahead(pg, E, s) <=> ~EntryLess(x, f)
  BY DEF Ahead, q
<1>9. \A x \in E : x \in Ahead(pg, E, t) <=> ((\E i \in 1..Len(pg[q].es) : pg[q].es[i] = x) \/ x \in high[q])
  <2>1. t.cur = q /\ t.next = pg[q].next /\ t.idx = 0 /\ q # 0
    BY DEF q
  <2> QED BY <1>3, <1>7, <2>1 DEF Ahead
<1>10. Ahead(pg, E, s) \subseteq E /\ Ahead(pg, E, t) \subseteq E
  BY DEF Ahead
<1> QED BY <1>5, <1>6, <1>8, <1>9, <1>10

\* next, the end of the page.
LEMMA AheadLeave ==
  ASSUME NEW pg, NEW E, NEW s, At(pg, s), s.idx >= Len(pg[s.cur].es), pg \in Files, s.cur \in Leaves(pg), s.idx \in Nat,
         NEW t, t.cur = 0, t.next = s.next
  PROVE  At(pg, t) /\ Ahead(pg, E, t) = Ahead(pg, E, s)
<1>1. Len(pg[s.cur].es) \in Nat
  BY DEF Leaves, Files, Page
<1>2. \A i \in 1..Len(pg[s.cur].es) : ~(i > s.idx)
  BY <1>1
<1> QED BY <1>2 DEF At, Ahead

\* next, an entry: it is the first of those ahead.
LEMMA AheadEntry ==
  ASSUME NEW pg, NEW R, NEW E, NEW rank, NEW low, NEW high, Tree(pg, R, E, R, R, rank, low, high),
         NEW s, At(pg, s), s.cur # 0, s.idx \in Nat, s.idx < Len(pg[s.cur].es), NEW e, e = pg[s.cur].es[s.idx + 1]
  PROVE  /\ e \in Ahead(pg, E, s) /\ e \in Entries /\ \A x \in Ahead(pg, E, s) : x = e \/ EntryLess(e, x)
         /\ \A t : t.cur = s.cur /\ t.next = s.next /\ t.idx = s.idx + 1 =>
                     At(pg, t) /\ Ahead(pg, E, t) = Ahead(pg, E, s) \ {e}
<1> DEFINE p == s.cur
           k == s.idx + 1
<1>1. p \in Leaves(pg) /\ s.next = pg[p].next
  BY DEF At
<1> HIDE DEF p
<1>2. /\ pg[p].es \in Seq(Entries) /\ Ascending(pg[p].es) /\ Upward(high[p])
      /\ \A i \in 1..Len(pg[p].es) : pg[p].es[i] \in E /\ pg[p].es[i] \notin high[p]
  BY <1>1, LeafFacts
<1>3. k \in 1..Len(pg[p].es) /\ \A i \in 1..Len(pg[p].es) : i > s.idx <=> (i = k \/ k < i)
  BY <1>2 DEF p
<1>a. \A i \in 1..Len(pg[p].es) : i > k <=> k < i
  BY <1>2, <1>3
<1> HIDE DEF k
<1>4. e = pg[p].es[k] /\ e \in E /\ e \notin high[p] /\ e \in Points /\ E \subseteq Points /\ E \subseteq Entries
  BY <1>2, <1>3, EntryPoints DEF p, k, Tree, Stored
<1>5. \A x \in E : x \in high[p] <=> (s.next # 0 /\ ~EntryLess(x, pg[s.next].es[1]))
  BY <1>1, Behind
<1>6. \A x \in E : x \in Ahead(pg, E, s) <=> (\E i \in 1..Len(pg[p].es) : (i = k \/ k < i) /\ pg[p].es[i] = x) \/ x \in high[p]
  BY <1>3, <1>5 DEF Ahead, p
<1>7. ASSUME NEW i \in 1..Len(pg[p].es) PROVE EntryLess(e, pg[p].es[i]) <=> k < i
  BY <1>2, <1>3, <1>4, AscendingIff
<1>8. \A x \in E : x \in high[p] => EntryLess(e, x)
  BY <1>2, <1>4, Order DEF Upward
<1>9. \A x \in E : x \in Ahead(pg, E, s) => x = e \/ EntryLess(e, x)
  BY <1>4, <1>6, <1>7, <1>8
<1>10. e \in Ahead(pg, E, s)
  BY <1>3, <1>4, <1>6
<1>11. ASSUME NEW t, t.cur = s.cur, t.next = s.next, t.idx = s.idx + 1
       PROVE  At(pg, t) /\ Ahead(pg, E, t) = Ahead(pg, E, s) \ {e}
  <2>1. At(pg, t)
    BY <1>11 DEF At
  <2>2. \A x \in E : x \in Ahead(pg, E, t) <=> (\E i \in 1..Len(pg[p].es) : k < i /\ pg[p].es[i] = x) \/ x \in high[p]
    BY <1>a, <1>5, <1>11 DEF Ahead, p, k
  <2>3. \A x \in E : (\E i \in 1..Len(pg[p].es) : k < i /\ pg[p].es[i] = x) \/ x \in high[p] => EntryLess(e, x)
    BY <1>7, <1>8
  <2>4. ~EntryLess(e, e)
    BY <1>4, Order
  <2>5. Ahead(pg, E, s) \subseteq E /\ Ahead(pg, E, t) \subseteq E
    BY DEF Ahead
  <2>6. \A x \in E : x \in Ahead(pg, E, t) <=> x \in Ahead(pg, E, s) /\ x # e
    BY <1>4, <1>6, <2>2, <2>3, <2>4
  <2> QED BY <2>1, <2>5, <2>6
<1>12. Ahead(pg, E, s) \subseteq E
  BY DEF Ahead
<1> QED BY <1>4, <1>9, <1>10, <1>11, <1>12

\* The constructor: what is ahead is what is not less than the lower bound.
LEMMA AheadOpen ==
  ASSUME NEW pg, NEW R, NEW E, NEW rank, NEW low, NEW high, Tree(pg, R, E, R, R, rank, low, high),
         NEW lo \in Bounds, NEW hi, NEW s, s = OpenScan(pg, R, lo, hi)
  PROVE  /\ At(pg, s) /\ s.cur \in Leaves(pg) /\ s.next \in Nos /\ s.idx \in Nat /\ s.idx <= Len(pg[s.cur].es)
         /\ s = Scanner(pg, s.cur, s.idx, lo, hi)
         /\ \A x \in E : x \in Ahead(pg, E, s) <=> lo.none \/ ~EntryLess(x, Probe(lo))
<1> DEFINE p == LeafFor(pg, R, lo)
           n == IF lo.none THEN 0 ELSE LeafLowerBound(pg[p].es, Probe(lo))
<1>1. s = Scanner(pg, p, n, lo, hi)
  BY DEF OpenScan
<1>2. s.cur = p /\ s.next = pg[p].next /\ s.idx = n
  BY <1>1 DEF Scanner
<1>3. /\ lo.none => low[p] = Points
      /\ ~lo.none => Probe(lo) \in low[p] /\ Probe(lo) \notin high[p]
  BY LeafForFinds
<1>a. p \in Leaves(pg)
  BY LeafForFinds
<1> HIDE DEF p
<1>4. /\ p \in Nos /\ pg[p].es \in Seq(Entries) /\ Ascending(pg[p].es) /\ pg[p].next \in Nos /\ Upward(low[p]) /\ Upward(high[p])
      /\ \A i \in 1..Len(pg[p].es) : pg[p].es[i] \in E /\ pg[p].es[i] \in low[p] /\ pg[p].es[i] \notin high[p]
      /\ \A x \in E : x \in low[p] /\ x \notin high[p] => \E i \in 1..Len(pg[p].es) : pg[p].es[i] = x
      /\ pg[p].next # 0 => pg[p].next \in Leaves(pg) /\ Len(pg[pg[p].next].es) > 0
  BY <1>a, LeafFacts
<1>5. At(pg, s)
  BY <1>a, <1>2, <1>4 DEF At
<1>6. E \subseteq Points
  BY EntryPoints DEF Tree, Stored
<1>7. \A x \in E : x \in high[p] <=> (pg[p].next # 0 /\ ~EntryLess(x, pg[pg[p].next].es[1]))
  BY <1>a, Behind
<1>8. p # 0
  <2>1. pg[0].type = "header" /\ pg[p].type = "leaf"
    BY <1>a DEF Tree, Linked, Header, Leaves
  <2> QED BY <2>1
<1>9. \A x \in E : x \in Ahead(pg, E, s) <=> (\E i \in 1..Len(pg[p].es) : i > n /\ pg[p].es[i] = x) \/ x \in high[p]
  <2> HIDE DEF n
  <2> QED BY <1>2, <1>7, <1>8 DEF Ahead
<1>10. CASE lo.none
  <2>1. n = 0
    BY <1>10
  <2>2. Len(pg[p].es) \in Nat /\ \A i \in 1..Len(pg[p].es) : i > 0
    BY <1>4
  <2>3. \A x \in E : (\E i \in 1..Len(pg[p].es) : pg[p].es[i] = x) \/ x \in high[p]
    BY <1>3, <1>4, <1>6, <1>10
  <2>4. \A x \in E : x \in Ahead(pg, E, s)
    <3> HIDE DEF n
    <3> QED BY <1>9, <2>1, <2>2, <2>3
  <2>5. s.idx \in Nat /\ s.idx <= Len(pg[s.cur].es)
    BY <1>2, <2>1, <2>2
  <2> QED BY <1>a, <1>1, <1>2, <1>4, <1>5, <1>10, <2>4, <2>5
<1>11. CASE ~lo.none
  <2>1. n = LeafLowerBound(pg[p].es, Probe(lo)) /\ Probe(lo) \in Points /\ Probe(lo) \in low[p] /\ Probe(lo) \notin high[p]
    BY <1>3, <1>11, ProbePoint
  <2>2. n \in 0..Len(pg[p].es) /\ \A i \in 1..Len(pg[p].es) : EntryLess(pg[p].es[i], Probe(lo)) <=> i <= n
    BY <1>4, <2>1, LowerBound
  <2> HIDE DEF n
  <2>3. n \in Nat /\ n <= Len(pg[p].es) /\ \A i \in 1..Len(pg[p].es) : i > n <=> ~(i <= n)
    BY <1>4, <2>2
  <2>4. ASSUME NEW x \in E
        PROVE  (\E i \in 1..Len(pg[p].es) : i > n /\ pg[p].es[i] = x) \/ x \in high[p] <=> ~EntryLess(x, Probe(lo))
    <3>1. x \in high[p] => ~EntryLess(x, Probe(lo))
      BY <1>4, <1>6, <2>1 DEF Upward
    <3>2. ~EntryLess(x, Probe(lo)) => x \in low[p]
      BY <1>4, <1>6, <2>1, Order DEF Upward
    <3>3. \A i \in 1..Len(pg[p].es) : pg[p].es[i] = x => (i > n <=> ~EntryLess(x, Probe(lo)))
      BY <2>2, <2>3
    <3> QED BY <1>4, <3>1, <3>2, <3>3
  <2>5. \A x \in E : x \in Ahead(pg, E, s) <=> ~EntryLess(x, Probe(lo))
    BY <1>9, <2>4
  <2> QED BY <1>a, <1>1, <1>2, <1>4, <1>5, <1>11, <2>3, <2>5
<1>12. lo.none \in BOOLEAN
  BY ProbePoint
<1> QED BY <1>10, <1>11, <1>12

\* An insertion without a split moves entries of one leaf up by at most one place.
LEMMA Shifted ==
  ASSUME NEW pg, Local(pg), NEW q \in Leaves(pg), NEW e \in Entries, NEW pg2, pg2 = WithEntry(pg, q, e)
  PROVE  \A p \in Nos :
           /\ pg2[p].type = pg[p].type /\ pg2[p].next = pg[p].next
           /\ Len(pg[p].es) \in Nat /\ Len(pg2[p].es) \in Nat /\ Len(pg2[p].es) >= Len(pg[p].es)
           /\ \A i \in 1..Len(pg[p].es) : \E j \in 1..Len(pg2[p].es) : j >= i /\ pg2[p].es[j] = pg[p].es[i]
           /\ Len(pg[p].es) > 0 => pg2[p].es[1] = pg[p].es[1] \/ EntryLess(pg2[p].es[1], pg[p].es[1])
<1> DEFINE s == pg[q].es
           k == LeafLowerBound(s, e)
           es == InsertAt(s, k + 1, e)
<1>1. pg \in Files /\ q \in Nos /\ q \in TreePages(pg) /\ s \in Seq(Entries) /\ Ascending(s) /\ e \in Points
  BY Kinds, EntryPoints DEF Local, Leaves, Files, Page
<1>2. k \in 0..Len(s) /\ \A i \in 1..Len(s) : EntryLess(s[i], e) <=> i <= k
  BY <1>1, LowerBound
<1>3. pg2 = [pg EXCEPT ![q].es = es]
  BY DEF WithEntry
<1> HIDE DEF k
<1>4. k + 1 \in 1..(Len(s) + 1) /\ Len(s) \in Nat
  BY <1>1, <1>2
<1>5. /\ es \in Seq(Entries) /\ Len(es) = Len(s) + 1
      /\ \A i \in 1..(Len(s) + 1) : es[i] = IF i < k + 1 THEN s[i] ELSE IF i = k + 1 THEN e ELSE s[i - 1]
  <2>1. es = InsertAt(s, k + 1, e)
    OBVIOUS
  <2> HIDE DEF s, es
  <2>2. s \in Seq(Entries)
    BY <1>1 DEF s
  <2> DEFINE i1 == k + 1
  <2>3. i1 \in 1..(Len(s) + 1) /\ es = InsertAt(s, i1, e)
    BY <1>4, <2>1
  <2> HIDE DEF i1
  <2>4. /\ es \in Seq(Entries) /\ Len(es) = Len(s) + 1
        /\ \A i \in 1..(Len(s) + 1) : es[i] = IF i < i1 THEN s[i] ELSE IF i = i1 THEN e ELSE s[i - 1]
    BY <2>2, <2>3, Inserted, SMTT(30)
  <2> QED BY <2>4 DEF i1
<1> HIDE DEF s, es
<1>6. ASSUME NEW i \in 1..Len(s) PROVE \E j \in 1..Len(es) : j >= i /\ es[j] = s[i]
  <2>1. CASE i <= k
    <3>1. i \in 1..(Len(s) + 1) /\ i < k + 1 /\ i >= i /\ i \in 1..Len(es)
      BY <1>2, <1>4, <1>5, <2>1
    <3>2. es[i] = s[i]
      BY <1>5, <3>1
    <3> QED BY <3>1, <3>2
  <2>2. CASE ~(i <= k)
    <3>1. i + 1 \in 1..(Len(s) + 1) /\ ~(i + 1 < k + 1) /\ i + 1 # k + 1 /\ i + 1 >= i /\ i + 1 \in 1..Len(es) /\ (i + 1) - 1 = i
      BY <1>2, <1>4, <1>5, <2>2
    <3>2. es[i + 1] = s[i]
      BY <1>5, <3>1
    <3> QED BY <3>1, <3>2
  <2> QED BY <2>1, <2>2
<1>7. ASSUME Len(s) > 0 PROVE es[1] = s[1] \/ EntryLess(es[1], s[1])
  <2>0. 1 \in 1..Len(s) /\ 1 \in 1..(Len(s) + 1) /\ s[1] \in Points
    <3>1. 1 \in 1..Len(s) /\ 1 \in 1..(Len(s) + 1)
      BY <1>4, <1>7
    <3> QED BY <1>1, <3>1, EntryPoints
  <2>1. CASE k = 0
    <3>1. ~(1 < k + 1) /\ 1 = k + 1 /\ ~(1 <= k)
      BY <2>1
    <3>2. es[1] = e /\ ~EntryLess(s[1], e)
      BY <1>2, <1>5, <2>0, <3>1
    <3> QED BY <1>1, <2>0, <3>2, Order
  <2>2. CASE k # 0
    <3>1. 1 < k + 1
      BY <1>2, <1>4, <2>2
    <3> QED BY <1>5, <2>0, <3>1
  <2> QED BY <2>1, <2>2
<1>8. pg2[q] = [pg[q] EXCEPT !.es = es] /\ \A p \in Nos : p # q => pg2[p] = pg[p]
  BY <1>1, <1>3 DEF Files
<1>9. pg2[q].es = es /\ pg2[q].type = pg[q].type /\ pg2[q].next = pg[q].next
  BY <1>1, <1>8 DEF Files, Page
<1> TAKE p \in Nos
<1>10. CASE p = q
  <2>1. Len(es) \in Nat /\ Len(es) >= Len(s)
    BY <1>4, <1>5
  <2> QED BY <1>4, <1>6, <1>7, <1>9, <1>10, <2>1 DEF s
<1>11. CASE p # q
  <2>1. pg2[p] = pg[p] /\ pg[p].es \in Seq(Entries)
    BY <1>1, <1>8, <1>11 DEF Files, Page
  <2>2. Len(pg[p].es) \in Nat /\ Len(pg[p].es) >= Len(pg[p].es) /\ \A i \in 1..Len(pg[p].es) : i >= i
    BY <2>1
  <2> QED BY <2>1, <2>2
<1> QED BY <1>10, <1>11

\* Such an insertion hides nothing from a scanner.
LEMMA AheadKept ==
  ASSUME NEW pg, Local(pg), NEW E, E \subseteq Points, NEW q \in Leaves(pg), NEW e \in Entries,
         NEW pg2, pg2 = WithEntry(pg, q, e), NEW s, At(pg, s), s.cur \in Nos, s.next \in Nos, s.idx \in Nat,
         pg2 \in Files
  PROVE  At(pg2, s) /\ Ahead(pg, E, s) \subseteq Ahead(pg2, E \cup {e}, s)
<1>1. ASSUME NEW p \in Nos
      PROVE  /\ pg2[p].type = pg[p].type /\ pg2[p].next = pg[p].next
             /\ Len(pg[p].es) \in Nat /\ Len(pg2[p].es) \in Nat /\ Len(pg2[p].es) >= Len(pg[p].es)
             /\ \A i \in 1..Len(pg[p].es) : \E j \in 1..Len(pg2[p].es) : j >= i /\ pg2[p].es[j] = pg[p].es[i]
             /\ Len(pg[p].es) > 0 => pg2[p].es[1] = pg[p].es[1] \/ EntryLess(pg2[p].es[1], pg[p].es[1])
  BY Shifted
<1>2. Leaves(pg2) = Leaves(pg)
  BY <1>1 DEF Leaves
<1>3. At(pg2, s)
  <2>1. s.next # 0 => Len(pg2[s.next].es) > 0
    BY <1>1 DEF At
  <2>2. pg2[s.cur].next = pg[s.cur].next
    BY <1>1
  <2> QED BY <1>2, <2>1, <2>2 DEF At
<1>4. ASSUME NEW x \in Ahead(pg, E, s) PROVE x \in Ahead(pg2, E \cup {e}, s)
  <2>1. x \in E /\ x \in Points
    BY DEF Ahead
  <2>2. CASE s.cur # 0 /\ \E i \in 1..Len(pg[s.cur].es) : i > s.idx /\ pg[s.cur].es[i] = x
    <3>1. PICK i \in 1..Len(pg[s.cur].es) : i > s.idx /\ pg[s.cur].es[i] = x
      BY <2>2
    <3>2. PICK j \in 1..Len(pg2[s.cur].es) : j >= i /\ pg2[s.cur].es[j] = pg[s.cur].es[i]
      BY <1>1
    <3>3. j > s.idx
      BY <3>1, <3>2
    <3> QED BY <2>1, <2>2, <3>1, <3>2, <3>3 DEF Ahead
  <2>3. CASE s.next # 0 /\ ~EntryLess(x, pg[s.next].es[1])
    <3> DEFINE f == pg[s.next].es[1]
               g == pg2[s.next].es[1]
    <3>1. Len(pg[s.next].es) > 0 /\ Len(pg2[s.next].es) > 0
      BY <2>3, <1>1, <1>3 DEF At
    <3>2. g = f \/ EntryLess(g, f)
      BY <1>1, <3>1
    <3>3. f \in Points /\ g \in Points
      <4>1. pg[s.next].es \in Seq(Entries) /\ pg2[s.next].es \in Seq(Entries)
        BY DEF Local, Files, Page
      <4> QED BY <3>1, <4>1, EntryPoints
    <3> HIDE DEF f, g
    <3>4. ~EntryLess(x, g)
      BY <2>1, <2>3, <3>2, <3>3, Order DEF f
    <3> QED BY <2>1, <2>3, <3>4 DEF Ahead, g
  <2> QED BY <2>2, <2>3 DEF Ahead
<1> QED BY <1>3, <1>4

Scanners ==
  [open : {TRUE}, cur : Nos, next : Nos, idx : Nat, lo : Bounds, hi : Bounds, out : Seq(Entries),
   done : BOOLEAN, dead : BOOLEAN, lo0 : Bounds, expected : SUBSET Entries, moved : BOOLEAN]

\* A turn of next is a scanner with the same bounds and promises.
LEMMA TurnTyped ==
  ASSUME NEW pg \in Files, NEW s \in Scanners, NEW t, t = ScanStep(pg, s)
  PROVE  /\ t \in Scanners /\ t.hi = s.hi /\ t.lo0 = s.lo0 /\ t.expected = s.expected /\ t.moved = s.moved
         /\ t.lo \in {s.lo, NoBound}
         /\ t.out = s.out \/ \E e \in Entries : ~Beyond(e, s.hi) /\ t.out = Append(s.out, e)
<1>0. NoBound \in Bounds
  BY DEF Bounds
<1>1. CASE t = s
  BY <1>1 DEF Scanners
<1>2. CASE t = [s EXCEPT !.done = TRUE]
  BY <1>2 DEF Scanners
<1>3. CASE t = [s EXCEPT !.dead = TRUE]
  BY <1>3 DEF Scanners
<1>4. CASE t = [s EXCEPT !.cur = s.next, !.next = pg[s.next].next, !.idx = 0]
  <2> DEFINE n == s.next
             m == pg[s.next].next
             z == 0
  <2>1. n \in Nos /\ m \in Nos /\ z \in Nat
    BY DEF Scanners, Files, Page
  <2>2. t = [s EXCEPT !.cur = n, !.next = m, !.idx = z]
    BY <1>4
  <2> HIDE DEF n, m, z
  <2>3. t \in Scanners
    BY <2>1, <2>2 DEF Scanners
  <2>4. t.hi = s.hi /\ t.lo0 = s.lo0 /\ t.expected = s.expected /\ t.moved = s.moved /\ t.lo = s.lo /\ t.out = s.out
    BY <2>2 DEF Scanners
  <2> QED BY <2>3, <2>4
<1>5. CASE t = [s EXCEPT !.cur = 0]
  <2>1. 0 \in Nos
    BY ConstantsOK DEF Nos
  <2> QED BY <1>5, <2>1 DEF Scanners
<1>6. CASE t = [s EXCEPT !.idx = @ + 1]
  <2> DEFINE k == s.idx + 1
  <2>1. k \in Nat /\ t = [s EXCEPT !.idx = k]
    BY <1>6 DEF Scanners
  <2> HIDE DEF k
  <2>2. t \in Scanners
    BY <2>1 DEF Scanners
  <2>3. t.hi = s.hi /\ t.lo0 = s.lo0 /\ t.expected = s.expected /\ t.moved = s.moved /\ t.lo = s.lo /\ t.out = s.out
    BY <2>1 DEF Scanners
  <2> QED BY <2>2, <2>3
<1>7. ASSUME NEW e, NEW b \in {s.lo, NoBound}, e \in Entries, ~Beyond(e, s.hi),
             t = [s EXCEPT !.idx = s.idx + 1, !.out = Append(s.out, e), !.lo = b]
      PROVE  /\ t \in Scanners /\ t.hi = s.hi /\ t.lo0 = s.lo0 /\ t.expected = s.expected /\ t.moved = s.moved
             /\ t.lo \in {s.lo, NoBound}
             /\ t.out = s.out \/ \E x \in Entries : ~Beyond(x, s.hi) /\ t.out = Append(s.out, x)
  <2>1. b \in Bounds /\ Append(s.out, e) \in Seq(Entries) /\ s.idx + 1 \in Nat
    BY <1>0, <1>7 DEF Scanners
  <2>2. /\ t.hi = s.hi /\ t.lo0 = s.lo0 /\ t.expected = s.expected /\ t.moved = s.moved /\ t.lo = b /\ t.out = Append(s.out, e)
        /\ t \in Scanners
    BY <1>7, <2>1 DEF Scanners
  <2> QED BY <1>7, <2>2
<1>8. CASE ~s.done /\ ~s.dead /\ s.cur # 0 /\ ~(s.idx >= Len(pg[s.cur].es))
  <2> DEFINE e == pg[s.cur].es[s.idx + 1]
  <2>1. e \in Entries
    <3>1. s.cur \in Nos /\ s.idx \in Nat /\ pg[s.cur].es \in Seq(Entries)
      BY DEF Scanners, Files, Page
    <3>2. s.idx + 1 \in 1..Len(pg[s.cur].es)
      BY <1>8, <3>1
    <3> QED BY <3>1, <3>2
  <2>2. t = IF Beyond(e, s.hi) THEN [s EXCEPT !.done = TRUE]
            ELSE IF ~s.lo.none /\ ~s.lo.incl /\ e.key = s.lo.key THEN [s EXCEPT !.idx = @ + 1]
            ELSE [s EXCEPT !.idx = @ + 1, !.out = Append(@, e), !.lo = IF ~@.none /\ ~@.incl THEN NoBound ELSE @]
    BY <1>8 DEF ScanStep
  <2> HIDE DEF e
  <2>3. CASE Beyond(e, s.hi)
    BY <1>2, <2>2, <2>3
  <2>4. CASE ~Beyond(e, s.hi) /\ ~s.lo.none /\ ~s.lo.incl /\ e.key = s.lo.key
    BY <1>6, <2>2, <2>4
  <2>5. CASE ~Beyond(e, s.hi) /\ ~(~s.lo.none /\ ~s.lo.incl /\ e.key = s.lo.key)
    <3> DEFINE b == IF ~s.lo.none /\ ~s.lo.incl THEN NoBound ELSE s.lo
    <3>1. b \in {s.lo, NoBound}
      OBVIOUS
    <3>2. t = [s EXCEPT !.idx = s.idx + 1, !.out = Append(s.out, e), !.lo = b]
      BY <2>2, <2>5
    <3> HIDE DEF b
    <3> QED BY <1>7, <2>1, <2>5, <3>1, <3>2
  <2> QED BY <2>3, <2>4, <2>5
<1> QED BY <1>1, <1>2, <1>3, <1>4, <1>5, <1>8 DEF ScanStep

\* A turn of next on a tree: the end of the chain, a step on it, or the first
\* of the entries ahead, which is beyond the upper bound, skipped or returned.
LEMMA TurnAhead ==
  ASSUME NEW pg, NEW R, NEW E, NEW rank, NEW low, NEW high, Tree(pg, R, E, R, R, rank, low, high),
         NEW s \in Scanners, ~s.done, ~s.dead, At(pg, s), NEW t, t = ScanStep(pg, s)
  PROVE  /\ ~t.dead
         /\ \/ t.done /\ t.out = s.out /\ t.lo = s.lo /\ Ahead(pg, E, s) = {}
            \/ ~t.done /\ t.out = s.out /\ t.lo = s.lo /\ At(pg, t) /\ Ahead(pg, E, t) = Ahead(pg, E, s)
            \/ \E e \in Ahead(pg, E, s) :
                 /\ e \in Entries /\ \A x \in Ahead(pg, E, s) : x = e \/ EntryLess(e, x)
                 /\ \/ Beyond(e, s.hi) /\ t.done /\ t.out = s.out /\ t.lo = s.lo
                    \/ /\ ~Beyond(e, s.hi) /\ ~t.done /\ At(pg, t) /\ Ahead(pg, E, t) = Ahead(pg, E, s) \ {e}
                       /\ IF ~s.lo.none /\ ~s.lo.incl /\ e.key = s.lo.key
                          THEN t.out = s.out /\ t.lo = s.lo
                          ELSE t.out = Append(s.out, e) /\ t.lo = IF ~s.lo.none /\ ~s.lo.incl THEN NoBound ELSE s.lo
<1>0. pg \in Files /\ s.idx \in Nat
  BY DEF Tree, Local, Scanners
<1>1. CASE s.cur = 0 /\ s.next = 0
  <2>1. t = [s EXCEPT !.done = TRUE]
    BY <1>1 DEF ScanStep
  <2>2. t.done /\ t.out = s.out /\ t.lo = s.lo /\ t.dead = s.dead
    BY <2>1 DEF Scanners
  <2>3. Ahead(pg, E, s) = {}
    BY <1>1 DEF Ahead
  <2> QED BY <2>2, <2>3
<1>2. CASE s.cur = 0 /\ s.next # 0
  <2>1. s.next \in Leaves(pg) /\ Len(pg[s.next].es) > 0 /\ pg[s.next].type = "leaf"
    BY <1>2 DEF At, Leaves
  <2>2. t = [s EXCEPT !.cur = s.next, !.next = pg[s.next].next, !.idx = 0]
    BY <1>2, <2>1 DEF ScanStep
  <2>3. /\ t.done = s.done /\ t.out = s.out /\ t.lo = s.lo /\ t.dead = s.dead
        /\ t.cur = s.next /\ t.next = pg[s.next].next /\ t.idx = 0
    BY <2>2 DEF Scanners
  <2>4. At(pg, t) /\ Ahead(pg, E, t) = Ahead(pg, E, s)
    BY <1>2, <2>1, <2>3, AheadLoad
  <2> QED BY <2>3, <2>4
<1>3. CASE s.cur # 0 /\ s.idx >= Len(pg[s.cur].es)
  <2>1. t = [s EXCEPT !.cur = 0]
    BY <1>3 DEF ScanStep
  <2>2. t.done = s.done /\ t.out = s.out /\ t.lo = s.lo /\ t.dead = s.dead /\ t.cur = 0 /\ t.next = s.next
    BY <2>1 DEF Scanners
  <2>3. s.cur \in Leaves(pg)
    BY <1>3 DEF At
  <2>4. At(pg, t) /\ Ahead(pg, E, t) = Ahead(pg, E, s)
    BY <1>0, <1>3, <2>2, <2>3, AheadLeave
  <2> QED BY <2>2, <2>4
<1>4. CASE s.cur # 0 /\ ~(s.idx >= Len(pg[s.cur].es))
  <2> DEFINE e == pg[s.cur].es[s.idx + 1]
             b == IF ~s.lo.none /\ ~s.lo.incl THEN NoBound ELSE s.lo
  <2>1. t = IF Beyond(e, s.hi) THEN [s EXCEPT !.done = TRUE]
            ELSE IF ~s.lo.none /\ ~s.lo.incl /\ e.key = s.lo.key THEN [s EXCEPT !.idx = s.idx + 1]
            ELSE [s EXCEPT !.idx = s.idx + 1, !.out = Append(s.out, e), !.lo = b]
    BY <1>4 DEF ScanStep
  <2>2. s.idx < Len(pg[s.cur].es)
    <3>1. s.cur \in Nos /\ pg[s.cur].es \in Seq(Entries)
      BY <1>0 DEF Scanners, Files, Page
    <3> QED BY <1>0, <1>4, <3>1
  <2>3. /\ e \in Ahead(pg, E, s) /\ e \in Entries /\ \A x \in Ahead(pg, E, s) : x = e \/ EntryLess(e, x)
        /\ t.cur = s.cur /\ t.next = s.next /\ t.idx = s.idx + 1 => At(pg, t) /\ Ahead(pg, E, t) = Ahead(pg, E, s) \ {e}
    BY <1>0, <1>4, <2>2, AheadEntry
  <2> HIDE DEF e, b
  <2>4. CASE Beyond(e, s.hi)
    <3>1. t.done /\ t.out = s.out /\ t.lo = s.lo /\ t.dead = s.dead
      BY <2>1, <2>4 DEF Scanners
    <3> QED BY <2>3, <2>4, <3>1
  <2>5. CASE ~Beyond(e, s.hi) /\ (~s.lo.none /\ ~s.lo.incl /\ e.key = s.lo.key)
    <3>1. /\ t.done = s.done /\ t.out = s.out /\ t.lo = s.lo /\ t.dead = s.dead
          /\ t.cur = s.cur /\ t.next = s.next /\ t.idx = s.idx + 1
      BY <2>1, <2>5 DEF Scanners
    <3> QED BY <2>3, <2>5, <3>1
  <2>6. CASE ~Beyond(e, s.hi) /\ ~(~s.lo.none /\ ~s.lo.incl /\ e.key = s.lo.key)
    <3>1. /\ t.done = s.done /\ t.out = Append(s.out, e) /\ t.lo = b /\ t.dead = s.dead
          /\ t.cur = s.cur /\ t.next = s.next /\ t.idx = s.idx + 1
      BY <2>1, <2>6 DEF Scanners
    <3> QED BY <2>3, <2>6, <3>1 DEF b
  <2> QED BY <2>4, <2>5, <2>6
<1> QED BY <1>1, <1>2, <1>3, <1>4

\* An entry that is not beyond the upper bound is within it; after one that is,
\* nothing is.
LEMMA UpperBound ==
  ASSUME NEW hi \in Bounds, NEW e \in Points
  PROVE  /\ ~Beyond(e, hi) <=> InRange(e, NoBound, hi)
         /\ \A lo : \A x \in Points : Beyond(e, hi) /\ (x = e \/ EntryLess(e, x)) => ~InRange(x, lo, hi)
<1>1. hi.none \in BOOLEAN /\ (~hi.none => hi.key \in Keys /\ hi.incl \in BOOLEAN) /\ e.key \in Keys
  BY ProbePoint DEF Points
<1>2. NoBound.none
  BY DEF NoBound
<1>3. ~Beyond(e, hi) <=> InRange(e, NoBound, hi)
  BY <1>1, <1>2, KeyOrder DEF Beyond, InRange
<1>4. ASSUME NEW x \in Points, NEW lo, Beyond(e, hi), x = e \/ EntryLess(e, x), InRange(x, lo, hi) PROVE FALSE
  <2>1. x.key = e.key \/ KeyLess(e.key, x.key)
    BY <1>4 DEF EntryLess
  <2>2. x.key \in Keys /\ hi.key \in Keys /\ ~hi.none
    BY <1>1, <1>4 DEF Points, Beyond
  <2>3. KeyLess(x.key, hi.key) \/ (hi.incl /\ x.key = hi.key)
    BY <1>4, <2>2 DEF InRange
  <2>4. IF hi.incl THEN KeyLess(hi.key, e.key) ELSE ~KeyLess(e.key, hi.key)
    BY <1>4 DEF Beyond
  <2> QED BY <1>1, <2>1, <2>2, <2>3, <2>4, KeyOrder
<1> QED BY <1>3, <1>4

\* Range(s) with an element more.
LEMMA Appended ==
  ASSUME NEW S, NEW s \in Seq(S), NEW e \in S
  PROVE  Range(Append(s, e)) = Range(s) \cup {e}
<1>1. /\ Len(Append(s, e)) = Len(s) + 1 /\ Append(s, e)[Len(s) + 1] = e /\ Append(s, e) \in Seq(S)
      /\ \A i \in 1..Len(s) : Append(s, e)[i] = s[i]
  OBVIOUS
<1>2. Len(s) \in Nat /\ \A i \in 1..(Len(s) + 1) : i \in 1..Len(s) \/ i = Len(s) + 1
  OBVIOUS
<1>3. Len(s) + 1 \in 1..(Len(s) + 1) /\ \A i \in 1..Len(s) : i \in 1..(Len(s) + 1)
  BY <1>2
<1>4. Range(s) = {s[i] : i \in 1..Len(s)}
  BY DEF Range
<1>5. Range(Append(s, e)) = {Append(s, e)[i] : i \in 1..(Len(s) + 1)}
  BY <1>1 DEF Range
<1>6. \A z \in Range(Append(s, e)) : z \in Range(s) \cup {e}
  BY <1>1, <1>2, <1>4, <1>5
<1>7. \A z \in Range(s) : z \in Range(Append(s, e))
  BY <1>1, <1>3, <1>4, <1>5
<1>8. e \in Range(Append(s, e))
  BY <1>1, <1>3, <1>5
<1> QED BY <1>6, <1>7, <1>8

\* What an open cursor has returned lies below its upper bound; what it promised
\* and has not returned is ahead of it, unless entries were moved.
Promises(s) ==
  /\ s \in Scanners /\ ~s.dead /\ s.lo \in {s.lo0, NoBound}
  /\ \A e \in Range(s.out) : InRange(e, NoBound, s.hi)
  /\ \A e \in s.expected : InRange(e, s.lo0, s.hi)

Keeps(pg, E, s) ==
  /\ s.done => s.expected \subseteq Range(s.out)
  /\ ~s.done => At(pg, s) /\ s.expected \subseteq Range(s.out) \cup Ahead(pg, E, s)

CursorInv == scan = NoScan \/ (Promises(scan) /\ (~scan.moved => Keeps(pages, entries, scan)))

\* A turn of next, entries moved or not.
LEMMA TurnPromises ==
  ASSUME NEW pg \in Files, NEW s, Promises(s), NEW t, t = ScanStep(pg, s), ~t.dead
  PROVE  Promises(t) /\ t.moved = s.moved
<1>1. /\ t \in Scanners /\ t.hi = s.hi /\ t.lo0 = s.lo0 /\ t.expected = s.expected /\ t.moved = s.moved
      /\ t.lo \in {s.lo, NoBound}
      /\ t.out = s.out \/ \E e \in Entries : ~Beyond(e, s.hi) /\ t.out = Append(s.out, e)
  BY TurnTyped DEF Promises
<1>2. s.hi \in Bounds /\ s.out \in Seq(Entries)
  BY DEF Promises, Scanners
<1>3. \A e \in Range(t.out) : InRange(e, NoBound, s.hi)
  <2>1. CASE t.out = s.out
    BY <2>1 DEF Promises
  <2>2. ASSUME NEW e \in Entries, ~Beyond(e, s.hi), t.out = Append(s.out, e)
        PROVE  \A x \in Range(t.out) : InRange(x, NoBound, s.hi)
    <3>1. Range(t.out) = Range(s.out) \cup {e}
      BY <1>2, <2>2, Appended
    <3>2. InRange(e, NoBound, s.hi)
      BY <1>2, <2>2, UpperBound, EntryPoints
    <3> QED BY <3>1, <3>2 DEF Promises
  <2> QED BY <1>1, <2>1, <2>2
<1> QED BY <1>1, <1>3 DEF Promises

\* A turn of next on a tree returns what was promised or keeps it ahead.
LEMMA TurnKeeps ==
  ASSUME NEW pg, NEW E, TreeOf(pg, E), NEW s, Promises(s), ~s.done, Keeps(pg, E, s), NEW t, t = ScanStep(pg, s)
  PROVE  Keeps(pg, E, t)
<1> DEFINE R == RootOf(pg)
<1>1. PICK rank, low, high : Tree(pg, R, E, R, R, rank, low, high)
  BY DEF TreeOf
<1> HIDE DEF R
<1>2. s \in Scanners /\ ~s.dead /\ At(pg, s) /\ pg \in Files /\ E \subseteq Points
  BY <1>1, EntryPoints DEF Promises, Keeps, Tree, Local, Stored
<1>3. /\ t.expected = s.expected /\ s.expected \subseteq Points /\ s.hi \in Bounds /\ s.lo0 \in Bounds /\ s.out \in Seq(Entries)
      /\ s.expected \subseteq Range(s.out) \cup Ahead(pg, E, s)
      /\ \A x \in s.expected : InRange(x, s.lo0, s.hi)
  BY <1>2, TurnTyped, EntryPoints DEF Promises, Keeps, Scanners
<1>4. CASE t.done /\ t.out = s.out /\ t.lo = s.lo /\ Ahead(pg, E, s) = {}
  BY <1>3, <1>4 DEF Keeps
<1>5. CASE ~t.done /\ t.out = s.out /\ t.lo = s.lo /\ At(pg, t) /\ Ahead(pg, E, t) = Ahead(pg, E, s)
  BY <1>3, <1>5 DEF Keeps
<1>6. ASSUME NEW e \in Ahead(pg, E, s), e \in Entries, \A x \in Ahead(pg, E, s) : x = e \/ EntryLess(e, x),
             Beyond(e, s.hi) /\ t.done /\ t.out = s.out /\ t.lo = s.lo
      PROVE  Keeps(pg, E, t)
  <2>1. \A x \in s.expected : x \notin Ahead(pg, E, s)
    BY <1>3, <1>6, UpperBound, EntryPoints
  <2> QED BY <1>3, <1>6, <2>1 DEF Keeps
<1>7. ASSUME NEW e \in Ahead(pg, E, s), e \in Entries,
             ~t.done /\ At(pg, t) /\ Ahead(pg, E, t) = Ahead(pg, E, s) \ {e},
             IF ~s.lo.none /\ ~s.lo.incl /\ e.key = s.lo.key THEN t.out = s.out ELSE t.out = Append(s.out, e)
      PROVE  Keeps(pg, E, t)
  <2>1. CASE ~s.lo.none /\ ~s.lo.incl /\ e.key = s.lo.key
    <3>1. s.lo = s.lo0
      BY <2>1 DEF Promises, NoBound
    <3>2. e \notin s.expected
      <4>1. e.key \in Keys
        BY <1>7 DEF Entries
      <4> QED BY <1>3, <2>1, <3>1, <4>1, KeyOrder DEF InRange
    <3> QED BY <1>3, <1>7, <2>1, <3>2 DEF Keeps
  <2>2. CASE ~(~s.lo.none /\ ~s.lo.incl /\ e.key = s.lo.key)
    <3>1. t.out = Append(s.out, e)
      BY <1>7, <2>2
    <3>2. Range(t.out) = Range(s.out) \cup {e}
      BY <1>3, <1>7, <3>1, Appended
    <3> QED BY <1>3, <1>7, <3>2 DEF Keeps
  <2> QED BY <2>1, <2>2
<1> QED BY <1>1, <1>2, <1>4, <1>5, <1>6, <1>7, TurnAhead

\* BTreeScanner's constructor.
LEMMA OpenPromises ==
  ASSUME NEW pg, NEW E, TreeOf(pg, E), E = entries, NEW lo \in Bounds, NEW hi \in Bounds,
         NEW s, s = OpenScan(pg, RootOf(pg), lo, hi)
  PROVE  Promises(s) /\ Keeps(pg, E, s)
<1> DEFINE R == RootOf(pg)
<1>1. PICK rank, low, high : Tree(pg, R, E, R, R, rank, low, high)
  BY DEF TreeOf
<1>0. s = OpenScan(pg, R, lo, hi)
  OBVIOUS
<1> HIDE DEF R
<1>2. /\ At(pg, s) /\ s.cur \in Leaves(pg) /\ s.next \in Nos /\ s.idx \in Nat
      /\ s = Scanner(pg, s.cur, s.idx, lo, hi)
      /\ \A x \in E : x \in Ahead(pg, E, s) <=> lo.none \/ ~EntryLess(x, Probe(lo))
  BY <1>0, <1>1, AheadOpen
<1>3. /\ s.lo = lo /\ s.hi = hi /\ s.out = <<>> /\ s.done = FALSE /\ s.dead = FALSE /\ s.lo0 = lo
      /\ s.expected = {x \in E : InRange(x, lo, hi)} /\ s.moved = FALSE
  BY <1>2 DEF Scanner
<1>4. E \subseteq Entries /\ s.cur \in Nos
  BY <1>1, <1>2 DEF Tree, Stored, Leaves
<1>5. s \in Scanners
  <2> DEFINE X == {x \in E : InRange(x, lo, hi)}
             c == s.cur
             n == pg[c].next
             k == s.idx
  <2>1. /\ s = [open |-> TRUE, cur |-> c, next |-> n, idx |-> k, lo |-> lo, hi |-> hi, out |-> <<>>, done |-> FALSE,
                dead |-> FALSE, lo0 |-> lo, expected |-> X, moved |-> FALSE]
        /\ X \in SUBSET Entries /\ c \in Nos /\ k \in Nat /\ n = s.next /\ n \in Nos
    BY <1>2, <1>4 DEF Scanner
  <2>2. <<>> \in Seq(Entries)
    OBVIOUS
  <2> HIDE DEF X, c, n, k
  <2> QED BY <2>1, <2>2 DEF Scanners
<1>6. Range(s.out) = {}
  BY <1>3 DEF Range
<1>7. Promises(s)
  BY <1>3, <1>5, <1>6 DEF Promises
<1>8. ASSUME NEW x \in E, InRange(x, lo, hi) PROVE lo.none \/ ~EntryLess(x, Probe(lo))
  <2> SUFFICES ASSUME ~lo.none PROVE ~EntryLess(x, Probe(lo))
    OBVIOUS
  <2>1. lo.key \in Keys /\ Probe(lo).key = lo.key /\ x.key \in Keys /\ x.ref \in Nat
    BY <1>4, ProbePoint, EntryPoints DEF Points
  <2>2. Probe(lo).ref = 0 /\ ~(x.ref < 0)
    BY <2>1 DEF Probe
  <2>3. KeyLess(lo.key, x.key) \/ x.key = lo.key
    BY <1>8 DEF InRange
  <2>4. ~KeyLess(x.key, lo.key)
    BY <2>1, <2>3, KeyOrder
  <2> QED BY <2>1, <2>2, <2>4 DEF EntryLess
<1>9. Keeps(pg, E, s)
  BY <1>2, <1>3, <1>8 DEF Keeps
<1> QED BY <1>7, <1>9

\* Steps of other sessions: entries moved, or none that the cursor has yet to
\* return.
LEMMA DisturbPromises ==
  ASSUME CursorInv, NEW moved \in BOOLEAN, Disturb(moved),
         ~moved /\ scan.open /\ Keeps(pages, entries, scan) => Keeps(pages', entries', scan)
  PROVE  CursorInv'
<1>1. CASE scan = NoScan
  <2>1. scan' = scan
    BY <1>1 DEF Disturb, NoScan
  <2> QED BY <1>1, <2>1 DEF CursorInv
<1>2. CASE scan # NoScan
  <2>1. scan \in Scanners /\ scan.open /\ Promises(scan) /\ (~scan.moved => Keeps(pages, entries, scan))
    BY <1>2 DEF CursorInv, Promises, Scanners
  <2>2. CASE ~moved
    <3>1. scan' = scan
      BY <2>2 DEF Disturb
    <3>2. Promises(scan') /\ (~scan'.moved => Keeps(pages', entries', scan'))
      BY <2>1, <2>2, <3>1
    <3> QED BY <3>2 DEF CursorInv, Promises, Keeps, At, Ahead, Leaves
  <2>3. CASE moved
    <3>1. scan' = [scan EXCEPT !.moved = TRUE]
      BY <2>1, <2>3 DEF Disturb
    <3>2. /\ scan' \in Scanners /\ scan'.moved /\ scan'.dead = scan.dead /\ scan'.lo = scan.lo /\ scan'.lo0 = scan.lo0
          /\ scan'.out = scan.out /\ scan'.hi = scan.hi /\ scan'.expected = scan.expected
      BY <2>1, <3>1 DEF Scanners
    <3>3. Promises(scan')
      BY <2>1, <3>2 DEF Promises
    <3> QED BY <3>2, <3>3 DEF CursorInv, Promises
  <2> QED BY <2>2, <2>3
<1> QED BY <1>1, <1>2

\* The steps of a cursor and of the sessions beside it.
LEMMA CursorNext ==
  ASSUME StoreInv, StoreInv', CursorInv, [Next]_vars
  PROVE  CursorInv'
<1>0. TreeOf(pages, entries) /\ FileOK(pages', entries', hint')
  BY DEF StoreInv, FileOK
<1>1. Local(pages) /\ entries \subseteq Points /\ pages \in Files /\ pages' \in Files
  <2>1. PICK rank, low, high : Tree(pages, RootOf(pages), entries, RootOf(pages), RootOf(pages), rank, low, high)
    BY <1>0 DEF TreeOf
  <2>2. TreeOf(pages', entries')
    BY <1>0 DEF FileOK
  <2>3. PICK rank2, low2, high2 : Tree(pages', RootOf(pages'), entries', RootOf(pages'), RootOf(pages'), rank2, low2, high2)
    BY <2>2 DEF TreeOf
  <2> QED BY <2>1, <2>3, EntryPoints DEF Tree, Local, Stored
<1>2. CASE scan' = scan /\ pages' = pages /\ entries' = entries
  BY <1>2 DEF CursorInv, Promises, Keeps, At, Ahead, Leaves
<1>3. Begin \/ CommitTxn \/ WriteBack \/ UNCHANGED vars => scan' = scan /\ pages' = pages /\ entries' = entries
  BY DEF Begin, CommitTxn, WriteBack, vars, store
<1>9. ASSUME NEW p \in Nos, WritePage(p) PROVE scan' = scan /\ pages' = pages /\ entries' = entries
  BY <1>9 DEF WritePage, store
<1>4. CASE RollbackTxn
  <2>1. pages' = saved /\ entries' = entries0 /\ Disturb(entries # entries0)
    BY <1>4 DEF RollbackTxn
  <2>2. entries = entries0 => pages' = pages /\ entries' = entries
    BY <2>1 DEF StoreInv
  <2>3. ~(entries # entries0) /\ scan.open /\ Keeps(pages, entries, scan) => Keeps(pages', entries', scan)
    BY <2>2
  <2> QED BY <2>1, <2>3, DisturbPromises
<1>5. CASE Reopen \/ CloseScan
  <2>1. scan' = NoScan
    BY <1>5 DEF Reopen, CloseScan
  <2> QED BY <2>1 DEF CursorInv
<1>6. ASSUME NEW e \in Entries, Insert(e) PROVE CursorInv'
  <2> DEFINE r == InsertRec([pg |-> pages, hint |-> hint], root, e)
  <2>1. Disturb(r.t.hint # hint) /\ entries' = entries \cup {e}
    BY <1>6 DEF Insert
  <2>2. r.t.hint = hint => \E q \in Leaves(pages) : pages' = WithEntry(pages, q, e)
    BY <1>6, StoreInsert
  <2> HIDE DEF r
  <2>3. ASSUME r.t.hint = hint, scan.open, Keeps(pages, entries, scan) PROVE Keeps(pages', entries', scan)
    <3>1. PICK q \in Leaves(pages) : pages' = WithEntry(pages, q, e)
      BY <2>2, <2>3
    <3>2. scan.cur \in Nos /\ scan.next \in Nos /\ scan.idx \in Nat
      <4>1. scan # NoScan
        BY <2>3 DEF NoScan
      <4>2. scan \in Scanners
        BY <4>1 DEF CursorInv, Promises
      <4> QED BY <4>2 DEF Scanners
    <3>3. ~scan.done => At(pages', scan) /\ Ahead(pages, entries, scan) \subseteq Ahead(pages', entries \cup {e}, scan)
      BY <1>1, <2>3, <3>1, <3>2, AheadKept DEF Keeps
    <3> QED BY <2>1, <2>3, <3>3 DEF Keeps
  <2>4. (r.t.hint # hint) \in BOOLEAN
    OBVIOUS
  <2> QED BY <2>1, <2>3, <2>4, DisturbPromises
<1>7. ASSUME NEW range \in CursorRanges, Scan(range[1], range[2]) PROVE CursorInv'
  <2>1. range[1] \in Bounds /\ range[2] \in Bounds
    BY <1>7, RangesOK
  <2>2. IsTree(pages[root]) /\ scan' = OpenScan(pages, root, range[1], range[2]) /\ pages' = pages /\ entries' = entries
    BY <1>7 DEF Scan, store
  <2>3. root = RootOf(pages)
    BY <2>2 DEF StoreInv, IsTree, ZeroPage
  <2>4. Promises(scan') /\ Keeps(pages, entries, scan')
    BY <1>0, <2>1, <2>2, <2>3, OpenPromises
  <2> QED BY <2>2, <2>4 DEF CursorInv, Promises, Keeps, At, Ahead, Leaves
<1>8. CASE Fetch
  <2>1. scan.open /\ ~scan.done /\ scan' = ScanStep(pages, scan) /\ ~scan'.dead /\ pages' = pages /\ entries' = entries
    BY <1>8 DEF Fetch, store
  <2>2. Promises(scan) /\ (~scan.moved => Keeps(pages, entries, scan))
    BY <2>1 DEF CursorInv, NoScan
  <2>3. Promises(scan') /\ scan'.moved = scan.moved
    BY <1>1, <2>1, <2>2, TurnPromises
  <2>4. ~scan.moved => Keeps(pages, entries, scan')
    BY <1>0, <2>1, <2>2, TurnKeeps
  <2> QED BY <2>1, <2>3, <2>4 DEF CursorInv, Promises, Keeps, At, Ahead, Leaves
<1> QED BY <1>2, <1>3, <1>4, <1>5, <1>6, <1>7, <1>8, <1>9 DEF Next

\* session.cpp, BTreeScanner::next: whatever inserts, commits, rollbacks and
\* restarts happen beside it, a cursor that came to its end has returned nothing
\* above its upper bound, and, unless a page split or a rollback moved entries
\* meanwhile, everything that was within its bounds when it was opened, unless the
\* file is spoilt.
THEOREM CursorReturnsAll ==
  Spec => []CursorMissesNothing
<1>1. Init => CursorInv
  BY DEF Init, CursorInv
<1>2. (spoilt \/ StoreInv) /\ (spoilt \/ StoreInv)' /\ (spoilt \/ CursorInv) /\ [Next]_vars => (spoilt \/ CursorInv)'
  BY CursorNext, StaysSpoilt
<1>3. spoilt \/ CursorInv => CursorMissesNothing
  <2> SUFFICES ASSUME CursorInv, scan.open, scan.done PROVE CursorMissesNothing
    BY DEF CursorMissesNothing
  <2>1. Promises(scan) /\ (~scan.moved => Keeps(pages, entries, scan))
    BY DEF CursorInv, NoScan
  <2>2. scan.moved \/ scan.expected \subseteq Range(scan.out)
    BY <2>1 DEF Keeps
  <2>3. \A e \in Range(scan.out) : InRange(e, NoBound, scan.hi)
    BY <2>1 DEF Promises
  <2> QED BY <2>2, <2>3 DEF CursorMissesNothing
<1> QED BY <1>1, <1>2, <1>3, TreeInvariant, PTL DEF Spec

-----------------------------------------------------------------------------
(* Range scans that nobody disturbs *)

\* A returned entry more.
LEMMA AscendingAppend ==
  ASSUME NEW s \in Seq(Entries), Ascending(s), NEW e \in Entries, \A x \in Range(s) : EntryLess(x, e)
  PROVE  Ascending(Append(s, e))
<1>1. /\ Len(Append(s, e)) = Len(s) + 1 /\ Append(s, e)[Len(s) + 1] = e
      /\ \A i \in 1..Len(s) : Append(s, e)[i] = s[i]
  OBVIOUS
<1>2. Len(s) \in Nat /\ \A i, j \in 1..(Len(s) + 1) : i < j => i \in 1..Len(s) /\ (j \in 1..Len(s) \/ j = Len(s) + 1)
  OBVIOUS
<1>3. \A i \in 1..Len(s) : EntryLess(s[i], e)
  BY DEF Range
<1> SUFFICES ASSUME NEW i \in 1..(Len(s) + 1), NEW j \in 1..(Len(s) + 1), i < j
             PROVE  EntryLess(Append(s, e)[i], Append(s, e)[j])
  BY <1>1 DEF Ascending
<1>4. CASE j \in 1..Len(s)
  BY <1>1, <1>2, <1>4 DEF Ascending
<1>5. CASE j = Len(s) + 1
  BY <1>1, <1>2, <1>3, <1>5
<1> QED BY <1>2, <1>4, <1>5

\* An entry is above the lower bound, or nothing of the bound's key can come.
Above(s, x) ==
  \/ s.lo0.none
  \/ IF s.lo = s.lo0 THEN ~EntryLess(x, Probe(s.lo0)) ELSE KeyLess(s.lo0.key, x.key)

\* A scan half way.
Exact(pg, E, s) ==
  /\ Promises(s) /\ Keeps(pg, E, s) /\ s.expected = {x \in E : InRange(x, s.lo0, s.hi)}
  /\ Ascending(s.out) /\ Range(s.out) \subseteq s.expected
  /\ ~s.done => \A x \in Ahead(pg, E, s) : Above(s, x) /\ \A o \in Range(s.out) : EntryLess(o, x)

\* An entry that next returns is within both bounds; those after it are above
\* the lower bound.
LEMMA ReturnedInRange ==
  ASSUME NEW s \in Scanners, s.lo \in {s.lo0, NoBound}, NEW e \in Entries, Above(s, e), ~Beyond(e, s.hi),
         ~(~s.lo.none /\ ~s.lo.incl /\ e.key = s.lo.key),
         NEW t, t.lo0 = s.lo0, t.lo = IF ~s.lo.none /\ ~s.lo.incl THEN NoBound ELSE s.lo
  PROVE  /\ InRange(e, s.lo0, s.hi)
         /\ \A x \in Points : EntryLess(e, x) /\ Above(s, x) => Above(t, x)
<1>1. s.lo0 \in Bounds /\ s.hi \in Bounds /\ e \in Points /\ e.key \in Keys
  BY EntryPoints DEF Scanners, Points
<1>2. /\ s.lo0.none \in BOOLEAN
      /\ ~s.lo0.none => s.lo0.key \in Keys /\ s.lo0.incl \in BOOLEAN /\ Probe(s.lo0).key = s.lo0.key
  BY <1>1, ProbePoint
<1>3. InRange(e, NoBound, s.hi)
  BY <1>1, UpperBound
<1>4. CASE s.lo0.none
  BY <1>3, <1>4 DEF InRange, Above
<1>5. CASE ~s.lo0.none
  <2>0. NoBound.none /\ NoBound # s.lo0
    BY <1>5 DEF NoBound
  <2>1. CASE s.lo = s.lo0
    <3>1. ~EntryLess(e, Probe(s.lo0))
      BY <1>5, <2>1 DEF Above
    <3>2. ~KeyLess(e.key, s.lo0.key)
      BY <1>2, <1>5, <3>1 DEF EntryLess
    <3>3. KeyLess(s.lo0.key, e.key) \/ (s.lo0.incl /\ e.key = s.lo0.key)
      BY <1>1, <1>2, <1>5, <2>1, <3>2, KeyOrder
    <3>4. InRange(e, s.lo0, s.hi)
      BY <1>3, <3>3 DEF InRange
    <3>5. ASSUME NEW x \in Points, EntryLess(e, x), Above(s, x) PROVE Above(t, x)
      <4>1. CASE s.lo0.incl
        BY <2>1, <3>5, <4>1 DEF Above
      <4>2. CASE ~s.lo0.incl
        <5>1. KeyLess(s.lo0.key, e.key) /\ t.lo = NoBound
          BY <1>5, <2>1, <3>3, <4>2
        <5>2. x.key \in Keys /\ (KeyLess(e.key, x.key) \/ e.key = x.key)
          BY <3>5 DEF EntryLess, Points
        <5>3. KeyLess(s.lo0.key, x.key)
          BY <1>1, <1>2, <1>5, <5>1, <5>2, KeyOrder
        <5> QED BY <2>0, <5>1, <5>3 DEF Above
      <4> QED BY <4>1, <4>2
    <3> QED BY <3>4, <3>5
  <2>2. CASE s.lo # s.lo0
    <3>1. s.lo = NoBound /\ t.lo = s.lo
      BY <2>0, <2>2
    <3>2. KeyLess(s.lo0.key, e.key)
      BY <1>5, <2>2 DEF Above
    <3>3. InRange(e, s.lo0, s.hi)
      BY <1>3, <3>2 DEF InRange
    <3> QED BY <3>1, <3>3 DEF Above
  <2> QED BY <2>1, <2>2
<1> QED BY <1>2, <1>4, <1>5

\* A turn of next.
LEMMA TurnExact ==
  ASSUME NEW pg, NEW E, TreeOf(pg, E), NEW s, Exact(pg, E, s), NEW t, t = ScanStep(pg, s)
  PROVE  Exact(pg, E, t)
<1>1. CASE s.done
  BY <1>1 DEF ScanStep
<1>2. CASE ~s.done
  <2> DEFINE R == RootOf(pg)
             A == Ahead(pg, E, s)
  <2>1. PICK rank, low, high : Tree(pg, R, E, R, R, rank, low, high)
    BY DEF TreeOf
  <2> HIDE DEF R, A
  <2>2. Promises(s) /\ Keeps(pg, E, s) /\ s \in Scanners /\ ~s.dead /\ At(pg, s) /\ pg \in Files /\ E \subseteq Points /\ E \subseteq Entries
    BY <1>2, <2>1, EntryPoints DEF Exact, Promises, Keeps, Tree, Local, Stored
  <2>3. t.hi = s.hi /\ t.lo0 = s.lo0 /\ t.expected = s.expected /\ t \in Scanners
    BY <2>2, TurnTyped
  <2>4. /\ ~t.dead
        /\ \/ t.done /\ t.out = s.out /\ t.lo = s.lo /\ A = {}
           \/ ~t.done /\ t.out = s.out /\ t.lo = s.lo /\ At(pg, t) /\ Ahead(pg, E, t) = A
           \/ \E e \in A :
                /\ e \in Entries /\ \A x \in A : x = e \/ EntryLess(e, x)
                /\ \/ Beyond(e, s.hi) /\ t.done /\ t.out = s.out /\ t.lo = s.lo
                   \/ /\ ~Beyond(e, s.hi) /\ ~t.done /\ At(pg, t) /\ Ahead(pg, E, t) = A \ {e}
                      /\ IF ~s.lo.none /\ ~s.lo.incl /\ e.key = s.lo.key
                         THEN t.out = s.out /\ t.lo = s.lo
                         ELSE t.out = Append(s.out, e) /\ t.lo = IF ~s.lo.none /\ ~s.lo.incl THEN NoBound ELSE s.lo
    BY <1>2, <2>1, <2>2, TurnAhead DEF A
  <2>5. Promises(t) /\ Keeps(pg, E, t)
    BY <1>2, <2>2, <2>4, TurnPromises, TurnKeeps
  <2>6. /\ s.expected = {x \in E : InRange(x, s.lo0, s.hi)} /\ Ascending(s.out) /\ Range(s.out) \subseteq s.expected
        /\ \A x \in A : Above(s, x) /\ \A o \in Range(s.out) : EntryLess(o, x)
    BY <1>2 DEF Exact, A
  <2>7. t.lo = s.lo => \A x : Above(s, x) <=> Above(t, x)
    BY <2>3 DEF Above
  <2>8. CASE t.done /\ t.out = s.out
    BY <2>3, <2>5, <2>6, <2>8 DEF Exact
  <2>9. CASE ~t.done /\ t.out = s.out /\ t.lo = s.lo /\ Ahead(pg, E, t) \subseteq A
    BY <2>3, <2>5, <2>6, <2>7, <2>9 DEF Exact
  <2>10. ASSUME NEW e \in A, e \in Entries, \A x \in A : x = e \/ EntryLess(e, x), ~Beyond(e, s.hi), ~t.done,
                Ahead(pg, E, t) = A \ {e}, ~(~s.lo.none /\ ~s.lo.incl /\ e.key = s.lo.key), t.out = Append(s.out, e),
                t.lo = IF ~s.lo.none /\ ~s.lo.incl THEN NoBound ELSE s.lo
         PROVE  Exact(pg, E, t)
    <3>1. s.lo \in {s.lo0, NoBound} /\ s.out \in Seq(Entries)
      BY <2>2 DEF Promises, Scanners
    <3>2. InRange(e, s.lo0, s.hi) /\ \A x \in Points : EntryLess(e, x) /\ Above(s, x) => Above(t, x)
      BY <2>2, <2>3, <2>6, <2>10, <3>1, ReturnedInRange
    <3>3. Range(t.out) = Range(s.out) \cup {e}
      BY <2>10, <3>1, Appended
    <3>4. Ascending(t.out)
      BY <2>6, <2>10, <3>1, AscendingAppend
    <3>5. e \in s.expected
      BY <2>6, <3>2 DEF A, Ahead
    <3>6. A \subseteq Points
      BY <2>2 DEF A, Ahead
    <3>7. ASSUME NEW x \in Ahead(pg, E, t) PROVE Above(t, x) /\ \A o \in Range(t.out) : EntryLess(o, x)
      BY <2>6, <2>10, <3>2, <3>3, <3>6
    <3> QED BY <2>3, <2>5, <2>6, <3>3, <3>4, <3>5, <3>7 DEF Exact
  <2> QED
    <3>1. CASE t.done
      BY <2>4, <2>8, <3>1
    <3>2. CASE ~t.done /\ t.out = s.out /\ t.lo = s.lo /\ At(pg, t) /\ Ahead(pg, E, t) = A
      BY <2>9, <3>2
    <3>3. CASE ~t.done /\ \E e \in A :
                /\ e \in Entries /\ \A x \in A : x = e \/ EntryLess(e, x)
                /\ ~Beyond(e, s.hi) /\ ~t.done /\ At(pg, t) /\ Ahead(pg, E, t) = A \ {e}
                /\ IF ~s.lo.none /\ ~s.lo.incl /\ e.key = s.lo.key
                   THEN t.out = s.out /\ t.lo = s.lo
                   ELSE t.out = Append(s.out, e) /\ t.lo = IF ~s.lo.none /\ ~s.lo.incl THEN NoBound ELSE s.lo
      <4>1. PICK e \in A :
                /\ e \in Entries /\ \A x \in A : x = e \/ EntryLess(e, x)
                /\ ~Beyond(e, s.hi) /\ ~t.done /\ At(pg, t) /\ Ahead(pg, E, t) = A \ {e}
                /\ IF ~s.lo.none /\ ~s.lo.incl /\ e.key = s.lo.key
                   THEN t.out = s.out /\ t.lo = s.lo
                   ELSE t.out = Append(s.out, e) /\ t.lo = IF ~s.lo.none /\ ~s.lo.incl THEN NoBound ELSE s.lo
        BY <3>3
      <4>2. CASE ~s.lo.none /\ ~s.lo.incl /\ e.key = s.lo.key
        <5>1. t.out = s.out /\ t.lo = s.lo /\ Ahead(pg, E, t) \subseteq A
          BY <4>1, <4>2
        <5> QED BY <2>9, <3>3, <5>1
      <4>3. CASE ~(~s.lo.none /\ ~s.lo.incl /\ e.key = s.lo.key)
        <5>1. t.out = Append(s.out, e) /\ t.lo = IF ~s.lo.none /\ ~s.lo.incl THEN NoBound ELSE s.lo
          BY <4>1, <4>3
        <5> QED BY <2>10, <4>1, <4>3, <5>1
      <4> QED BY <4>2, <4>3
    <3> QED BY <2>4, <3>1, <3>2, <3>3
<1> QED BY <1>1, <1>2

\* The leaves behind a leaf.
Later(pg, high, p) == {q \in Leaves(pg) : Len(pg[q].es) > 0 /\ pg[q].es[1] \in high[p]}
Count(pg, high, p) == Cardinality(Later(pg, high, p))

\* There are fewer behind the next leaf, and a page is not behind itself.
LEMMA LaterFewer ==
  ASSUME NEW pg, NEW R, NEW E, NEW rank, NEW low, NEW high, Tree(pg, R, E, R, R, rank, low, high), NEW p \in Leaves(pg)
  PROVE  /\ Count(pg, high, p) \in Nat /\ Count(pg, high, p) + 1 <= MaxPage
         /\ pg[p].next # 0 => Count(pg, high, pg[p].next) \in Nat /\ Count(pg, high, pg[p].next) + 1 <= Count(pg, high, p)
<1>0. MaxPage \in Nat /\ MaxPage \in Int /\ 1 \in Int
  BY ConstantsOK
<1>1. IsFiniteSet(1..MaxPage) /\ Cardinality(1..MaxPage) = MaxPage
  <2>1. IsFiniteSet(1..MaxPage) /\ Cardinality(1..MaxPage) = IF 1 > MaxPage THEN 0 ELSE MaxPage - 1 + 1
    BY <1>0, FS_Interval
  <2> QED BY <1>0, <2>1
<1>2. Leaves(pg) \subseteq 1..MaxPage
  <2>1. 0 \notin Leaves(pg)
    <3>1. pg[0].type = "header"
      BY DEF Tree, Linked, Header
    <3> QED BY <3>1 DEF Leaves
  <2> QED BY <1>0, <2>1 DEF Leaves, Nos
<1>3. ASSUME NEW q \in Leaves(pg)
      PROVE  /\ IsFiniteSet(Later(pg, high, q)) /\ Count(pg, high, q) \in Nat
             /\ q \notin Later(pg, high, q) /\ Later(pg, high, q) \subseteq 1..MaxPage /\ q \in 1..MaxPage
  <2>1. Later(pg, high, q) \subseteq 1..MaxPage /\ q \in 1..MaxPage
    BY <1>2 DEF Later
  <2>2. IsFiniteSet(Later(pg, high, q)) /\ Count(pg, high, q) \in Nat
    BY <1>1, <2>1, FS_Subset, FS_CardinalityType DEF Count
  <2>3. pg[q].es \in Seq(Entries) /\ \A i \in 1..Len(pg[q].es) : pg[q].es[i] \notin high[q]
    BY LeafFacts
  <2>4. Len(pg[q].es) > 0 => 1 \in 1..Len(pg[q].es)
    BY <2>3
  <2>5. q \notin Later(pg, high, q)
    BY <2>3, <2>4 DEF Later
  <2> QED BY <2>1, <2>2, <2>5
<1>4. ASSUME NEW q \in Leaves(pg), NEW S, S \subseteq 1..MaxPage, Later(pg, high, q) \subseteq S, q \in S, IsFiniteSet(S)
      PROVE  Count(pg, high, q) + 1 <= Cardinality(S)
  <2> DEFINE L == Later(pg, high, q)
  <2>1. IsFiniteSet(L) /\ q \notin L /\ Cardinality(L) \in Nat
    BY <1>3 DEF Count
  <2>2. Cardinality(L \cup {q}) = Cardinality(L) + 1
    <3> HIDE DEF L
    <3> QED BY <2>1, FS_AddElement
  <2>3. L \cup {q} \subseteq S
    BY <1>4
  <2>4. Cardinality(L \cup {q}) <= Cardinality(S)
    <3> HIDE DEF L
    <3> QED BY <1>4, <2>3, FS_Subset
  <2> QED BY <2>2, <2>4 DEF Count
<1>5. Count(pg, high, p) + 1 <= MaxPage
  BY <1>1, <1>3, <1>4
<1>6. ASSUME pg[p].next # 0
      PROVE  Count(pg, high, pg[p].next) \in Nat /\ Count(pg, high, pg[p].next) + 1 <= Count(pg, high, p)
  <2> DEFINE q == pg[p].next
  <2>1. q \in Leaves(pg) /\ Len(pg[q].es) > 0 /\ high[p] = low[q] /\ Upward(high[p])
    BY <1>6, LeafFacts
  <2> HIDE DEF q
  <2>2. /\ pg[q].es \in Seq(Entries) /\ Upward(high[q])
        /\ \A i \in 1..Len(pg[q].es) : pg[q].es[i] \in low[q] /\ pg[q].es[i] \notin high[q]
    BY <2>1, LeafFacts
  <2>3. 1 \in 1..Len(pg[q].es)
    BY <2>1, <2>2
  <2>4. pg[q].es[1] \in high[p] /\ pg[q].es[1] \notin high[q] /\ pg[q].es[1] \in Points
    BY <2>1, <2>2, <2>3, EntryPoints
  <2>5. \A x \in high[q] : x \in high[p]
    BY <2>1, <2>2, <2>4, Order DEF Upward
  <2>6. Later(pg, high, q) \subseteq Later(pg, high, p) /\ q \in Later(pg, high, p)
    BY <2>1, <2>4, <2>5 DEF Later
  <2>7. Count(pg, high, q) + 1 <= Cardinality(Later(pg, high, p))
    BY <1>3, <1>4, <2>1, <2>6
  <2> QED BY <1>3, <2>1, <2>7 DEF Count, q
<1> QED BY <1>3, <1>5, <1>6

\* Multiples.
LEMMA Multiple ==
  ASSUME NEW a \in Nat, NEW b \in Nat, NEW k \in Nat, a + 1 <= b
  PROVE  a * k \in Nat /\ b * k \in Nat /\ a * k + k <= b * k
<1>1. (b - a - 1) * k >= 0
  BY Z3
<1>2. (b - a - 1) * k = b * k - a * k - k
  BY Z3
<1>3. a * k \in Nat /\ b * k \in Nat
  BY Z3
<1> QED BY <1>1, <1>2, <1>3

\* The turns a scan has left at most.
Left(pg, high, s) ==
  IF s.cur = 0
  THEN IF s.next = 0 THEN 1 ELSE (Count(pg, high, s.next) + 1) * (LeafCap + 2) + 1
  ELSE Count(pg, high, s.cur) * (LeafCap + 2) + (Len(pg[s.cur].es) - s.idx) + 2

Within(pg, s) == s.cur # 0 => s.idx <= Len(pg[s.cur].es)

\* A turn of next is one less.
LEMMA TurnLeft ==
  ASSUME NEW pg, NEW R, NEW E, NEW rank, NEW low, NEW high, Tree(pg, R, E, R, R, rank, low, high), Capped(pg),
         NEW s \in Scanners, ~s.done, ~s.dead, At(pg, s), Within(pg, s), NEW t, t = ScanStep(pg, s)
  PROVE  /\ Left(pg, high, s) \in Nat /\ Left(pg, high, s) >= 1
         /\ t.done \/ (Within(pg, t) /\ Left(pg, high, t) \in Int /\ Left(pg, high, t) + 1 <= Left(pg, high, s))
<1> DEFINE K == LeafCap + 2
<1>0. K \in Nat /\ LeafCap \in Nat
  BY ConstantsOK
<1>1. s.idx \in Nat /\ pg \in Files
  BY DEF Scanners, Tree, Local
<1>2. ASSUME NEW p \in Leaves(pg)
      PROVE  /\ Len(pg[p].es) \in Nat /\ Len(pg[p].es) <= LeafCap
             /\ Count(pg, high, p) \in Nat /\ Count(pg, high, p) * K \in Nat
             /\ (Count(pg, high, p) + 1) * K = Count(pg, high, p) * K + K
             /\ pg[p].next # 0 => Count(pg, high, pg[p].next) \in Nat /\ (Count(pg, high, pg[p].next) + 1) * K <= Count(pg, high, p) * K
  <2>1. pg[p].es \in Seq(Entries)
    BY LeafFacts
  <2>2. /\ Count(pg, high, p) \in Nat
        /\ pg[p].next # 0 => Count(pg, high, pg[p].next) \in Nat /\ Count(pg, high, pg[p].next) + 1 <= Count(pg, high, p)
    BY LaterFewer
  <2> HIDE DEF K
  <2> DEFINE b == Count(pg, high, p)
             a == Count(pg, high, pg[p].next)
  <2>3. b * K \in Nat /\ (b + 1) * K = b * K + K
    <3>1. b \in Nat
      BY <2>2
    <3> HIDE DEF b
    <3> QED BY <1>0, <3>1, Z3
  <2>4. ASSUME pg[p].next # 0 PROVE a \in Nat /\ (a + 1) * K <= b * K
    <3>1. a \in Nat /\ b \in Nat /\ a + 1 <= b
      BY <2>2, <2>4
    <3> HIDE DEF a, b
    <3>2. a * K + K <= b * K /\ a * K \in Nat
      BY <1>0, <3>1, Multiple
    <3>3. (a + 1) * K = a * K + K
      BY <1>0, <3>1, Z3
    <3> QED BY <3>1, <3>2, <3>3
  <2>5. Len(pg[p].es) \in Nat /\ Len(pg[p].es) <= LeafCap
    BY <2>1 DEF Capped
  <2> QED BY <2>2, <2>3, <2>4, <2>5
<1>3. CASE s.cur = 0 /\ s.next = 0
  <2>1. t = [s EXCEPT !.done = TRUE]
    BY <1>3 DEF ScanStep
  <2>2. t.done
    BY <2>1 DEF Scanners
  <2>3. Left(pg, high, s) = 1
    BY <1>3 DEF Left
  <2> QED BY <2>2, <2>3
<1>4. CASE s.cur = 0 /\ s.next # 0
  <2> DEFINE q == s.next
             c == Count(pg, high, q)
  <2>1. q \in Leaves(pg) /\ pg[q].type = "leaf" /\ q # 0
    BY <1>4 DEF At, Leaves
  <2>2. t = [s EXCEPT !.cur = s.next, !.next = pg[s.next].next, !.idx = 0]
    BY <1>4, <2>1 DEF ScanStep
  <2>3. t.cur = q /\ t.idx = 0
    BY <2>2 DEF Scanners
  <2> HIDE DEF q
  <2>4. Len(pg[q].es) \in Nat /\ Len(pg[q].es) <= LeafCap /\ c \in Nat /\ c * K \in Nat /\ (c + 1) * K = c * K + K
    BY <1>2, <2>1
  <2>5. Left(pg, high, s) = (c + 1) * K + 1
    BY <1>4 DEF Left, q
  <2>6. Left(pg, high, t) = c * K + (Len(pg[q].es) - 0) + 2
    BY <2>1, <2>3 DEF Left
  <2>7. Within(pg, t)
    BY <2>3, <2>4 DEF Within
  <2> DEFINE m == c * K
             l == Len(pg[q].es)
  <2>8. Left(pg, high, s) = m + K + 1 /\ Left(pg, high, t) = m + l + 2 /\ m \in Nat /\ l \in Nat /\ l <= LeafCap
    BY <2>4, <2>5, <2>6
  <2> HIDE DEF m, l
  <2> QED BY <1>0, <2>7, <2>8
<1>5. CASE s.cur # 0
  <2> DEFINE p == s.cur
             c == Count(pg, high, p)
             l == Len(pg[p].es)
             m == c * K
  <2>1. p \in Leaves(pg) /\ s.next = pg[p].next
    BY <1>5 DEF At
  <2> HIDE DEF p
  <2>2. l \in Nat /\ m \in Nat /\ s.idx <= l
    BY <1>2, <1>5, <2>1 DEF Within, p
  <2>3. Left(pg, high, s) = m + (l - s.idx) + 2
    BY <1>5 DEF Left, p
  <2> HIDE DEF m, l
  <2>4. Left(pg, high, s) \in Nat /\ Left(pg, high, s) >= 1
    BY <1>1, <2>2, <2>3
  <2>5. CASE s.idx >= l
    <3>1. t = [s EXCEPT !.cur = 0]
      BY <1>5, <2>5 DEF ScanStep, l, p
    <3>2. t.cur = 0 /\ t.next = s.next
      BY <3>1 DEF Scanners
    <3>3. Within(pg, t)
      BY <3>2 DEF Within
    <3>4. CASE s.next = 0
      <4>1. Left(pg, high, t) = 1
        BY <3>2, <3>4 DEF Left
      <4> QED BY <1>1, <2>2, <2>3, <2>4, <3>3, <4>1
    <3>5. CASE s.next # 0
      <4> DEFINE w == (Count(pg, high, s.next) + 1) * K
      <4>1. Left(pg, high, t) = w + 1
        BY <3>2, <3>5 DEF Left
      <4>2. w <= m /\ Count(pg, high, s.next) \in Nat
        BY <1>2, <2>1, <3>5 DEF m
      <4>3. w \in Nat
        <5> DEFINE d == Count(pg, high, s.next)
        <5>1. d \in Nat
          BY <4>2
        <5> HIDE DEF d, K
        <5> QED BY <1>0, <5>1, Z3 DEF d
      <4> HIDE DEF w
      <4>4. Left(pg, high, t) \in Int /\ Left(pg, high, t) + 1 <= Left(pg, high, s)
        BY <1>1, <2>2, <2>3, <4>1, <4>2, <4>3
      <4> QED BY <2>4, <3>3, <4>4
    <3> QED BY <3>4, <3>5
  <2>6. CASE ~(s.idx >= l)
    <3>1. t.done \/ (t.cur = s.cur /\ t.idx = s.idx + 1)
      <4> DEFINE e == pg[s.cur].es[s.idx + 1]
                 b == IF ~s.lo.none /\ ~s.lo.incl THEN NoBound ELSE s.lo
      <4>1. t = IF Beyond(e, s.hi) THEN [s EXCEPT !.done = TRUE]
                ELSE IF ~s.lo.none /\ ~s.lo.incl /\ e.key = s.lo.key THEN [s EXCEPT !.idx = s.idx + 1]
                ELSE [s EXCEPT !.idx = s.idx + 1, !.out = Append(s.out, e), !.lo = b]
        BY <1>5, <2>6 DEF ScanStep, l, p
      <4> HIDE DEF e, b
      <4> QED BY <4>1 DEF Scanners
    <3>2. CASE t.cur = s.cur /\ t.idx = s.idx + 1
      <4>1. Left(pg, high, t) = m + (l - t.idx) + 2
        BY <1>5, <3>2 DEF Left, p, l, m
      <4>2. Left(pg, high, t) \in Int /\ Left(pg, high, t) + 1 <= Left(pg, high, s) /\ t.idx <= l
        BY <1>1, <2>2, <2>3, <2>6, <3>2, <4>1
      <4>3. Within(pg, t)
        BY <3>2, <4>2 DEF Within, l, p
      <4> QED BY <2>4, <4>2, <4>3
    <3> QED BY <2>4, <3>1, <3>2
  <2> QED BY <2>5, <2>6
<1> QED BY <1>3, <1>4, <1>5

\* Drained runs turn after turn.
LEMMA DrainedTurns ==
  ASSUME NEW pg, NEW s, NEW N, N = ScanSteps, N \in Nat
  PROVE  \E run : /\ Drained(pg, s) = run[N] /\ run[0] = s
                  /\ \A n \in 1..N : run[n] = ScanStep(pg, run[n - 1])
<1> DEFINE Body(g, n) == IF n = 0 THEN s ELSE ScanStep(pg, g[n - 1])
           Rec(g) == g = [n \in 0..N |-> Body(g, n)]
           S == {k \in Nat : \E f : \A n \in 0..N : n < k => f[n] = Body(f, n)}
<1>1. ASSUME NEW k \in Nat, \A m \in Nat : m < k => m \in S PROVE k \in S
  <2>1. CASE k = 0
    <3>1. \A n \in 0..N : ~(n < k)
      BY <2>1
    <3> HIDE DEF Body
    <3> QED BY <3>1
  <2>2. CASE k # 0
    <3>1. k - 1 \in S
      BY <1>1, <2>2
    <3>2. PICK f : \A n \in 0..N : n < k - 1 => f[n] = Body(f, n)
      BY <3>1
    <3> DEFINE g == [n \in 0..N |-> Body(f, n)]
    <3>3. ASSUME NEW n \in 0..N, n < k PROVE g[n] = Body(g, n)
      <4>1. g[n] = Body(f, n)
        OBVIOUS
      <4>2. CASE n = 0
        BY <4>1, <4>2
      <4>3. CASE n # 0
        <5>1. n - 1 \in 0..N /\ n - 1 < k - 1
          BY <3>3, <4>3
        <5>2. g[n - 1] = Body(f, n - 1) /\ f[n - 1] = Body(f, n - 1)
          <6> HIDE DEF Body
          <6> QED BY <3>2, <5>1
        <5> HIDE DEF g
        <5> QED BY <4>1, <4>3, <5>2
      <4> QED BY <4>2, <4>3
    <3> HIDE DEF g, Body
    <3> QED BY <3>3
  <2> QED BY <2>1, <2>2
<1>2. \A k \in Nat : k \in S
  <2> HIDE DEF S
  <2> QED BY <1>1, Descend
<1>3. PICK f : \A n \in 0..N : f[n] = Body(f, n)
  <2>1. N + 1 \in S
    <3> HIDE DEF S
    <3> QED BY <1>2
  <2>2. PICK f : \A n \in 0..N : n < N + 1 => f[n] = Body(f, n)
    BY <2>1
  <2>3. \A n \in 0..N : n < N + 1
    OBVIOUS
  <2> HIDE DEF Body
  <2> QED BY <2>2, <2>3
<1>4. Rec([n \in 0..N |-> Body(f, n)])
  <2> DEFINE g == [n \in 0..N |-> Body(f, n)]
  <2>1. ASSUME NEW n \in 0..N PROVE Body(f, n) = Body(g, n)
    <3>1. CASE n = 0
      BY <3>1
    <3>2. CASE n # 0
      <4>1. n - 1 \in 0..N
        BY <3>2
      <4>2. g[n - 1] = f[n - 1]
        <5> HIDE DEF Body
        <5> QED BY <1>3, <4>1
      <4> HIDE DEF g
      <4> QED BY <3>2, <4>2
    <3> QED BY <3>1, <3>2
  <2> HIDE DEF Body
  <2> QED BY <2>1
<1>5. Rec(CHOOSE g : Rec(g))
  <2> HIDE DEF Rec
  <2> QED BY <1>4
<1>6. Drained(pg, s) = (CHOOSE g : Rec(g))[N]
  BY DEF Drained
<1> DEFINE run == CHOOSE g : Rec(g)
<1>7. \A n \in 0..N : run[n] = Body(run, n)
  <2>1. Rec(run)
    BY <1>5
  <2> HIDE DEF run, Body
  <2> QED BY <2>1
<1> HIDE DEF run
<1>8. run[0] = s
  BY <1>7
<1>9. \A n \in 1..N : n \in 0..N /\ n # 0
  OBVIOUS
<1> QED BY <1>6, <1>7, <1>8, <1>9 DEF run

\* A scan from end to end.
LEMMA DrainedExact ==
  ASSUME NEW pg, NEW E, E = entries, TreeOf(pg, E), Capped(pg), NEW lo \in Bounds, NEW hi \in Bounds,
         NEW d, d = Drained(pg, OpenScan(pg, RootOf(pg), lo, hi))
  PROVE  d.done /\ Ascending(d.out) /\ Range(d.out) = {e \in E : InRange(e, lo, hi)}
<1> DEFINE R == RootOf(pg)
           s == OpenScan(pg, R, lo, hi)
           N == ScanSteps
           K == LeafCap + 2
<1>0. d = Drained(pg, s)
  OBVIOUS
<1>1. PICK rank, low, high : Tree(pg, R, E, R, R, rank, low, high)
  BY DEF TreeOf
<1>2. Promises(s) /\ Keeps(pg, E, s)
  BY OpenPromises
<1> HIDE DEF R
<1>3. /\ At(pg, s) /\ s.cur \in Leaves(pg) /\ s.next \in Nos /\ s.idx \in Nat /\ s.idx <= Len(pg[s.cur].es)
      /\ s = Scanner(pg, s.cur, s.idx, lo, hi)
      /\ \A x \in E : x \in Ahead(pg, E, s) <=> lo.none \/ ~EntryLess(x, Probe(lo))
  BY <1>1, AheadOpen
<1> HIDE DEF s
<1>4. /\ s.lo = lo /\ s.hi = hi /\ s.out = <<>> /\ s.lo0 = lo /\ s.expected = {x \in E : InRange(x, lo, hi)}
      /\ s.done = FALSE
  BY <1>3 DEF Scanner
<1>5. Exact(pg, E, s)
  <2>1. Range(s.out) = {} /\ Len(s.out) = 0 /\ 1..0 = {}
    BY <1>4 DEF Range
  <2>2. Ascending(s.out)
    BY <2>1 DEF Ascending
  <2>3. \A x \in Ahead(pg, E, s) : Above(s, x)
    BY <1>3, <1>4 DEF Above, Ahead
  <2> QED BY <1>2, <1>4, <2>1, <2>2, <2>3 DEF Exact
<1>6. N \in Nat /\ N = MaxPage * K /\ K \in Nat /\ LeafCap \in Nat /\ MaxPage \in Nat
  <2>1. K \in Nat /\ MaxPage \in Nat /\ LeafCap \in Nat
    BY ConstantsOK
  <2>2. N = MaxPage * K
    BY DEF ScanSteps
  <2> HIDE DEF K, N
  <2> QED BY <2>1, <2>2, Z3
<1>7. Left(pg, high, s) <= N /\ Left(pg, high, s) \in Int
  <2> DEFINE p == s.cur
             c == Count(pg, high, p)
             l == Len(pg[p].es)
             m == c * K
  <2>1. c \in Nat /\ c + 1 <= MaxPage /\ p # 0 /\ l \in Nat /\ l <= LeafCap
    <3>1. c \in Nat /\ c + 1 <= MaxPage
      BY <1>1, <1>3, LaterFewer
    <3>a. pg[0].type = "header"
      BY <1>1 DEF Tree, Linked, Header
    <3>2. pg[0].type = "header" /\ pg[p].type = "leaf" /\ pg[p].es \in Seq(Entries)
      BY <1>1, <1>3, <3>a, LeafFacts
    <3>3. l <= LeafCap
      BY <1>3 DEF Capped
    <3> QED BY <3>1, <3>2, <3>3
  <2>2. Left(pg, high, s) = m + (l - s.idx) + 2
    BY <2>1 DEF Left
  <2> HIDE DEF c, l, K
  <2>3. m \in Nat /\ m + K <= MaxPage * K
    BY <1>6, <2>1, Multiple
  <2> HIDE DEF m, N
  <2> QED BY <1>3, <1>6, <2>1, <2>2, <2>3 DEF K
<1>8. PICK run : Drained(pg, s) = run[N] /\ run[0] = s /\ \A n \in 1..N : run[n] = ScanStep(pg, run[n - 1])
  BY <1>6, DrainedTurns
<1> DEFINE Good(n) == /\ Exact(pg, E, run[n]) /\ run[n].lo0 = lo /\ run[n].hi = hi
                      /\ run[n].done \/ (Within(pg, run[n]) /\ Left(pg, high, run[n]) \in Int /\ Left(pg, high, run[n]) + n <= N)
           S == {n \in Nat : n <= N => Good(n)}
<1> HIDE DEF N, K
<1>9. ASSUME NEW n \in Nat, \A m \in Nat : m < n => m \in S PROVE n \in S
  <2> SUFFICES ASSUME n <= N PROVE Good(n)
    OBVIOUS
  <2>1. CASE n = 0
    <3>1. Within(pg, s)
      BY <1>3 DEF Within
    <3>2. Left(pg, high, s) + 0 <= N
      BY <1>6, <1>7
    <3> QED BY <1>4, <1>5, <1>7, <1>8, <2>1, <3>1, <3>2
  <2>2. CASE n # 0
    <3> DEFINE a == run[n - 1]
               b == run[n]
    <3>1. n - 1 \in Nat /\ n - 1 < n /\ n - 1 <= N /\ n \in 1..N
      BY <1>6, <2>2
    <3>2. Good(n - 1) /\ b = ScanStep(pg, a)
      BY <1>8, <1>9, <3>1
    <3> HIDE DEF a, b
    <3>3. /\ Exact(pg, E, a) /\ a.lo0 = lo /\ a.hi = hi
          /\ a.done \/ (Within(pg, a) /\ Left(pg, high, a) \in Int /\ Left(pg, high, a) + (n - 1) <= N)
      BY <3>2 DEF a
    <3>4. a \in Scanners /\ ~a.dead /\ Keeps(pg, E, a) /\ pg \in Files
      BY <1>1, <3>3 DEF Exact, Promises, Tree, Local
    <3>5. Exact(pg, E, b)
      BY <3>2, <3>3, TurnExact
    <3>6. b.lo0 = lo /\ b.hi = hi
      BY <3>2, <3>3, <3>4, TurnTyped
    <3>7. CASE a.done
      <4>1. b = a
        BY <3>2, <3>7 DEF ScanStep
      <4> QED BY <3>5, <3>6, <3>7, <4>1 DEF b
    <3>8. CASE ~a.done
      <4>1. At(pg, a)
        BY <3>4, <3>8 DEF Keeps
      <4>2. b.done \/ (Within(pg, b) /\ Left(pg, high, b) \in Int /\ Left(pg, high, b) + 1 <= Left(pg, high, a))
        BY <1>1, <3>2, <3>3, <3>4, <3>8, <4>1, TurnLeft
      <4>3. b.done \/ (Within(pg, b) /\ Left(pg, high, b) \in Int /\ Left(pg, high, b) + n <= N)
        <5>1. Left(pg, high, a) \in Int /\ Left(pg, high, a) + (n - 1) <= N
          BY <3>3, <3>8
        <5> DEFINE u == Left(pg, high, a)
                   v == Left(pg, high, b)
        <5>2. ASSUME v \in Int, v + 1 <= u PROVE v + n <= N
          <6>1. u \in Int /\ u + (n - 1) <= N
            BY <5>1
          <6> HIDE DEF u, v
          <6> QED BY <1>6, <5>2, <6>1
        <5> QED BY <4>2, <5>2
      <4> QED BY <3>5, <3>6, <4>3 DEF b
    <3> QED BY <3>7, <3>8
  <2> QED BY <2>1, <2>2
<1>10. Good(N)
  <2>1. \A n \in Nat : n \in S
    <3> HIDE DEF S
    <3> QED BY <1>9, Descend
  <2>2. N \in Nat /\ N <= N
    BY <1>6
  <2> QED BY <2>1, <2>2
<1>11. d = run[N]
  BY <1>0, <1>8
<1>12. Exact(pg, E, d) /\ d.lo0 = lo /\ d.hi = hi
  BY <1>10, <1>11
<1>13. d.done
  <2> SUFFICES ASSUME ~d.done PROVE FALSE
    OBVIOUS
  <2>1. Within(pg, d) /\ Left(pg, high, d) \in Int /\ Left(pg, high, d) + N <= N
    BY <1>10, <1>11
  <2>2. d \in Scanners /\ ~d.dead /\ At(pg, d)
    BY <1>12 DEF Exact, Promises, Keeps
  <2>3. Left(pg, high, d) >= 1
    BY <1>1, <2>1, <2>2, TurnLeft
  <2> QED BY <1>6, <2>1, <2>3
<1>14. Ascending(d.out) /\ Range(d.out) = {x \in E : InRange(x, lo, hi)}
  BY <1>12, <1>13 DEF Exact, Keeps
<1> QED BY <1>13, <1>14

\* BTree::insert_rec, BTreeScanner::next: a scan that nobody disturbs ends, and
\* returns the entries within its bounds, each once and in order, whatever was
\* split, rolled back, written back or reopened before, unless the file is spoilt.
THEOREM RangeScansAreExact ==
  Spec => []RangeScanExact
<1>1. ASSUME StoreInv PROVE RangeScanExact
  <2> SUFFICES ASSUME IsTree(pages[root]), NEW lo \in Bounds, NEW hi \in Bounds, NEW d,
                      d = Drained(pages, OpenScan(pages, root, lo, hi))
               PROVE  d.done /\ Ascending(d.out) /\ Range(d.out) = {e \in entries : InRange(e, lo, hi)}
    BY DEF RangeScanExact
  <2>1. root = RootOf(pages)
    BY <1>1 DEF StoreInv, IsTree, ZeroPage
  <2>2. TreeOf(pages, entries) /\ Capped(pages)
    BY <1>1 DEF StoreInv, FileOK
  <2> QED BY <2>1, <2>2, DrainedExact
<1>2. spoilt \/ StoreInv => RangeScanExact
  BY <1>1 DEF RangeScanExact
<1> QED BY <1>2, TreeInvariant, PTL

=============================================================================
