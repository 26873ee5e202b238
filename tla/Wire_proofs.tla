----------------------------- MODULE Wire_proofs -----------------------------
(***************************************************************************)
(* Proofs about Wire, for results of any width and length, any batch size  *)
(* and any number of statements, as long as no text is longer than its     *)
(* length field holds (CellsFit).                                          *)
(*                                                                         *)
(* What a batch frame carries is read back exactly (RoundTrip). So the     *)
(* client never leaves a result set early, and the frames under way are    *)
(* those of its own statement, cut out of that statement's rows one behind *)
(* the other (Inv).                                                        *)
(***************************************************************************)
EXTENDS Wire, Integers, SequenceTheorems, WellFoundedInduction, TLAPS

\* The cells to_cell makes, texts within the length field.
CellOK(c) ==
  \/ c = NullCell
  \/ \E i \in Int : c = IntCell(i)
  \/ \E n \in 0..(LengthMod - 1) : c = StringCell(n)

CellsFit == \A c \in CellValues : CellOK(c)

(* Frames under way *)

Bodies == {<<>>} \cup {<<n>> : n \in Nat} \cup {EncodeBatch(rows) : rows \in Seq(Rows)}
FrameTypes == {"notice", "ok", "error", "head", "batch", "end"}
Frames == [type : FrameTypes, body : Bodies, stmt : Nat]
Phases == {"reply", "stream", "done"}

\* A frame that answers statement s, whose rows are P, takes a client that is in
\* phase a and has c rows to phase a2 and c2 rows.
Hop(f, P, s, a, c, a2, c2) ==
  /\ f.stmt = s /\ a \in {"reply", "stream"}
  /\ \/ f.type = "notice" /\ a2 = a /\ c2 = c
     \/ f.type = "ok" /\ a = "reply" /\ a2 = "done" /\ c2 = c
     \/ f.type = "error" /\ a2 = "done" /\ c2 = c
     \/ f.type = "head" /\ a = "reply" /\ a2 = "stream" /\ c2 = c
     \/ /\ f.type = "batch" /\ a = "stream" /\ a2 = "stream" /\ c <= c2 /\ c2 <= Len(P)
        /\ f.body = EncodeBatch(SubSeq(P, c + 1, c2))
     \/ f.type = "end" /\ a = "stream" /\ a2 = "done" /\ c2 = c /\ c = Len(P) /\ f.body = <<c>>

\* The frames q do so one after the other.
Way(q, P, s, a, c, a2, c2) ==
  /\ q \in Seq(Frames)
  /\ \E at \in [0..Len(q) -> Phases], cut \in [0..Len(q) -> Nat] :
       /\ at[0] = a /\ cut[0] = c /\ at[Len(q)] = a2 /\ cut[Len(q)] = c2
       /\ \A i \in 1..Len(q) : Hop(q[i], P, s, at[i - 1], cut[i - 1], at[i], cut[i])

(* The invariant *)

Replying == cpc \in {"reply", "stream"}
Given == pulled[cstmt]
Refusal == <<Frame("error", <<>>, 0)>>

Types ==
  /\ cstmt \in 0..MaxStmts /\ cpc \in {"idle", "reply", "stream", "gone"}
  /\ notices \in BOOLEAN /\ rs \in Seq(Rows) /\ pulled \in [1..MaxStmts -> Seq(Rows)]
  /\ link \in {"waiting", "open", "closed"}
  /\ spc \in {"accept", "recv", "parse", "exec", "stream", "gone"}
  /\ link = "waiting" <=> spc = "accept"
  /\ link = "closed" <=> spc = "gone"

\* A client that waits for nothing: the session has nothing in hand.
Rest ==
  ~Replying =>
    /\ spc \in {"accept", "recv", "gone"}
    /\ cpc = "idle" /\ link # "closed" => toServer = <<>> /\ toClient = <<>>
    /\ cpc = "idle" /\ link = "closed" => toClient \in {<<>>, Refusal}
    /\ cpc = "gone" /\ link # "closed" => toServer = <<Frame("quit", <<>>, cstmt)>>

\* A client that waits: its query is still under way, ...
Sent ==
  /\ link # "closed" /\ spc \in {"accept", "recv"} /\ cpc = "reply" /\ Given = <<>>
  /\ toServer = <<Frame("query", <<>>, cstmt)>> /\ toClient = <<>>

\* ... or the session has it, and the frames under way bring the client to
\* where the session is, ...
Reached(a, c) ==
  \/ spc \in {"parse", "exec"} /\ a = "reply" /\ c = 0 /\ Given = <<>>
  \/ /\ spc = "stream" /\ a = "stream" /\ c <= Len(Given)
     /\ batch = SubSeq(Given, c + 1, Len(Given)) /\ total = Len(Given)
  \/ spc = "recv" /\ a = "done"

InHand ==
  /\ link = "open" /\ toServer = <<>> /\ sstmt = cstmt
  /\ \E a \in Phases, c \in Nat : Way(toClient, Given, cstmt, cpc, Len(rs), a, c) /\ Reached(a, c)

\* ... or the line is cut and frames may be missing at the end, or was refused.
CutOff ==
  /\ link = "closed"
  /\ \E a \in Phases, c \in Nat : Way(toClient, Given, cstmt, cpc, Len(rs), a, c)

Refused == link = "closed" /\ cpc = "reply" /\ toClient = Refusal

Wait ==
  Replying =>
    /\ cstmt >= 1 /\ Len(rs) <= Len(Given) /\ rs = SubSeq(Given, 1, Len(rs))
    /\ cpc = "reply" => rs = <<>>
    /\ Sent \/ InHand \/ CutOff \/ Refused

\* What the client made of its statements.
Verdicts ==
  /\ \A s \in 1..MaxStmts : s > cstmt => pulled[s] = <<>>
  /\ verdict.kind # "none" =>
       /\ verdict.stmt \in 1..cstmt /\ verdict.from \in {verdict.stmt, 0}
       /\ Replying => verdict.stmt # cstmt
  /\ verdict.kind = "rows" => verdict.rows = pulled[verdict.stmt]

Inv == Types /\ Rest /\ Wait /\ Verdicts

-----------------------------------------------------------------------------
(* Induction and arithmetic *)

\* Induction over a range of numbers: a set that has 0 and with every number
\* the next has all.
LEMMA UpTo ==
  ASSUME NEW N \in Nat, NEW S, 0 \in S, \A i \in 1..N : i - 1 \in S => i \in S
  PROVE  \A i \in 0..N : i \in S
<1> SUFFICES ASSUME NEW n \in 0..N, n \notin S PROVE FALSE
  OBVIOUS
<1> DEFINE T == {i \in 0..N : i \notin S}
<1>1. T \subseteq Nat /\ T # {}
  OBVIOUS
<1>2. PICK x \in T : \A y \in T : ~(<<y, x>> \in OpToRel(<, Nat))
  <2> HIDE DEF T
  <2> QED BY <1>1, NatLessThanWellFounded, WFMin, Zenon
<1>3. \A y \in T : ~(<<y, x>> \in {ss \in Nat \X Nat : ss[1] < ss[2]})
  BY <1>2 DEF OpToRel
<1>4. \A y \in T : ~(y < x)
  BY <1>1, <1>3
<1>5. x \in 0..N /\ x \notin S
  OBVIOUS
<1>6. x \in 1..N /\ x - 1 \in 0..N /\ x - 1 < x
  <2>1. x # 0
    BY <1>5
  <2> QED BY <1>5, <2>1
<1>7. x - 1 \in S
  BY <1>4, <1>6
<1> QED BY <1>5, <1>6, <1>7

\* Quotient and remainder.
LEMMA DivMod ==
  ASSUME NEW q \in Nat, NEW c \in Nat, NEW m \in Nat, m < c
  PROVE  (q * c + m) \div c = q /\ (q * c + m) % c = m
<1> DEFINE x == q * c + m
           d == x \div c
           r == x % c
<1>1. d \in Nat /\ r \in Nat /\ r < c /\ x = d * c + r
  OBVIOUS
<1> HIDE DEF d, r
<1>2. ~(d > q)
  <2> SUFFICES ASSUME d > q PROVE FALSE
    OBVIOUS
  <2>1. d * c >= (q + 1) * c
    BY <1>1
  <2> QED BY <1>1, <2>1
<1>3. ~(d < q)
  <2> SUFFICES ASSUME d < q PROVE FALSE
    OBVIOUS
  <2>1. q * c >= (d + 1) * c
    BY <1>1
  <2> QED BY <1>1, <2>1
<1>4. d = q
  BY <1>1, <1>2, <1>3
<1>5. r = m
  BY <1>1, <1>4
<1> QED BY <1>4, <1>5 DEF d, r

-----------------------------------------------------------------------------
(* Cells and batches *)

\* What append_cell writes of a cell.
LEMMA CellBytes ==
  ASSUME NEW c, CellOK(c)
  PROVE  /\ AppendCell(c) \in Seq(Int) /\ Len(AppendCell(c)) >= 1
         /\ \/ c = NullCell /\ AppendCell(c) = <<NULLTag>>
            \/ \E i \in Int : c = IntCell(i) /\ AppendCell(c) = <<IntTag, i>>
            \/ \E n \in Nat : /\ c = StringCell(n) /\ Len(AppendCell(c)) = n + 2
                              /\ AppendCell(c)[1] = StringTag /\ AppendCell(c)[2] = n
<1> USE DEF NULLTag, IntTag, StringTag
<1>1. CASE c = NullCell
  BY <1>1 DEF NullCell, AppendCell
<1>2. ASSUME NEW i \in Int, c = IntCell(i)
      PROVE  AppendCell(c) = <<IntTag, i>> /\ AppendCell(c) \in Seq(Int) /\ Len(AppendCell(c)) >= 1
  BY <1>2 DEF IntCell, AppendCell
<1>3. ASSUME NEW n \in 0..(LengthMod - 1), c = StringCell(n)
      PROVE  /\ n \in Nat /\ AppendCell(c) \in Seq(Int) /\ Len(AppendCell(c)) = n + 2
             /\ AppendCell(c)[1] = StringTag /\ AppendCell(c)[2] = n
  <2>1. n \in Nat /\ n < LengthMod /\ LengthMod \in Nat
    BY <1>3, WireConstants
  <2>2. (0 * LengthMod + n) % LengthMod = n
    BY <2>1, DivMod
  <2>3. n % LengthMod = n
    BY <2>1, <2>2
  <2> DEFINE text == [i \in 1..n |-> DataByte]
  <2>4. text \in Seq(Int) /\ Len(text) = n
    BY <2>1 DEF DataByte
  <2>5. AppendCell(c) = <<StringTag, n % LengthMod>> \o text
    BY <1>3 DEF StringCell, AppendCell
  <2> HIDE DEF text
  <2>6. <<StringTag, n>> \in Seq(Int) /\ Len(<<StringTag, n>>) = 2
    BY <2>1
  <2> QED BY <2>1, <2>3, <2>4, <2>5, <2>6
<1> QED BY <1>1, <1>2, <1>3 DEF CellOK

\* take_cell reads what append_cell wrote, and no more.
LEMMA TakesCell ==
  ASSUME NEW c, CellOK(c), NEW body \in Seq(Int), NEW off \in Nat,
         off + Len(AppendCell(c)) <= Len(body),
         \A j \in 1..Len(AppendCell(c)) : body[off + j] = AppendCell(c)[j]
  PROVE  TakeCell(body, off) = Took(off + Len(AppendCell(c)), c)
<1> DEFINE a == AppendCell(c)
<1> USE DEF NULLTag, IntTag, StringTag
<1>1. a \in Seq(Int) /\ Len(a) >= 1 /\ Len(a) \in Nat /\ Len(body) \in Nat
  BY CellBytes
<1>2. ~(off >= Len(body)) /\ body[off + 1] = a[1]
  <2>1. 1 \in 1..Len(a)
    BY <1>1
  <2>2. body[off + 1] = a[1]
    BY <2>1
  <2> QED BY <1>1, <2>2
<1>3. CASE c = NullCell /\ a = <<NULLTag>>
  BY <1>2, <1>3 DEF TakeCell
<1>4. ASSUME NEW i \in Int, c = IntCell(i), a = <<IntTag, i>>
      PROVE  TakeCell(body, off) = Took(off + Len(a), c)
  <2>1. Len(a) = 2 /\ a[1] = IntTag /\ a[2] = i
    BY <1>4
  <2>2. off + 2 <= Len(body) /\ body[off + 2] = i /\ body[off + 1] = IntTag
    BY <1>2, <2>1
  <2> HIDE DEF a
  <2> QED BY <1>2, <1>4, <2>1, <2>2 DEF TakeCell
<1>5. ASSUME NEW n \in Nat, c = StringCell(n), Len(a) = n + 2, a[1] = StringTag, a[2] = n
      PROVE  TakeCell(body, off) = Took(off + Len(a), c)
  <2>1. body[off + 1] = StringTag /\ body[off + 2] = n /\ off + 2 + n <= Len(body) /\ off + 2 <= Len(body)
    BY <1>2, <1>5
  <2> HIDE DEF a
  <2>2. TakeCell(body, off) = Took(off + 2 + n, StringCell(n))
    BY <1>2, <2>1 DEF TakeCell
  <2>3. off + Len(a) = off + 2 + n
    BY <1>5
  <2> QED BY <1>5, <2>2, <2>3
<1> QED BY <1>3, <1>4, <1>5, CellBytes

\* encode_rs_batch puts the cells one behind the other.
LEMMA EncodesCells ==
  ASSUME NEW rows, NEW N \in Nat, N = Len(rows) * Cols,
         \A i \in 1..N : AppendCell(CellAt(rows, i)) \in Seq(Int)
  PROVE  \E enc \in [0..N -> Seq(Int)] :
           /\ EncodeBatch(rows) = <<Len(rows)>> \o enc[N] /\ enc[0] = <<>>
           /\ \A i \in 1..N : enc[i] = enc[i - 1] \o AppendCell(CellAt(rows, i))
<1> DEFINE a(i) == AppendCell(CellAt(rows, i))
           Upto(n, f) == /\ f \in [0..n -> Seq(Int)] /\ f[0] = <<>>
                         /\ \A i \in 1..n : f[i] = f[i - 1] \o a(i)
           S == {n \in 0..N : \E f : Upto(n, f)}
<1> HIDE DEF a
<1>0. \A i \in 1..N : a(i) \in Seq(Int)
  BY DEF a
<1>1. 0 \in S
  <2>1. Upto(0, [i \in 0..0 |-> <<>>])
    OBVIOUS
  <2> HIDE DEF Upto
  <2> QED BY <2>1
<1>2. ASSUME NEW n \in 1..N, n - 1 \in S PROVE n \in S
  <2>1. PICK g : Upto(n - 1, g)
    BY <1>2
  <2>0. n - 1 \in 0..(n - 1) /\ n \in 0..n /\ n - 1 # n
    OBVIOUS
  <2> DEFINE f == [i \in 0..n |-> IF i = n THEN g[n - 1] \o a(n) ELSE g[i]]
  <2>2. f \in [0..n -> Seq(Int)]
    BY <1>0, <2>1
  <2>3. f[0] = <<>>
    <3>1. f[0] = g[0]
      OBVIOUS
    <3> QED BY <2>1, <3>1
  <2>4. \A i \in 1..n : f[i] = f[i - 1] \o a(i)
    <3> TAKE i \in 1..n
    <3>1. CASE i = n
      <4>1. f[n] = g[n - 1] \o a(n) /\ f[n - 1] = g[n - 1]
        BY <2>0
      <4> QED BY <3>1, <4>1
    <3>2. CASE i # n
      <4>1. i \in 1..(n - 1) /\ i - 1 \in 0..n /\ i - 1 # n
        BY <3>2
      <4>2. g[i] = g[i - 1] \o a(i)
        BY <2>1, <4>1
      <4>3. f[i] = g[i] /\ f[i - 1] = g[i - 1]
        BY <3>2, <4>1
      <4> QED BY <4>2, <4>3
    <3> QED BY <3>1, <3>2
  <2> HIDE DEF f
  <2>5. Upto(n, f)
    BY <2>2, <2>3, <2>4
  <2> HIDE DEF Upto
  <2> QED BY <2>5
<1>3. N \in S
  <2> HIDE DEF S
  <2>1. \A i \in 0..N : i \in S
    BY <1>1, <1>2, UpTo
  <2> QED BY <2>1
<1>4. PICK f : Upto(N, f)
  BY <1>3
<1> DEFINE Rec(g) == g = [i \in 0..N |-> IF i = 0 THEN <<>> ELSE g[i - 1] \o a(i)]
<1>5. Rec(f)
  <2>1. f = [i \in 0..N |-> f[i]]
    BY <1>4
  <2>2. \A i \in 0..N : f[i] = IF i = 0 THEN <<>> ELSE f[i - 1] \o a(i)
    BY <1>4
  <2> QED BY <2>1, <2>2
<1>6. PICK enc : Rec(enc) /\ EncodeBatch(rows) = <<Len(rows)>> \o enc[N]
  <2>1. Rec(CHOOSE g : Rec(g))
    <3> HIDE DEF Rec
    <3> QED BY <1>5
  <2>2. EncodeBatch(rows) = <<Len(rows)>> \o (CHOOSE g : Rec(g))[N]
    BY DEF EncodeBatch, a
  <2> HIDE DEF Rec
  <2> QED BY <2>1, <2>2
<1>7. \A i \in 0..N : enc[i] = IF i = 0 THEN <<>> ELSE enc[i - 1] \o a(i)
  BY <1>6
<1>8. enc[0] = <<>> /\ \A i \in 1..N : enc[i] = enc[i - 1] \o a(i)
  <2>1. 0 \in 0..N /\ \A i \in 1..N : i \in 0..N /\ i # 0
    OBVIOUS
  <2> QED BY <1>7, <2>1, Zenon
<1>9. \A i \in 0..N : enc[i] \in Seq(Int)
  <2> DEFINE E == {i \in 0..N : enc[i] \in Seq(Int)}
  <2>1. 0 \in E
    <3>1. enc[0] \in Seq(Int)
      BY <1>8
    <3> QED BY <3>1
  <2>2. ASSUME NEW i \in 1..N, i - 1 \in E PROVE i \in E
    <3>1. i \in 0..N /\ enc[i - 1] \in Seq(Int) /\ enc[i] = enc[i - 1] \o a(i) /\ a(i) \in Seq(Int)
      BY <1>0, <1>8, <2>2
    <3>2. enc[i] \in Seq(Int)
      BY <3>1
    <3> QED BY <3>1, <3>2
  <2>3. \A i \in 0..N : i \in E
    <3> HIDE DEF E
    <3> QED BY <2>1, <2>2, UpTo
  <2> QED BY <2>3
<1>10. enc = [i \in 0..N |-> enc[i]]
  BY <1>6
<1>11. enc \in [0..N -> Seq(Int)]
  BY <1>9, <1>10
<1> QED BY <1>6, <1>8, <1>11 DEF a

\* What is behind the first of two sequences is the second.
LEMMA ConcatRight ==
  ASSUME NEW b \in Seq(Int), NEW c \in Seq(Int), NEW j \in 1..Len(c)
  PROVE  (b \o c)[Len(b) + j] = c[j]
<1>1. Len(b) \in Nat /\ Len(c) \in Nat
  OBVIOUS
<1>2. j \in Nat /\ 1 <= j /\ j <= Len(c)
  BY <1>1
<1>3. Len(b) + j \in 1..(Len(b) + Len(c)) /\ ~(Len(b) + j <= Len(b)) /\ (Len(b) + j) - Len(b) = j
  BY <1>1, <1>2
<1> QED BY <1>3, ConcatProperties

\* Each cell's bytes are in the batch, behind those of the cells before it.
LEMMA BytesInPlace ==
  ASSUME NEW N \in Nat, NEW enc \in [0..N -> Seq(Int)], NEW a \in [1..N -> Seq(Int)],
         \A i \in 1..N : enc[i] = enc[i - 1] \o a[i]
  PROVE  \A i \in 1..N : /\ Len(enc[i]) = Len(enc[i - 1]) + Len(a[i]) /\ Len(enc[i]) <= Len(enc[N])
                         /\ \A j \in 1..Len(a[i]) : enc[N][Len(enc[i - 1]) + j] = a[i][j]
<1> DEFINE S(i) == {k \in Nat : i + k <= N => /\ Len(enc[i]) <= Len(enc[i + k])
                                              /\ \A j \in 1..Len(enc[i]) : enc[i + k][j] = enc[i][j]}
<1>1. ASSUME NEW i \in 0..N PROVE \A k \in 0..N : k \in S(i)
  <2>0. enc[i] \in Seq(Int)
    OBVIOUS
  <2>1. 0 \in S(i)
    <3>1. i + 0 = i /\ Len(enc[i]) \in Nat
      BY <2>0
    <3> QED BY <3>1
  <2>2. ASSUME NEW k \in 1..N, k - 1 \in S(i) PROVE k \in S(i)
    <3> SUFFICES ASSUME i + k <= N
                 PROVE  /\ Len(enc[i]) <= Len(enc[i + k])
                        /\ \A j \in 1..Len(enc[i]) : enc[i + k][j] = enc[i][j]
      OBVIOUS
    <3> DEFINE b == enc[i + (k - 1)]
               c == a[i + k]
    <3>1. i + k \in 1..N /\ (i + k) - 1 = i + (k - 1) /\ i + (k - 1) \in 0..N /\ i + (k - 1) <= N
      OBVIOUS
    <3>2. enc[i + k] = b \o c /\ b \in Seq(Int) /\ c \in Seq(Int)
      BY <3>1
    <3>3. Len(enc[i]) <= Len(b) /\ \A j \in 1..Len(enc[i]) : b[j] = enc[i][j]
      BY <2>2, <3>1
    <3> HIDE DEF b, c
    <3> QED BY <2>0, <3>2, <3>3, SMTT(30)
  <2> HIDE DEF S
  <2> QED BY <2>1, <2>2, UpTo
<1>2. ASSUME NEW i \in 1..N
      PROVE  /\ Len(enc[i]) = Len(enc[i - 1]) + Len(a[i]) /\ Len(enc[i]) <= Len(enc[N])
             /\ \A j \in 1..Len(a[i]) : enc[N][Len(enc[i - 1]) + j] = a[i][j]
  <2>1. i - 1 \in 0..N /\ i \in 0..N /\ N - i \in 0..N /\ i + (N - i) = N /\ N \in 0..N
    OBVIOUS
  <2>2. enc[i - 1] \in Seq(Int) /\ enc[i] \in Seq(Int) /\ a[i] \in Seq(Int) /\ enc[N] \in Seq(Int)
        /\ enc[i] = enc[i - 1] \o a[i]
    BY <2>1
  <2>3. N - i \in S(i)
    <3> HIDE DEF S
    <3> QED BY <1>1, <2>1
  <2>4. Len(enc[i]) <= Len(enc[N]) /\ \A j \in 1..Len(enc[i]) : enc[N][j] = enc[i][j]
    BY <2>1, <2>3
  <2>5. Len(enc[i]) = Len(enc[i - 1]) + Len(a[i]) /\ Len(a[i]) \in Nat /\ Len(enc[i - 1]) \in Nat
    BY <2>2
  <2>6. ASSUME NEW j \in 1..Len(a[i]) PROVE enc[N][Len(enc[i - 1]) + j] = a[i][j]
    <3>1. Len(enc[i - 1]) + j \in 1..Len(enc[i])
      BY <2>5
    <3>2. enc[i][Len(enc[i - 1]) + j] = a[i][j]
      BY <2>2, ConcatRight
    <3> QED BY <2>4, <3>1, <3>2
  <2> QED BY <2>4, <2>5, <2>6
<1> QED BY <1>2

\* decode_rs_batch takes cell after cell.
LEMMA DecodesCells ==
  ASSUME NEW body, NEW n \in Nat, n = body[1] * Cols, NEW f,
         f = [i \in 0..n |-> f[i]], f[0] = [ok |-> TRUE, off |-> 1, cells |-> <<>>],
         \A i \in 1..n : f[i] = TakeNext(body, f[i - 1])
  PROVE  LET ok == f[n].ok /\ f[n].off = Len(body)
         IN DecodeBatch(body) =
              [ok   |-> ok,
               rows |-> IF ok THEN [r \in 1..body[1] |-> SubSeq(f[n].cells, (r - 1) * Cols + 1, r * Cols)]
                              ELSE <<>>]
<1> DEFINE start == [ok |-> TRUE, off |-> 1, cells |-> <<>>]
           Rec(g) == g = [i \in 0..n |-> IF i = 0 THEN start ELSE TakeNext(body, g[i - 1])]
           dec == CHOOSE g : Rec(g)
<1> HIDE DEF start
<1>0. 0 \in 0..n /\ \A i \in 1..n : i \in 0..n /\ i # 0
  OBVIOUS
<1>1. Rec(f)
  <2>1. \A i \in 0..n : f[i] = IF i = 0 THEN start ELSE TakeNext(body, f[i - 1])
    <3>1. f[0] = start
      BY DEF start
    <3>2. \A i \in 0..n : i # 0 => i \in 1..n
      OBVIOUS
    <3> QED BY <3>1, <3>2, Zenon
  <2>2. f = [i \in 0..n |-> f[i]]
    OBVIOUS
  <2> QED BY <2>1, <2>2
<1>2. \A g : Rec(g) => g = f
  <2> SUFFICES ASSUME NEW g, Rec(g) PROVE g = f
    OBVIOUS
  <2>1. \A i \in 0..n : g[i] = IF i = 0 THEN start ELSE TakeNext(body, g[i - 1])
    OBVIOUS
  <2>2. g[0] = start /\ \A i \in 1..n : g[i] = TakeNext(body, g[i - 1])
    BY <1>0, <2>1, Zenon
  <2> DEFINE S == {i \in 0..n : g[i] = f[i]}
  <2>3. 0 \in S
    BY <1>0, <2>2 DEF start
  <2>4. \A i \in 1..n : i - 1 \in S => i \in S
    BY <1>0, <2>2
  <2>5. \A i \in 0..n : i \in S
    <3> HIDE DEF S
    <3> QED BY <2>3, <2>4, UpTo
  <2>6. g = [i \in 0..n |-> g[i]] /\ f = [i \in 0..n |-> f[i]]
    OBVIOUS
  <2> QED BY <2>5, <2>6
<1>3. dec = f
  <2> HIDE DEF Rec
  <2> QED BY <1>1, <1>2
<1>4. LET ok == dec[n].ok /\ dec[n].off = Len(body)
      IN DecodeBatch(body) =
           [ok   |-> ok,
            rows |-> IF ok THEN [r \in 1..body[1] |-> SubSeq(dec[n].cells, (r - 1) * Cols + 1, r * Cols)]
                           ELSE <<>>]
  BY DEF DecodeBatch, start
<1> HIDE DEF dec
<1> QED BY <1>3, <1>4

\* The place of a cell in its row.
LEMMA CellPlace ==
  ASSUME NEW rows \in Seq(Rows), NEW i \in 1..(Len(rows) * Cols)
  PROVE  CellAt(rows, i) \in CellValues
<1> DEFINE q == (i - 1) \div Cols
           m == (i - 1) % Cols
<1>1. Cols \in Nat /\ Len(rows) \in Nat /\ Len(rows) * Cols \in Nat
  BY WireConstants
<1>2. Cols > 0 /\ i - 1 \in Nat /\ i - 1 < Len(rows) * Cols
  <2>1. i >= 1 /\ i <= Len(rows) * Cols
    BY <1>1
  <2>2. Cols # 0
    BY <1>1, <2>1
  <2> QED BY <1>1, <2>1, <2>2
<1>3. q \in Nat /\ m \in Nat /\ m < Cols /\ i - 1 = q * Cols + m
  BY <1>1, <1>2
<1> HIDE DEF q, m
<1>4. q < Len(rows)
  <2> SUFFICES ASSUME q >= Len(rows) PROVE FALSE
    BY <1>1, <1>3
  <2>1. q * Cols >= Len(rows) * Cols
    BY <1>1, <1>3
  <2> QED BY <1>1, <1>2, <1>3, <2>1
<1>5. q + 1 \in 1..Len(rows) /\ m + 1 \in 1..Cols
  BY <1>1, <1>3, <1>4
<1>6. rows[q + 1][m + 1] \in CellValues
  <2>1. rows[q + 1] \in Rows
    BY <1>5
  <2> QED BY <1>5, <2>1 DEF Rows
<1> QED BY <1>6 DEF CellAt, q, m

\* The row r has its cells at (r - 1) * Cols + 1 to r * Cols.
LEMMA CellsOfRow ==
  ASSUME NEW rows \in Seq(Rows), NEW r \in 1..Len(rows), NEW k \in 1..Cols
  PROVE  /\ (r - 1) * Cols + k \in 1..(Len(rows) * Cols)
         /\ CellAt(rows, (r - 1) * Cols + k) = rows[r][k]
<1>1. Cols \in Nat /\ Len(rows) \in Nat
  BY WireConstants
<1>2. r - 1 \in Nat /\ k - 1 \in Nat /\ k - 1 < Cols /\ r \in Nat /\ k \in Nat
  BY <1>1
<1>3. ((r - 1) * Cols + (k - 1)) \div Cols = r - 1 /\ ((r - 1) * Cols + (k - 1)) % Cols = k - 1
  BY <1>1, <1>2, DivMod
<1>4. (r - 1) * Cols \in Nat /\ ((r - 1) * Cols + k) - 1 = (r - 1) * Cols + (k - 1)
  BY <1>1, <1>2
<1>5. CellAt(rows, (r - 1) * Cols + k) = rows[(r - 1) + 1][(k - 1) + 1]
  BY <1>3, <1>4 DEF CellAt
<1>6. (r - 1) * Cols + k <= Len(rows) * Cols
  <2>1. (r - 1) * Cols + Cols = r * Cols
    BY <1>1, <1>2
  <2>2. r * Cols <= Len(rows) * Cols
    BY <1>1, <1>2
  <2>3. r * Cols \in Nat /\ Len(rows) * Cols \in Nat
    BY <1>1, <1>2
  <2> QED BY <1>1, <1>2, <1>4, <2>1, <2>2, <2>3
<1>7. (r - 1) + 1 = r /\ (k - 1) + 1 = k /\ (r - 1) * Cols + k >= 1
  BY <1>2, <1>4
<1> QED BY <1>1, <1>4, <1>5, <1>6, <1>7

\* One row more in the list of cells.
LEMMA CellsGrow ==
  ASSUME NEW rows \in Seq(Rows), NEW i \in 1..(Len(rows) * Cols)
  PROVE  Append([j \in 1..(i - 1) |-> CellAt(rows, j)], CellAt(rows, i)) = [j \in 1..i |-> CellAt(rows, j)]
<1> DEFINE s == [j \in 1..(i - 1) |-> CellAt(rows, j)]
           t == [j \in 1..i |-> CellAt(rows, j)]
<1>0. Len(rows) * Cols \in Nat
  BY WireConstants
<1>1. i \in Nat /\ i - 1 \in Nat /\ \A j \in 1..i : j \in 1..(Len(rows) * Cols)
  BY <1>0
<1>2. \A j \in 1..i : CellAt(rows, j) \in CellValues
  BY <1>1, CellPlace
<1>3. s \in Seq(CellValues) /\ Len(s) = i - 1
  BY <1>1, <1>2
<1>4. t \in Seq(CellValues) /\ Len(t) = i
  BY <1>1, <1>2
<1>5. CellAt(rows, i) \in CellValues
  BY <1>1, <1>2
<1> DEFINE u == Append(s, CellAt(rows, i))
<1>6. /\ u \in Seq(CellValues) /\ Len(u) = i /\ u[i] = CellAt(rows, i)
      /\ \A j \in 1..(i - 1) : u[j] = s[j]
  <2> HIDE DEF s
  <2> QED BY <1>1, <1>3, <1>5
<1>7. ASSUME NEW j \in 1..i PROVE u[j] = t[j]
  <2>1. CASE j = i
    BY <1>6, <2>1
  <2>2. CASE j # i
    <3>1. j \in 1..(i - 1)
      BY <1>1, <2>2
    <3>2. s[j] = CellAt(rows, j)
      BY <3>1
    <3> HIDE DEF u
    <3> QED BY <1>6, <3>1, <3>2
  <2> QED BY <2>1, <2>2
<1> HIDE DEF s, t, u
<1>8. u = t
  BY <1>4, <1>6, <1>7, SeqEqual
<1> QED BY <1>8 DEF s, t, u

\* The rows of a batch are read back as they were written, whatever cells they
\* hold (encode_rs_batch, decode_rs_batch).
THEOREM RoundTrip ==
  ASSUME CellsFit, NEW rows \in Seq(Rows)
  PROVE  DecodeBatch(EncodeBatch(rows)) = [ok |-> TRUE, rows |-> rows]
<1> DEFINE N == Len(rows) * Cols
           cell(i) == CellAt(rows, i)
           a == [i \in 1..N |-> AppendCell(cell(i))]
           body == EncodeBatch(rows)
<1>1. N \in Nat /\ Len(rows) \in Nat /\ Cols \in Nat
  BY WireConstants
<1>2. \A i \in 1..N : cell(i) \in CellValues /\ CellOK(cell(i)) /\ AppendCell(cell(i)) \in Seq(Int)
  BY CellPlace, CellBytes DEF CellsFit
<1>3. PICK enc \in [0..N -> Seq(Int)] :
           /\ body = <<Len(rows)>> \o enc[N] /\ enc[0] = <<>>
           /\ \A i \in 1..N : enc[i] = enc[i - 1] \o AppendCell(cell(i))
  BY <1>1, <1>2, EncodesCells
<1> HIDE DEF N, cell, body
<1>4. a \in [1..N -> Seq(Int)] /\ \A i \in 1..N : a[i] = AppendCell(cell(i))
  BY <1>2
<1> HIDE DEF a
<1>5. \A i \in 1..N : /\ Len(enc[i]) = Len(enc[i - 1]) + Len(a[i]) /\ Len(enc[i]) <= Len(enc[N])
                      /\ \A j \in 1..Len(a[i]) : enc[N][Len(enc[i - 1]) + j] = a[i][j]
  <2>1. \A i \in 1..N : enc[i] = enc[i - 1] \o a[i]
    BY <1>3, <1>4
  <2> QED BY <1>1, <1>4, <2>1, BytesInPlace
<1>6. \A i \in 0..N : Len(enc[i]) \in Nat /\ enc[i] \in Seq(Int)
  OBVIOUS
<1>7. /\ body \in Seq(Int) /\ Len(body) = 1 + Len(enc[N]) /\ body[1] = Len(rows)
      /\ \A j \in 1..Len(enc[N]) : body[1 + j] = enc[N][j]
  <2> DEFINE h == <<Len(rows)>>
             e == enc[N]
  <2>1. h \in Seq(Int) /\ Len(h) = 1 /\ h[1] = Len(rows)
    BY <1>1
  <2>2. e \in Seq(Int) /\ Len(e) \in Nat /\ body = h \o e
    BY <1>1, <1>3, <1>6
  <2> HIDE DEF h, e
  <2>3. /\ h \o e \in Seq(Int) /\ Len(h \o e) = Len(h) + Len(e)
        /\ \A i \in 1..(Len(h) + Len(e)) : (h \o e)[i] = IF i <= Len(h) THEN h[i] ELSE e[i - Len(h)]
    <3>1. h \in Seq(Int) /\ e \in Seq(Int)
      BY <2>1, <2>2
    <3> QED BY <3>1, ConcatProperties, Zenon
  <2>4. body[1] = Len(rows)
    BY <2>1, <2>2, <2>3
  <2>5. \A j \in 1..Len(e) : body[1 + j] = e[j]
    BY <2>1, <2>2, ConcatRight
  <2> QED BY <2>1, <2>2, <2>3, <2>4, <2>5 DEF e
<1> DEFINE cells(i) == [j \in 1..i |-> cell(j)]
           f == [i \in 0..N |-> [ok |-> TRUE, off |-> 1 + Len(enc[i]), cells |-> cells(i)]]
<1>8. ASSUME NEW i \in 1..N PROVE f[i] = TakeNext(body, f[i - 1])
  <2> DEFINE off == 1 + Len(enc[i - 1])
  <2>1. i - 1 \in 0..N /\ i \in 0..N
    BY <1>1
  <2>2. /\ off \in Nat /\ Len(a[i]) \in Nat /\ off + Len(a[i]) = 1 + Len(enc[i])
        /\ off + Len(a[i]) <= Len(body) /\ Len(enc[N]) \in Nat
    BY <1>1, <1>4, <1>5, <1>6, <1>7, <2>1, SMTT(30)
  <2>3. \A j \in 1..Len(a[i]) : body[off + j] = a[i][j]
    <3> TAKE j \in 1..Len(a[i])
    <3>1. Len(enc[i - 1]) \in Nat /\ j \in Nat /\ j >= 1 /\ j <= Len(a[i])
      BY <1>6, <2>1, <2>2
    <3>2. Len(enc[i - 1]) + j \in 1..Len(enc[N]) /\ off + j = 1 + (Len(enc[i - 1]) + j)
      <4>1. Len(enc[i - 1]) + Len(a[i]) <= Len(enc[N])
        BY <1>5
      <4> DEFINE x == Len(enc[i - 1])
                 y == Len(enc[N])
                 z == Len(a[i])
      <4>2. x \in Nat /\ y \in Nat /\ z \in Nat /\ j \in Nat /\ j >= 1 /\ j <= z /\ x + z <= y
        BY <2>2, <3>1, <4>1
      <4> HIDE DEF x, y, z
      <4>3. x + j \in 1..y /\ (1 + x) + j = 1 + (x + j)
        BY <4>2
      <4> QED BY <4>3 DEF x, y
    <3>3. body[1 + (Len(enc[i - 1]) + j)] = enc[N][Len(enc[i - 1]) + j]
      BY <1>7, <3>2
    <3> QED BY <1>5, <3>2, <3>3
  <2> HIDE DEF off
  <2>4. TakeCell(body, off) = Took(off + Len(a[i]), cell(i))
    BY <1>2, <1>4, <1>7, <2>2, <2>3, TakesCell
  <2>5. f[i - 1] = [ok |-> TRUE, off |-> off, cells |-> cells(i - 1)]
    BY <2>1 DEF off
  <2>6. f[i] = [ok |-> TRUE, off |-> off + Len(a[i]), cells |-> cells(i)]
    BY <2>1, <2>2
  <2>7. Append(cells(i - 1), cell(i)) = cells(i)
    BY CellsGrow DEF N, cell
  <2> HIDE DEF f, cells
  <2> DEFINE t == TakeCell(body, off)
  <2>9. t.ok = TRUE /\ t.off = off + Len(a[i]) /\ t.cell = cell(i)
    BY <2>4 DEF Took
  <2>10. f[i - 1].ok = TRUE /\ f[i - 1].off = off /\ f[i - 1].cells = cells(i - 1)
    BY <2>5
  <2> HIDE DEF t
  <2>8. TakeNext(body, f[i - 1]) = [ok |-> TRUE, off |-> off + Len(a[i]), cells |-> Append(cells(i - 1), cell(i))]
    BY <2>9, <2>10 DEF TakeNext, t
  <2> QED BY <2>6, <2>7, <2>8
<1>9. f[0] = [ok |-> TRUE, off |-> 1, cells |-> <<>>]
  <2>1. Len(enc[0]) = 0 /\ 0 \in 0..N
    BY <1>1, <1>3
  <2>2. cells(0) = <<>>
    OBVIOUS
  <2>3. f[0] = [ok |-> TRUE, off |-> 1 + Len(enc[0]), cells |-> cells(0)]
    BY <2>1
  <2> QED BY <2>1, <2>2, <2>3
<1>10. f = [i \in 0..N |-> f[i]]
  OBVIOUS
<1>11. f[N].ok = TRUE /\ f[N].off = Len(body) /\ f[N].cells = cells(N)
  BY <1>1, <1>7
<1>12. N = body[1] * Cols
  BY <1>7 DEF N
<1> HIDE DEF f, cells
<1>13. LET ok == f[N].ok /\ f[N].off = Len(body)
       IN DecodeBatch(body) =
            [ok   |-> ok,
             rows |-> IF ok THEN [r \in 1..body[1] |-> SubSeq(f[N].cells, (r - 1) * Cols + 1, r * Cols)]
                            ELSE <<>>]
  BY <1>1, <1>8, <1>9, <1>10, <1>12, DecodesCells
<1>14. DecodeBatch(body) =
         [ok |-> TRUE, rows |-> [r \in 1..Len(rows) |-> SubSeq(cells(N), (r - 1) * Cols + 1, r * Cols)]]
  BY <1>7, <1>11, <1>13
<1>15. ASSUME NEW r \in 1..Len(rows) PROVE SubSeq(cells(N), (r - 1) * Cols + 1, r * Cols) = rows[r]
  <2> DEFINE s == SubSeq(cells(N), (r - 1) * Cols + 1, r * Cols)
  <2>1. rows[r] \in [1..Cols -> CellValues]
    BY DEF Rows
  <2>2. cells(N) \in Seq(CellValues) /\ Len(cells(N)) = N /\ \A j \in 1..N : cells(N)[j] = cell(j)
    BY <1>1, <1>2 DEF cells
  <2>3. r \in Nat /\ r >= 1 /\ (r - 1) * Cols \in Nat /\ r * Cols \in Nat /\ r * Cols = (r - 1) * Cols + Cols
    BY <1>1
  <2>4. \A k \in 1..Cols : /\ (r - 1) * Cols + k \in 1..N
                           /\ cell((r - 1) * Cols + k) = rows[r][k]
    BY CellsOfRow DEF N, cell
  <2>5. s = [k \in 1..Cols |-> cells(N)[(r - 1) * Cols + k]]
    <3>1. s = [k \in 1..(r * Cols - ((r - 1) * Cols + 1) + 1) |-> cells(N)[((r - 1) * Cols + 1) + k - 1]]
      BY <2>2, <2>3, SubSeqProperties
    <3>2. r * Cols - ((r - 1) * Cols + 1) + 1 = Cols
      BY <1>1, <2>3
    <3>3. \A k \in 1..Cols : ((r - 1) * Cols + 1) + k - 1 = (r - 1) * Cols + k
      BY <1>1, <2>3
    <3> HIDE DEF s
    <3> QED BY <3>1, <3>2, <3>3
  <2> HIDE DEF s
  <2>6. s = [k \in 1..Cols |-> rows[r][k]]
    BY <2>2, <2>4, <2>5
  <2> QED BY <2>1, <2>6 DEF s
<1>16. rows = [r \in 1..Len(rows) |-> rows[r]]
  OBVIOUS
<1>17. [r \in 1..Len(rows) |-> SubSeq(cells(N), (r - 1) * Cols + 1, r * Cols)] = rows
  BY <1>15, <1>16
<1> QED BY <1>14, <1>17 DEF body

-----------------------------------------------------------------------------
(* Frames under way *)

\* No frames, no change.
LEMMA WayNone ==
  ASSUME NEW P, NEW s, NEW a \in Phases, NEW c \in Nat
  PROVE  Way(<<>>, P, s, a, c, a, c)
<1> DEFINE at == [i \in 0..0 |-> a]
           cut == [i \in 0..0 |-> c]
<1>1. <<>> \in Seq(Frames) /\ Len(<<>>) = 0
  OBVIOUS
<1>2. at \in [0..0 -> Phases] /\ cut \in [0..0 -> Nat] /\ at[0] = a /\ cut[0] = c
  OBVIOUS
<1> HIDE DEF at, cut
<1>3. \A i \in 1..0 : FALSE
  OBVIOUS
<1> QED BY <1>1, <1>2, <1>3 DEF Way

\* One frame.
LEMMA WayOne ==
  ASSUME NEW P, NEW s, NEW a \in Phases, NEW c \in Nat, NEW a2 \in Phases, NEW c2 \in Nat,
         NEW f \in Frames, Hop(f, P, s, a, c, a2, c2)
  PROVE  Way(<<f>>, P, s, a, c, a2, c2)
<1> DEFINE q == <<f>>
           at == [i \in 0..1 |-> IF i = 0 THEN a ELSE a2]
           cut == [i \in 0..1 |-> IF i = 0 THEN c ELSE c2]
<1>1. q \in Seq(Frames) /\ Len(q) = 1 /\ q[1] = f
  OBVIOUS
<1>2. at \in [0..1 -> Phases] /\ cut \in [0..1 -> Nat]
      /\ at[0] = a /\ cut[0] = c /\ at[1] = a2 /\ cut[1] = c2
  OBVIOUS
<1>3. \A i \in 1..1 : i = 1 /\ i - 1 = 0
  OBVIOUS
<1> HIDE DEF at, cut, q
<1>4. \A i \in 1..1 : Hop(q[i], P, s, at[i - 1], cut[i - 1], at[i], cut[i])
  BY <1>1, <1>2, <1>3
<1>5. Way(q, P, s, a, c, a2, c2)
  BY <1>1, <1>2, <1>4 DEF Way
<1> QED BY <1>5 DEF q

\* Frames behind frames.
LEMMA WayConcat ==
  ASSUME NEW P, NEW s, NEW q, NEW r, NEW a, NEW c, NEW a1, NEW c1, NEW a2, NEW c2,
         Way(q, P, s, a, c, a1, c1), Way(r, P, s, a1, c1, a2, c2)
  PROVE  Way(q \o r, P, s, a, c, a2, c2)
<1> DEFINE m == Len(q)
           n == Len(r)
           w == q \o r
<1>1. q \in Seq(Frames) /\ r \in Seq(Frames) /\ m \in Nat /\ n \in Nat
  BY DEF Way
<1>2. w \in Seq(Frames) /\ Len(w) = m + n
      /\ \A i \in 1..(m + n) : w[i] = IF i <= m THEN q[i] ELSE r[i - m]
  BY <1>1, ConcatProperties
<1>3. PICK at1 \in [0..m -> Phases], cut1 \in [0..m -> Nat] :
        /\ at1[0] = a /\ cut1[0] = c /\ at1[m] = a1 /\ cut1[m] = c1
        /\ \A i \in 1..m : Hop(q[i], P, s, at1[i - 1], cut1[i - 1], at1[i], cut1[i])
  BY DEF Way
<1>4. PICK at2 \in [0..n -> Phases], cut2 \in [0..n -> Nat] :
        /\ at2[0] = a1 /\ cut2[0] = c1 /\ at2[n] = a2 /\ cut2[n] = c2
        /\ \A i \in 1..n : Hop(r[i], P, s, at2[i - 1], cut2[i - 1], at2[i], cut2[i])
  BY DEF Way
<1> HIDE DEF m, n, w
<1> DEFINE at == [i \in 0..(m + n) |-> IF i <= m THEN at1[i] ELSE at2[i - m]]
           cut == [i \in 0..(m + n) |-> IF i <= m THEN cut1[i] ELSE cut2[i - m]]
<1>5. /\ \A i \in 0..m : i \in 0..(m + n) /\ i <= m
      /\ \A i \in 0..(m + n) : ~(i <= m) => i - m \in 1..n
      /\ \A i \in 0..n : i + m \in 0..(m + n) /\ (i + m <= m <=> i = 0) /\ (i + m) - m = i
  BY <1>1
<1>6. at \in [0..(m + n) -> Phases] /\ cut \in [0..(m + n) -> Nat]
  BY <1>1, <1>3, <1>4
<1>7. \A i \in 0..m : at[i] = at1[i] /\ cut[i] = cut1[i]
  BY <1>5
<1>8. \A i \in 0..n : at[i + m] = at2[i] /\ cut[i + m] = cut2[i]
  <2> TAKE i \in 0..n
  <2>1. CASE i = 0
    <3>1. at[m] = at1[m] /\ cut[m] = cut1[m]
      BY <1>1, <1>7
    <3> HIDE DEF at, cut
    <3>2. i + m = m
      BY <1>1, <2>1
    <3> QED BY <1>3, <1>4, <2>1, <3>1, <3>2
  <2>2. CASE i # 0
    BY <1>5, <2>2
  <2> QED BY <2>1, <2>2
<1> HIDE DEF at, cut
<1>9. ASSUME NEW i \in 1..(m + n) PROVE Hop(w[i], P, s, at[i - 1], cut[i - 1], at[i], cut[i])
  <2>1. CASE i <= m
    <3>1. i \in 1..m /\ i \in 0..m /\ i - 1 \in 0..m /\ w[i] = q[i]
      BY <1>1, <1>2, <2>1
    <3> QED BY <1>3, <1>7, <3>1
  <2>2. CASE ~(i <= m)
    <3> DEFINE j == i - m
    <3>1. j \in 1..n /\ j \in 0..n /\ j - 1 \in 0..n /\ j + m = i /\ (j - 1) + m = i - 1
      BY <1>1, <2>2
    <3>2. w[i] = r[j]
      BY <1>2, <2>2
    <3> HIDE DEF j
    <3>3. at[i] = at2[j] /\ cut[i] = cut2[j] /\ at[i - 1] = at2[j - 1] /\ cut[i - 1] = cut2[j - 1]
      BY <1>8, <3>1
    <3> QED BY <1>4, <3>1, <3>2, <3>3
  <2> QED BY <2>1, <2>2
<1>10. at[0] = a /\ cut[0] = c
  BY <1>1, <1>3, <1>7
<1>11. at[m + n] = a2 /\ cut[m + n] = c2
  <2>1. n \in 0..n /\ n + m = m + n
    BY <1>1
  <2> QED BY <1>4, <1>8, <2>1
<1>12. Way(w, P, s, a, c, a2, c2)
  BY <1>2, <1>6, <1>9, <1>10, <1>11 DEF Way
<1> QED BY <1>12 DEF w

\* The client reads the first frame.
LEMMA WayTail ==
  ASSUME NEW P, NEW s, NEW q, q # <<>>, NEW a, NEW c, NEW a2, NEW c2, Way(q, P, s, a, c, a2, c2)
  PROVE  \E a1 \in Phases, c1 \in Nat :
           /\ Hop(Head(q), P, s, a, c, a1, c1) /\ Way(Tail(q), P, s, a1, c1, a2, c2)
<1> DEFINE n == Len(q) - 1
           t == Tail(q)
<1>1. q \in Seq(Frames) /\ Len(q) \in Nat /\ Len(q) >= 1
  BY DEF Way
<1>2. n \in Nat /\ t \in Seq(Frames) /\ Len(t) = n /\ Head(q) = q[1] /\ \A i \in 1..n : t[i] = q[i + 1]
  BY <1>1
<1>3. PICK at \in [0..Len(q) -> Phases], cut \in [0..Len(q) -> Nat] :
        /\ at[0] = a /\ cut[0] = c /\ at[Len(q)] = a2 /\ cut[Len(q)] = c2
        /\ \A i \in 1..Len(q) : Hop(q[i], P, s, at[i - 1], cut[i - 1], at[i], cut[i])
  BY DEF Way
<1>4. 1 \in 1..Len(q) /\ 1 - 1 = 0 /\ 1 \in 0..Len(q)
  BY <1>1
<1>5. Hop(Head(q), P, s, a, c, at[1], cut[1])
  BY <1>2, <1>3, <1>4
<1> DEFINE at1 == [i \in 0..n |-> at[i + 1]]
           cut1 == [i \in 0..n |-> cut[i + 1]]
<1>6. \A i \in 0..n : i + 1 \in 0..Len(q)
  BY <1>1
<1>7. at1 \in [0..n -> Phases] /\ cut1 \in [0..n -> Nat]
      /\ \A i \in 0..n : at1[i] = at[i + 1] /\ cut1[i] = cut[i + 1]
  BY <1>3, <1>6
<1> HIDE DEF at1, cut1
<1>8. \A i \in 1..n : /\ i \in 0..n /\ i - 1 \in 0..n /\ (i - 1) + 1 = i /\ i + 1 \in 1..Len(q)
                      /\ (i + 1) - 1 = i
  BY <1>1
<1>9. \A i \in 1..n : Hop(t[i], P, s, at1[i - 1], cut1[i - 1], at1[i], cut1[i])
  BY <1>2, <1>3, <1>7, <1>8
<1>10. n \in 0..n /\ 0 \in 0..n /\ n + 1 = Len(q) /\ 0 + 1 = 1
  BY <1>1, <1>2
<1>11. at1[0] = at[1] /\ cut1[0] = cut[1] /\ at1[n] = a2 /\ cut1[n] = c2
  BY <1>3, <1>7, <1>10
<1> HIDE DEF n, t
<1>12. Way(t, P, s, at[1], cut[1], a2, c2)
  BY <1>2, <1>7, <1>9, <1>11 DEF Way
<1>13. at[1] \in Phases /\ cut[1] \in Nat
  BY <1>3, <1>4
<1> QED BY <1>5, <1>12, <1>13 DEF t

\* A line that is cut loses frames from some point on.
LEMMA WayPrefix ==
  ASSUME NEW P, NEW s, NEW q, NEW a, NEW c, NEW a2, NEW c2, Way(q, P, s, a, c, a2, c2),
         NEW n \in 0..Len(q)
  PROVE  \E a1 \in Phases, c1 \in Nat : Way(SubSeq(q, 1, n), P, s, a, c, a1, c1)
<1> DEFINE t == SubSeq(q, 1, n)
<1>1. q \in Seq(Frames) /\ Len(q) \in Nat /\ n \in Nat /\ n <= Len(q)
  BY DEF Way
<1>2. t \in Seq(Frames) /\ Len(t) = n /\ \A i \in 1..n : t[i] = q[i]
  BY <1>1
<1>3. PICK at \in [0..Len(q) -> Phases], cut \in [0..Len(q) -> Nat] :
        /\ at[0] = a /\ cut[0] = c /\ at[Len(q)] = a2 /\ cut[Len(q)] = c2
        /\ \A i \in 1..Len(q) : Hop(q[i], P, s, at[i - 1], cut[i - 1], at[i], cut[i])
  BY DEF Way
<1> DEFINE at1 == [i \in 0..n |-> at[i]]
           cut1 == [i \in 0..n |-> cut[i]]
<1>4. \A i \in 0..n : i \in 0..Len(q)
  BY <1>1
<1>5. at1 \in [0..n -> Phases] /\ cut1 \in [0..n -> Nat]
      /\ \A i \in 0..n : at1[i] = at[i] /\ cut1[i] = cut[i]
  BY <1>3, <1>4
<1> HIDE DEF at1, cut1
<1>6. \A i \in 1..n : i \in 0..n /\ i - 1 \in 0..n /\ i \in 1..Len(q)
  BY <1>1
<1>7. \A i \in 1..n : Hop(t[i], P, s, at1[i - 1], cut1[i - 1], at1[i], cut1[i])
  BY <1>2, <1>3, <1>5, <1>6
<1>8. n \in 0..n /\ 0 \in 0..n
  BY <1>1
<1>9. at1[0] = a /\ cut1[0] = c /\ at1[n] \in Phases /\ cut1[n] \in Nat
  BY <1>3, <1>5, <1>8
<1> HIDE DEF t
<1>10. Way(t, P, s, a, c, at1[n], cut1[n])
  BY <1>2, <1>5, <1>7, <1>9 DEF Way
<1> QED BY <1>9, <1>10 DEF t

\* A sequence that grows at its end.
LEMMA SubSeqGrow ==
  ASSUME NEW P \in Seq(Rows), NEW row \in Rows, NEW x \in Nat, NEW y \in Nat, x <= y, y <= Len(P)
  PROVE  SubSeq(Append(P, row), x + 1, y) = SubSeq(P, x + 1, y)
<1> DEFINE R == Append(P, row)
           u == SubSeq(R, x + 1, y)
           v == SubSeq(P, x + 1, y)
<1>1. Len(R) = Len(P) + 1 /\ Len(P) \in Nat /\ R \in Seq(Rows) /\ \A k \in 1..Len(P) : R[k] = P[k]
  OBVIOUS
<1> HIDE DEF R
<1>2. /\ u \in Seq(Rows) /\ v \in Seq(Rows) /\ Len(u) = y - x /\ Len(v) = y - x
      /\ \A k \in 1..(y - x) : u[k] = R[x + k] /\ v[k] = P[x + k]
  BY <1>1
<1>3. \A k \in 1..(y - x) : x + k \in 1..Len(P)
  BY <1>1
<1>4. Len(u) = Len(v) /\ \A k \in 1..Len(u) : u[k] = v[k]
  BY <1>1, <1>2, <1>3
<1> HIDE DEF u, v
<1>5. u = v
  BY <1>2, <1>4, SeqEqual
<1> QED BY <1>5 DEF u, v, R

\* A row more in the result changes nothing of what was sent before.
LEMMA WayGrow ==
  ASSUME NEW P \in Seq(Rows), NEW row \in Rows, NEW s, NEW q, NEW a, NEW c, NEW a2, NEW c2,
         Way(q, P, s, a, c, a2, c2), a2 # "done"
  PROVE  Way(q, Append(P, row), s, a, c, a2, c2)
<1> DEFINE R == Append(P, row)
<1>1. q \in Seq(Frames) /\ Len(q) \in Nat
  BY DEF Way
<1>2. PICK at \in [0..Len(q) -> Phases], cut \in [0..Len(q) -> Nat] :
        /\ at[0] = a /\ cut[0] = c /\ at[Len(q)] = a2 /\ cut[Len(q)] = c2
        /\ \A i \in 1..Len(q) : Hop(q[i], P, s, at[i - 1], cut[i - 1], at[i], cut[i])
  BY DEF Way
<1>3. Len(R) = Len(P) + 1 /\ Len(P) \in Nat /\ R \in Seq(Rows) /\ \A k \in 1..Len(P) : R[k] = P[k]
  OBVIOUS
<1>4. ASSUME NEW x \in Nat, NEW y \in Nat, x <= y, y <= Len(P)
      PROVE  SubSeq(R, x + 1, y) = SubSeq(P, x + 1, y)
  BY <1>4, SubSeqGrow
<1> HIDE DEF R
<1>5. ASSUME NEW i \in 1..Len(q)
      PROVE  Hop(q[i], R, s, at[i - 1], cut[i - 1], at[i], cut[i])
  <2>1. Hop(q[i], P, s, at[i - 1], cut[i - 1], at[i], cut[i])
    BY <1>2
  <2>2. i - 1 \in 0..Len(q) /\ i \in 0..Len(q) /\ (i # Len(q) => i + 1 \in 1..Len(q)) /\ (i + 1) - 1 = i
    BY <1>1
  <2>3. at[i] # "done"
    <3>1. CASE i = Len(q)
      BY <1>2, <3>1
    <3>2. CASE i # Len(q)
      <4>1. Hop(q[i + 1], P, s, at[i], cut[i], at[i + 1], cut[i + 1])
        BY <1>2, <2>2, <3>2
      <4> QED BY <4>1 DEF Hop
    <3> QED BY <3>1, <3>2
  <2>4. cut[i - 1] \in Nat /\ cut[i] \in Nat
    BY <1>2, <2>2
  <2>5. cut[i] <= Len(P) => cut[i] <= Len(R)
    BY <1>3, <2>4
  <2>6. cut[i - 1] <= cut[i] /\ cut[i] <= Len(P) =>
          SubSeq(R, cut[i - 1] + 1, cut[i]) = SubSeq(P, cut[i - 1] + 1, cut[i])
    BY <1>4, <2>4
  <2> QED BY <2>1, <2>3, <2>5, <2>6 DEF Hop
<1>6. Way(q, R, s, a, c, a2, c2)
  BY <1>1, <1>2, <1>5 DEF Way
<1> QED BY <1>6 DEF R

-----------------------------------------------------------------------------
(* The session *)

\* A session between a query and its answer.
LEMMA Busy ==
  ASSUME Inv, spc \in {"parse", "exec", "stream"}
  PROVE  /\ Replying /\ cstmt \in 1..MaxStmts /\ Given \in Seq(Rows) /\ Len(rs) <= Len(Given)
         /\ link = "open" /\ toServer = <<>> /\ sstmt = cstmt
         /\ \E a \in Phases, c \in Nat : Way(toClient, Given, cstmt, cpc, Len(rs), a, c) /\ Reached(a, c)
<1>1. link = "open"
  BY DEF Inv, Types
<1>2. Replying
  BY DEF Inv, Rest
<1>3. cstmt \in 1..MaxStmts /\ Given \in Seq(Rows)
  <2>1. cstmt \in 0..MaxStmts /\ cstmt >= 1
    BY <1>2 DEF Inv, Types, Wait
  <2>2. cstmt \in 1..MaxStmts
    BY <2>1, WireConstants
  <2> QED BY <2>2 DEF Inv, Types, Given
<1>4. InHand
  BY <1>1, <1>2 DEF Inv, Wait, Sent, CutOff, Refused
<1> QED BY <1>1, <1>2, <1>3, <1>4 DEF Inv, Wait, InHand

\* The session sends frames X that bring the client to where the session is.
LEMMA Advance ==
  ASSUME Inv, spc \in {"parse", "exec", "stream"}, NEW X,
         spc' \in {"parse", "exec", "stream", "recv"}, notices' \in BOOLEAN,
         toClient' = toClient \o X, UNCHANGED <<toServer, link, sstmt, pulled, client>>,
         \A a \in Phases, c \in Nat : Reached(a, c) =>
           \E a2 \in Phases, c2 \in Nat : Way(X, Given, cstmt, a, c, a2, c2) /\ Reached(a2, c2)'
  PROVE  Inv'
<1>1. /\ Replying /\ cstmt \in 1..MaxStmts /\ Given \in Seq(Rows)
      /\ link = "open" /\ toServer = <<>> /\ sstmt = cstmt
  BY Busy
<1>2. PICK a \in Phases, c \in Nat : Way(toClient, Given, cstmt, cpc, Len(rs), a, c) /\ Reached(a, c)
  BY Busy
<1>3. PICK a2 \in Phases, c2 \in Nat : Way(X, Given, cstmt, a, c, a2, c2) /\ Reached(a2, c2)'
  BY <1>2
<1>4. cpc' = cpc /\ cstmt' = cstmt /\ rs' = rs /\ verdict' = verdict /\ Given' = Given /\ Replying' = Replying
      /\ toServer' = toServer /\ link' = link /\ sstmt' = sstmt /\ pulled' = pulled
  BY DEF client, Given, Replying
<1>5. Way(toClient', Given', cstmt', cpc', Len(rs'), a2, c2)
  BY <1>2, <1>3, <1>4, WayConcat
<1>6. InHand'
  BY <1>1, <1>3, <1>4, <1>5 DEF InHand
<1>7. Types'
  BY <1>1, <1>4 DEF Inv, Types
<1>8. Rest' /\ Wait' /\ Verdicts'
  BY <1>1, <1>4, <1>6 DEF Inv, Rest, Wait, Verdicts
<1> QED BY <1>7, <1>8 DEF Inv

\* Frames are empty, or carry a number or a batch.
LEMMA BodyForms ==
  /\ <<>> \in Bodies /\ \A n \in Nat : <<n>> \in Bodies
  /\ \A rows \in Seq(Rows) : EncodeBatch(rows) \in Bodies
<1>1. <<>> \in Bodies
  BY Zenon DEF Bodies
<1>2. \A n \in Nat : <<n>> \in Bodies
  BY Zenon DEF Bodies
<1>3. \A rows \in Seq(Rows) : EncodeBatch(rows) \in Bodies
  BY Zenon DEF Bodies
<1> QED BY <1>1, <1>2, <1>3

\* Frames of the statement in hand.
LEMMA ReplyFrame ==
  ASSUME NEW t \in FrameTypes, NEW b \in Bodies, sstmt \in Nat
  PROVE  /\ Reply(t, b) \in Frames /\ Reply(t, b).type = t
         /\ Reply(t, b).body = b /\ Reply(t, b).stmt = sstmt
BY DEF Reply, Frame, Frames

\* A notice, if the level lets it through.
LEMMA NoticeWay ==
  ASSUME NEW P, NEW b \in BOOLEAN, NEW a \in {"reply", "stream"}, NEW c \in Nat, sstmt \in Nat
  PROVE  Way(IF b THEN <<Reply("notice", <<>>)>> ELSE <<>>, P, sstmt, a, c, a, c)
<1>1. a \in Phases /\ <<>> \in Bodies /\ "notice" \in FrameTypes
  BY BodyForms DEF Phases, FrameTypes
<1>2. Hop(Reply("notice", <<>>), P, sstmt, a, c, a, c) /\ Reply("notice", <<>>) \in Frames
  BY <1>1, ReplyFrame DEF Hop
<1>3. CASE b
  BY <1>1, <1>2, <1>3, WayOne
<1>4. CASE ~b
  BY <1>1, <1>4, WayNone
<1> QED BY <1>3, <1>4

\* The frame that ends a statement without a result set, or a result set early.
LEMMA AnswerWay ==
  ASSUME NEW P, NEW t \in {"ok", "error"}, NEW a \in {"reply", "stream"}, NEW c \in Nat, sstmt \in Nat,
         t = "ok" => a = "reply"
  PROVE  Way(<<Reply(t, <<>>)>>, P, sstmt, a, c, "done", c)
<1>1. a \in Phases /\ "done" \in Phases /\ <<>> \in Bodies /\ t \in FrameTypes
  BY BodyForms DEF Phases, FrameTypes
<1>2. Hop(Reply(t, <<>>), P, sstmt, a, c, "done", c) /\ Reply(t, <<>>) \in Frames
  BY <1>1, ReplyFrame DEF Hop
<1> QED BY <1>1, <1>2, WayOne

\* Where the session is before it answers.
LEMMA AtReply ==
  ASSUME spc \in {"parse", "exec"}, NEW a, NEW c, Reached(a, c)
  PROVE  a = "reply" /\ c = 0 /\ Given = <<>>
BY DEF Reached

\* sql::parse succeeds.
LEMMA ParsedInv == ASSUME Inv, Parsed PROVE Inv'
<1>1. /\ spc = "parse" /\ spc' = "exec" /\ toClient' = toClient \o Notice
      /\ UNCHANGED <<toServer, link, sstmt, notices, pulled, client>>
  BY DEF Parsed
<1>2. sstmt = cstmt /\ sstmt \in Nat /\ notices \in BOOLEAN /\ cstmt' = cstmt /\ Given' = Given
  BY <1>1, Busy, WireConstants DEF Inv, Types, client, Given
<1>3. ASSUME NEW a \in Phases, NEW c \in Nat, Reached(a, c)
      PROVE  Way(Notice, Given, cstmt, a, c, a, c) /\ Reached(a, c)'
  <2>1. a = "reply" /\ c = 0 /\ Given = <<>>
    BY <1>1, <1>3, AtReply
  <2>2. Way(Notice, Given, cstmt, a, c, a, c)
    BY <1>2, <2>1, NoticeWay DEF Notice
  <2>3. Reached(a, c)'
    BY <1>1, <1>2, <2>1 DEF Reached
  <2> QED BY <2>2, <2>3
<1> QED BY <1>1, <1>2, <1>3, Advance

\* An answer behind a possible notice: the session waits for the next query.
LEMMA AnswerInv ==
  ASSUME Inv, spc \in {"parse", "exec"}, spc' = "recv", notices' \in BOOLEAN,
         NEW t \in {"ok", "error"}, NEW b \in BOOLEAN,
         toClient' = toClient \o ((IF b THEN <<Reply("notice", <<>>)>> ELSE <<>>) \o <<Reply(t, <<>>)>>),
         UNCHANGED <<toServer, link, sstmt, pulled, client>>
  PROVE  Inv'
<1> DEFINE X == (IF b THEN <<Reply("notice", <<>>)>> ELSE <<>>) \o <<Reply(t, <<>>)>>
<1>1. sstmt = cstmt /\ sstmt \in Nat
  BY Busy
<1>2. ASSUME NEW a \in Phases, NEW c \in Nat, Reached(a, c)
      PROVE  Way(X, Given, cstmt, a, c, "done", c) /\ Reached("done", c)'
  <2>1. a = "reply"
    BY <1>2, AtReply
  <2>2. Way(IF b THEN <<Reply("notice", <<>>)>> ELSE <<>>, Given, cstmt, a, c, a, c)
    BY <1>1, <2>1, NoticeWay
  <2>3. Way(<<Reply(t, <<>>)>>, Given, cstmt, a, c, "done", c)
    BY <1>1, <2>1, AnswerWay
  <2>4. Way(X, Given, cstmt, a, c, "done", c)
    BY <2>2, <2>3, WayConcat
  <2>5. Reached("done", c)'
    BY DEF Reached
  <2> QED BY <2>4, <2>5
<1>3. "done" \in Phases
  BY DEF Phases
<1> HIDE DEF X
<1>4. toClient' = toClient \o X
  BY DEF X
<1> QED BY <1>2, <1>3, <1>4, Advance, SMTT(30)

\* The frames under way are frames.
LEMMA QueueType == ASSUME Inv, spc \in {"parse", "exec", "stream"} PROVE toClient \in Seq(Frames)
BY Busy DEF Way

\* A frame of the statement in hand.
LEMMA SentFrame ==
  ASSUME Inv, spc \in {"parse", "exec", "stream"}, NEW t \in FrameTypes, NEW b \in Bodies
  PROVE  /\ Reply(t, b) \in Frames /\ <<Reply(t, b)>> \in Seq(Frames)
         /\ Append(toClient, Reply(t, b)) = toClient \o <<Reply(t, b)>>
         /\ <<>> \o <<Reply(t, b)>> = <<Reply(t, b)>>
<1>1. toClient \in Seq(Frames) /\ sstmt \in Nat
  BY QueueType, Busy
<1>2. Reply(t, b) \in Frames
  BY <1>1, ReplyFrame
<1>3. Append(toClient, Reply(t, b)) = toClient \o <<Reply(t, b)>>
  BY <1>1, <1>2, AppendIsConcat
<1>4. <<Reply(t, b)>> \in Seq(Frames)
  BY <1>2
<1> QED BY <1>2, <1>3, <1>4, ConcatEmptySeq

\* The only answer: an error of the parser or of execution, or a control statement.
LEMMA OnlyAnswerInv ==
  ASSUME Inv, SyntaxError \/ AnswerError \/ AnswerControl
  PROVE  Inv'
<1>1. PICK t \in {"ok", "error"} :
        /\ spc \in {"parse", "exec"} /\ spc' = "recv" /\ toClient' = Append(toClient, Reply(t, <<>>))
        /\ UNCHANGED <<toServer, link, sstmt, notices, pulled, client>>
  BY DEF SyntaxError, AnswerError, AnswerControl
<1>2. toClient' = toClient \o ((IF FALSE THEN <<Reply("notice", <<>>)>> ELSE <<>>) \o <<Reply(t, <<>>)>>)
  BY <1>1, SentFrame, BodyForms DEF FrameTypes
<1>3. notices' \in BOOLEAN
  BY <1>1 DEF Inv, Types
<1> QED BY <1>1, <1>2, <1>3, AnswerInv

\* Ok behind a notice.
LEMMA AnswerOkInv == ASSUME Inv, AnswerOk PROVE Inv'
<1>1. /\ spc = "exec" /\ spc' = "recv" /\ toClient' = toClient \o Append(Notice, Reply("ok", <<>>))
      /\ UNCHANGED <<toServer, link, sstmt, notices, pulled, client>>
  BY DEF AnswerOk
<1>2. notices \in BOOLEAN /\ notices' \in BOOLEAN
  BY <1>1 DEF Inv, Types
<1>3. Reply("ok", <<>>) \in Frames /\ <<Reply("notice", <<>>)>> \in Seq(Frames)
  BY <1>1, SentFrame, BodyForms DEF FrameTypes
<1>4. Append(Notice, Reply("ok", <<>>))
        = (IF notices THEN <<Reply("notice", <<>>)>> ELSE <<>>) \o <<Reply("ok", <<>>)>>
  <2>1. Notice \in Seq(Frames)
    BY <1>2, <1>3 DEF Notice
  <2> QED BY <1>3, <2>1, AppendIsConcat DEF Notice
<1> QED BY <1>1, <1>2, <1>4, AnswerInv

\* SET client_msg_level.
LEMMA AnswerSetInv == ASSUME Inv, AnswerSet PROVE Inv'
<1>1. /\ spc = "exec" /\ spc' = "recv" /\ notices' \in BOOLEAN
      /\ toClient' = toClient \o (IF notices' THEN <<Reply("notice", <<>>)>> ELSE <<>>)
                              \o <<Reply("ok", <<>>)>>
      /\ UNCHANGED <<toServer, link, sstmt, pulled, client>>
  BY DEF AnswerSet
<1> DEFINE n == IF notices' THEN <<Reply("notice", <<>>)>> ELSE <<>>
<1>2. n \in Seq(Frames) /\ <<Reply("ok", <<>>)>> \in Seq(Frames) /\ toClient \in Seq(Frames)
  BY <1>1, SentFrame, QueueType, BodyForms DEF FrameTypes
<1> HIDE DEF n
<1>3. toClient' = toClient \o (n \o <<Reply("ok", <<>>)>>)
  <2>1. toClient' = (toClient \o n) \o <<Reply("ok", <<>>)>>
    BY <1>1 DEF n
  <2> QED BY <1>2, <2>1, ConcatAssociative
<1> QED BY <1>1, <1>3, AnswerInv DEF n

\* send_result_stream begins.
LEMMA SendHeadInv == ASSUME Inv, SendHead PROVE Inv'
<1> DEFINE X == <<Reply("head", <<Cols>>)>>
<1>1. /\ spc = "exec" /\ spc' = "stream" /\ toClient' = Append(toClient, Reply("head", <<Cols>>))
      /\ batch' = <<>> /\ total' = 0
      /\ UNCHANGED <<toServer, link, sstmt, notices, pulled, client>>
  BY DEF SendHead
<1>2. sstmt = cstmt /\ sstmt \in Nat /\ cstmt' = cstmt /\ Given' = Given
  BY <1>1, Busy DEF client, Given
<1>3. "head" \in FrameTypes /\ <<Cols>> \in Bodies /\ "reply" \in Phases /\ "stream" \in Phases
  BY BodyForms, WireConstants DEF FrameTypes, Phases
<1>4. toClient' = toClient \o X
  BY <1>1, <1>3, SentFrame
<1>5. ASSUME NEW a \in Phases, NEW c \in Nat, Reached(a, c)
      PROVE  Way(X, Given, cstmt, a, c, "stream", c) /\ Reached("stream", c)'
  <2>1. a = "reply" /\ c = 0 /\ Given = <<>>
    BY <1>1, <1>5, AtReply
  <2>2. Reply("head", <<Cols>>) \in Frames /\ Hop(Reply("head", <<Cols>>), Given, cstmt, a, c, "stream", c)
    BY <1>2, <1>3, <2>1, ReplyFrame DEF Hop
  <2>3. Way(X, Given, cstmt, a, c, "stream", c)
    BY <1>3, <2>2, WayOne
  <2>4. Len(Given) = 0 /\ SubSeq(Given, 0 + 1, Len(Given)) = <<>>
    <3>1. Len(Given) = 0
      BY <2>1
    <3> QED BY <3>1, SubSeqEmpty
  <2>5. Reached("stream", c)'
    BY <1>1, <1>2, <2>1, <2>4 DEF Reached
  <2> QED BY <2>3, <2>5
<1>6. notices' \in BOOLEAN
  BY <1>1 DEF Inv, Types
<1> HIDE DEF X
<1> QED BY <1>1, <1>3, <1>4, <1>5, <1>6, Advance

\* Where the session is within a result set.
LEMMA AtStream ==
  ASSUME Inv, spc = "stream", NEW a, NEW c \in Nat, Reached(a, c)
  PROVE  /\ a = "stream" /\ c <= Len(Given) /\ Len(Given) \in Nat
         /\ batch = SubSeq(Given, c + 1, Len(Given)) /\ total = Len(Given)
         /\ batch \in Seq(Rows) /\ Len(batch) = Len(Given) - c
<1>1. a = "stream" /\ c <= Len(Given) /\ batch = SubSeq(Given, c + 1, Len(Given)) /\ total = Len(Given)
  BY DEF Reached
<1>2. Given \in Seq(Rows) /\ Len(Given) \in Nat
  BY Busy
<1>3. \A i \in (c + 1)..Len(Given) : i \in 1..Len(Given)
  BY <1>2
<1>4. /\ SubSeq(Given, c + 1, Len(Given)) \in Seq(Rows)
      /\ Len(SubSeq(Given, c + 1, Len(Given))) = Len(Given) - c
  <2> DEFINE n == Len(Given)
  <2>1. n \in Nat /\ c + 1 \in Int /\ n \in Int /\ \A i \in (c + 1)..n : Given[i] \in Rows
    BY <1>2, <1>3
  <2> HIDE DEF n
  <2>2. /\ SubSeq(Given, c + 1, n) \in Seq(Rows)
        /\ Len(SubSeq(Given, c + 1, n)) = IF c + 1 <= n THEN n - (c + 1) + 1 ELSE 0
    BY <2>1, SubSeqProperties
  <2>3. c <= n
    BY <1>1 DEF n
  <2>4. (IF c + 1 <= n THEN n - (c + 1) + 1 ELSE 0) = n - c
    BY <2>1, <2>3
  <2> QED BY <2>2, <2>4 DEF n
<1> QED BY <1>1, <1>2, <1>4

\* A batch with the rows not sent so far.
LEMMA BatchWay ==
  ASSUME NEW P \in Seq(Rows), NEW c \in Nat, c <= Len(P), sstmt \in Nat
  PROVE  Way(<<Reply("batch", EncodeBatch(SubSeq(P, c + 1, Len(P))))>>, P, sstmt, "stream", c, "stream", Len(P))
<1> DEFINE b == SubSeq(P, c + 1, Len(P))
           n == Len(P)
<1>1. n \in Nat /\ "stream" \in Phases /\ "batch" \in FrameTypes
  BY DEF Phases, FrameTypes
<1>2. b \in Seq(Rows)
  <2>1. \A i \in (c + 1)..n : i \in 1..n
    BY <1>1
  <2>2. \A i \in (c + 1)..n : P[i] \in Rows
    BY <2>1
  <2> QED BY <1>1, <2>2, SubSeqProperties
<1>3. EncodeBatch(b) \in Bodies
  BY <1>2, BodyForms
<1>4. Hop(Reply("batch", EncodeBatch(b)), P, sstmt, "stream", c, "stream", n)
  <2>1. n <= Len(P)
    BY <1>1
  <2> QED BY <1>1, <1>3, <2>1, ReplyFrame DEF Hop
<1>5. Reply("batch", EncodeBatch(b)) \in Frames
  BY <1>1, <1>3, ReplyFrame
<1> HIDE DEF b, n
<1>6. Way(<<Reply("batch", EncodeBatch(b))>>, P, sstmt, "stream", c, "stream", n)
  BY <1>1, <1>4, <1>5, WayOne
<1> QED BY <1>6 DEF b, n

\* The end of a result set: the last batch, a notice, the row count.
LEMMA StreamEndInv == ASSUME Inv, StreamEnd PROVE Inv'
<1> DEFINE B == IF batch = <<>> THEN <<>> ELSE <<Reply("batch", EncodeBatch(batch))>>
           E == <<Reply("end", <<total>>)>>
           X == B \o (Notice \o E)
<1>1. /\ spc = "stream" /\ spc' = "recv" /\ batch' = <<>>
      /\ toClient' = toClient \o B \o Notice \o E
      /\ UNCHANGED <<toServer, link, sstmt, total, notices, pulled, client>>
  BY DEF StreamEnd
<1>0. PICK n \in Nat : n = Len(Given)
  BY <1>1, Busy
<1>2. sstmt = cstmt /\ sstmt \in Nat /\ notices \in BOOLEAN /\ Given \in Seq(Rows)
  BY <1>1, Busy DEF Inv, Types
<1>3. PICK a \in Phases, c \in Nat : Reached(a, c)
  BY <1>1, Busy
<1>4. batch \in Seq(Rows) /\ total = n /\ <<total>> \in Bodies
  BY <1>0, <1>1, <1>3, AtStream, BodyForms
<1>5. B \in Seq(Frames) /\ Notice \in Seq(Frames) /\ E \in Seq(Frames) /\ toClient \in Seq(Frames)
  <2>1. EncodeBatch(batch) \in Bodies /\ <<>> \in Bodies
    BY <1>4, BodyForms
  <2>2. /\ <<Reply("batch", EncodeBatch(batch))>> \in Seq(Frames) /\ <<Reply("notice", <<>>)>> \in Seq(Frames)
        /\ E \in Seq(Frames)
    BY <1>1, <1>4, <2>1, SentFrame DEF FrameTypes
  <2>3. B \in Seq(Frames) /\ Notice \in Seq(Frames)
    BY <1>2, <2>2 DEF Notice
  <2> QED BY <1>1, <2>2, <2>3, QueueType
<1> HIDE DEF B, E
<1>6. toClient' = toClient \o X
  <2>1. toClient \o B \in Seq(Frames) /\ Notice \o E \in Seq(Frames)
    BY <1>5, ConcatProperties
  <2>2. ((toClient \o B) \o Notice) \o E = (toClient \o B) \o (Notice \o E)
    BY <1>5, <2>1, ConcatAssociative, SMTT(30)
  <2>3. (toClient \o B) \o (Notice \o E) = toClient \o (B \o (Notice \o E))
    BY <1>5, <2>1, ConcatAssociative
  <2> QED BY <1>1, <2>2, <2>3
<1>7. ASSUME NEW x \in Phases, NEW y \in Nat, Reached(x, y)
      PROVE  Way(X, Given, cstmt, x, y, "done", n) /\ Reached("done", n)'
  <2>1. /\ x = "stream" /\ y <= n /\ batch = SubSeq(Given, y + 1, n) /\ Len(batch) = n - y
    BY <1>0, <1>1, <1>7, AtStream
  <2>2. Way(B, Given, cstmt, "stream", y, "stream", n)
    <3>1. CASE batch = <<>>
      <4>1. y = n
        <5>1. Len(batch) = 0
          BY <3>1
        <5> QED BY <1>2, <2>1, <5>1
      <4> QED BY <3>1, <4>1, WayNone DEF B, Phases
    <3>2. CASE batch # <<>>
      <4>1. Way(<<Reply("batch", EncodeBatch(batch))>>, Given, sstmt, "stream", y, "stream", n)
        BY <1>0, <1>2, <2>1, BatchWay
      <4> QED BY <1>2, <3>2, <4>1 DEF B
    <3> QED BY <3>1, <3>2
  <2>3. Way(Notice, Given, cstmt, "stream", n, "stream", n)
    BY <1>2, NoticeWay DEF Notice
  <2>4. Way(E, Given, cstmt, "stream", n, "done", n)
    <3>1. Reply("end", <<total>>) \in Frames /\ Hop(Reply("end", <<total>>), Given, cstmt, "stream", n, "done", n)
      BY <1>0, <1>2, <1>4, ReplyFrame DEF Hop, FrameTypes
    <3> QED BY <1>2, <3>1, WayOne DEF E, Phases
  <2>5. Way(Notice \o E, Given, cstmt, "stream", n, "done", n)
    BY <2>3, <2>4, WayConcat
  <2>6. Way(X, Given, cstmt, x, y, "done", n)
    BY <2>1, <2>2, <2>5, WayConcat
  <2>7. Reached("done", n)'
    BY <1>1 DEF Reached
  <2> QED BY <2>6, <2>7
<1>8. "done" \in Phases /\ notices' \in BOOLEAN
  BY <1>1, <1>2 DEF Phases
<1> HIDE DEF X
<1>9. \A x \in Phases, y \in Nat : Reached(x, y) =>
        \E x2 \in Phases, y2 \in Nat : Way(X, Given, cstmt, x, y, x2, y2) /\ Reached(x2, y2)'
  BY <1>2, <1>7, <1>8
<1>10. UNCHANGED <<toServer, link, sstmt, pulled, client>>
  BY <1>1
<1> QED BY <1>1, <1>6, <1>8, <1>9, <1>10, Advance

\* An error in the middle of a result set.
LEMMA StreamErrorInv == ASSUME Inv, StreamError PROVE Inv'
<1> DEFINE X == <<Reply("error", <<>>)>>
<1>1. /\ spc = "stream" /\ spc' = "recv" /\ toClient' = Append(toClient, Reply("error", <<>>))
      /\ UNCHANGED <<toServer, link, sstmt, notices, pulled, client>>
  BY DEF StreamError
<1>2. sstmt = cstmt /\ sstmt \in Nat /\ notices' \in BOOLEAN /\ "done" \in Phases
  BY <1>1, Busy DEF Inv, Types, Phases
<1>3. toClient' = toClient \o X
  BY <1>1, SentFrame, BodyForms DEF FrameTypes
<1>4. ASSUME NEW a \in Phases, NEW c \in Nat, Reached(a, c)
      PROVE  Way(X, Given, cstmt, a, c, "done", c) /\ Reached("done", c)'
  <2>1. a = "stream"
    BY <1>1, <1>4, AtStream
  <2>2. Way(X, Given, cstmt, a, c, "done", c)
    BY <1>2, <2>1, AnswerWay
  <2> QED BY <1>1, <2>2 DEF Reached
<1> HIDE DEF X
<1> QED BY <1>1, <1>2, <1>3, <1>4, Advance

\* The last part of a sequence grows with it.
LEMMA RestGrows ==
  ASSUME NEW P \in Seq(Rows), NEW row \in Rows, NEW c \in Nat, c <= Len(P)
  PROVE  SubSeq(Append(P, row), c + 1, Len(P) + 1) = Append(SubSeq(P, c + 1, Len(P)), row)
<1> DEFINE R == Append(P, row)
           n == Len(P)
<1>1. Len(R) = n + 1 /\ n \in Nat /\ R \in Seq(Rows) /\ R[n + 1] = row /\ c <= n
  OBVIOUS
<1>2. SubSeq(R, c + 1, n) = SubSeq(P, c + 1, n)
  BY <1>1, SubSeqGrow
<1>3. SubSeq(P, c + 1, n) \in Seq(Rows)
  <2>1. \A i \in (c + 1)..n : P[i] \in Rows
    BY <1>1
  <2> QED BY <1>1, <2>1, SubSeqProperties
<1> HIDE DEF R, n
<1>4. SubSeq(R, c + 1, n + 1) = SubSeq(R, c + 1, (n + 1) - 1) \o <<R[n + 1]>>
  <2>1. c + 1 \in 1..Len(R) /\ n + 1 \in (c + 1)..Len(R)
    BY <1>1
  <2> QED BY <1>1, <2>1, SubSeqRecursiveSecond
<1>5. (n + 1) - 1 = n
  BY <1>1
<1>6. SubSeq(R, c + 1, n + 1) = SubSeq(P, c + 1, n) \o <<row>>
  BY <1>1, <1>2, <1>4, <1>5
<1>7. Append(SubSeq(P, c + 1, n), row) = SubSeq(P, c + 1, n) \o <<row>>
  BY <1>3, AppendIsConcat
<1> QED BY <1>6, <1>7 DEF R, n

\* A row of the result: kept for the next batch, or sent with it.
LEMMA StreamRowInv == ASSUME Inv, NEW row \in Rows, StreamRow(row) PROVE Inv'
<1>1. /\ spc = "stream" /\ spc' = spc /\ total' = total + 1
      /\ pulled' = [pulled EXCEPT ![sstmt] = Append(@, row)]
      /\ \/ batch' = <<>> /\ toClient' = Append(toClient, Reply("batch", EncodeBatch(Append(batch, row))))
         \/ batch' = Append(batch, row) /\ toClient' = toClient
      /\ UNCHANGED <<toServer, link, sstmt, notices, client>>
  BY DEF StreamRow
<1>0. PICK P \in Seq(Rows), n \in Nat : P = Given /\ n = Len(P)
  BY <1>1, Busy
<1> DEFINE R == Append(P, row)
<1>2. /\ Replying /\ cstmt \in 1..MaxStmts /\ Len(rs) <= n
      /\ link = "open" /\ toServer = <<>> /\ sstmt = cstmt
  BY <1>0, <1>1, Busy
<1>3. PICK a \in Phases, c \in Nat : Way(toClient, P, cstmt, cpc, Len(rs), a, c) /\ Reached(a, c)
  BY <1>0, <1>1, Busy
<1>4. /\ a = "stream" /\ c <= n /\ batch = SubSeq(P, c + 1, n) /\ total = n
      /\ batch \in Seq(Rows)
  BY <1>0, <1>1, <1>3, AtStream
<1>5. /\ cpc' = cpc /\ cstmt' = cstmt /\ rs' = rs /\ verdict' = verdict /\ Replying'
      /\ toServer' = toServer /\ link' = link /\ sstmt' = sstmt /\ notices' = notices
  BY <1>1, <1>2 DEF client, Replying
<1>6. Given' = R /\ R \in Seq(Rows) /\ Len(R) = n + 1
  <2>1. Given' = R
    BY <1>0, <1>1, <1>2, <1>5 DEF Inv, Types, Given
  <2> QED BY <1>0, <2>1
<1>7. \A s \in 1..MaxStmts : s # cstmt => pulled'[s] = pulled[s]
  BY <1>1, <1>2 DEF Inv, Types
<1>8. Way(toClient, R, cstmt, cpc, Len(rs), a, c)
  BY <1>3, <1>4, WayGrow
<1>9. SubSeq(R, c + 1, n + 1) = Append(batch, row) /\ Append(batch, row) \in Seq(Rows)
  <2>1. SubSeq(R, c + 1, Len(P) + 1) = Append(SubSeq(P, c + 1, Len(P)), row)
    BY <1>0, <1>4, RestGrows
  <2>2. Append(batch, row) \in Seq(Rows)
    BY <1>4
  <2> HIDE DEF R
  <2> QED BY <1>0, <1>4, <2>1, <2>2
<1>10. InHand'
  <2>1. CASE batch' = <<>> /\ toClient' = Append(toClient, Reply("batch", EncodeBatch(Append(batch, row))))
    <3> DEFINE b == EncodeBatch(Append(batch, row))
    <3>1. b \in Bodies /\ "batch" \in FrameTypes
      BY <1>9, BodyForms DEF FrameTypes
    <3>2. toClient' = toClient \o <<Reply("batch", b)>>
      BY <1>1, <2>1, <3>1, SentFrame
    <3>3. c <= n + 1 /\ sstmt \in Nat
      BY <1>2, <1>4
    <3>4. Way(<<Reply("batch", EncodeBatch(SubSeq(R, c + 1, Len(R))))>>, R, sstmt, "stream", c, "stream", Len(R))
      BY <1>6, <3>3, BatchWay
    <3>5. Way(<<Reply("batch", b)>>, R, cstmt, a, c, a, n + 1)
      BY <1>2, <1>4, <1>6, <1>9, <3>4
    <3> HIDE DEF b, R
    <3>6. Way(toClient', R, cstmt, cpc, Len(rs), a, n + 1)
      BY <1>8, <3>2, <3>5, WayConcat
    <3>7. SubSeq(R, (n + 1) + 1, n + 1) = <<>>
      BY <1>4, SubSeqEmpty
    <3>8. Reached(a, n + 1)' /\ n + 1 \in Nat
      BY <1>1, <1>4, <1>6, <2>1, <3>7 DEF Reached
    <3> QED BY <1>2, <1>5, <1>6, <3>6, <3>8 DEF InHand
  <2>2. CASE batch' = Append(batch, row) /\ toClient' = toClient
    <3> HIDE DEF R
    <3>1. c <= Len(R) /\ batch' = SubSeq(R, c + 1, Len(R)) /\ total' = Len(R)
      <4>1. c <= Len(R) /\ total' = Len(R)
        BY <1>0, <1>1, <1>3, <1>4, <1>6
      <4> QED BY <1>6, <1>9, <2>2, <4>1
    <3>2. Reached(a, c)'
      BY <1>1, <1>4, <1>6, <3>1 DEF Reached
    <3> QED BY <1>2, <1>5, <1>6, <1>8, <2>2, <3>2 DEF InHand
  <2> QED BY <1>1, <2>1, <2>2
<1>11. Types'
  <2>1. pulled' \in [1..MaxStmts -> Seq(Rows)]
    <3>1. Append(pulled[sstmt], row) \in Seq(Rows)
      BY <1>0, <1>2, <1>6 DEF Given
    <3> QED BY <1>1, <1>2, <3>1 DEF Inv, Types
  <2> QED BY <1>1, <1>5, <2>1 DEF Inv, Types
<1>12. Wait'
  <2>1. rs = SubSeq(P, 1, Len(rs)) /\ (cpc = "reply" => rs = <<>>)
    BY <1>0, <1>2 DEF Inv, Wait
  <2>2. Len(rs) \in Nat
    BY DEF Inv, Types
  <2>3. SubSeq(R, 0 + 1, Len(rs)) = SubSeq(P, 0 + 1, Len(rs))
    BY <1>0, <1>2, <2>2, SubSeqGrow
  <2>4. rs = SubSeq(R, 1, Len(rs)) /\ Len(rs) <= n + 1
    <3>1. SubSeq(R, 1, Len(rs)) = SubSeq(P, 1, Len(rs))
      <4>1. 0 + 1 = 1
        OBVIOUS
      <4> HIDE DEF R
      <4> QED BY <2>3, <4>1
    <3>2. Len(rs) <= n + 1
      BY <1>0, <1>2, <2>2
    <3> QED BY <2>1, <3>1, <3>2
  <2> HIDE DEF R
  <2> QED BY <1>2, <1>5, <1>6, <1>10, <2>1, <2>4 DEF Wait
<1>13. Verdicts'
  <2>1. \A s \in 1..MaxStmts : s > cstmt => s # cstmt
    BY <1>2
  <2>2. verdict.kind # "none" => verdict.stmt \in 1..MaxStmts /\ verdict.stmt # cstmt
    <3>1. verdict.kind # "none" => verdict.stmt \in 1..cstmt /\ verdict.stmt # cstmt
      BY <1>2 DEF Inv, Verdicts
    <3>2. \A x \in 1..cstmt : x \in 1..MaxStmts
      BY <1>2, WireConstants
    <3> QED BY <3>1, <3>2
  <2> QED BY <1>2, <1>5, <1>7, <2>1, <2>2 DEF Inv, Verdicts
<1>14. Rest'
  BY <1>5 DEF Rest
<1> QED BY <1>11, <1>12, <1>13, <1>14 DEF Inv

-----------------------------------------------------------------------------
(* The connection *)

\* A step of the connection or of the client's sending: what is left to show.
LEMMA QuietVerdicts ==
  ASSUME Verdicts, UNCHANGED <<cpc, cstmt, verdict, pulled>>
  PROVE  Verdicts'
BY DEF Verdicts, Replying

\* A client that has not got anything yet.
LEMMA NothingYet ==
  ASSUME NEW P \in Seq(Rows), NEW s
  PROVE  Way(<<>>, P, s, "reply", 0, "reply", 0) /\ SubSeq(P, 1, 0) = <<>> /\ Len(<<>>) = 0
         /\ 0 <= Len(P) /\ "reply" \in Phases /\ 0 \in Nat
<1>1. "reply" \in Phases /\ 0 \in Nat /\ Len(<<>>) = 0 /\ 0 <= Len(P)
  BY DEF Phases
<1>2. SubSeq(P, 1, 0) = <<>>
  BY SubSeqEmpty
<1> QED BY <1>1, <1>2, WayNone

\* spawn_client.
LEMMA AcceptInv == ASSUME Inv, Accept PROVE Inv'
<1>1. /\ spc = "accept" /\ spc' = "recv" /\ link' = "open"
      /\ UNCHANGED <<toServer, toClient, sstmt, batch, total, notices, pulled, cpc, cstmt, rs, verdict>>
  BY DEF Accept, client
<1>2. link = "waiting" /\ Given' = Given /\ Replying' = Replying
  BY <1>1 DEF Inv, Types, Given, Replying
<1>3. Types' /\ Rest'
  BY <1>1, <1>2 DEF Inv, Types, Rest
<1>4. Replying => Sent
  BY <1>1, <1>2 DEF Inv, Wait, InHand, CutOff, Refused
<1>5. Replying => Sent'
  BY <1>1, <1>2, <1>4 DEF Sent
<1>6. Wait'
  BY <1>1, <1>2, <1>5 DEF Inv, Wait
<1> QED BY <1>1, <1>3, <1>6, QuietVerdicts DEF Inv

\* spawn_client at the limit.
LEMMA RefuseInv == ASSUME Inv, Refuse PROVE Inv'
<1>1. /\ spc = "accept" /\ spc' = "gone" /\ link' = "closed" /\ toClient' = Refusal
      /\ UNCHANGED <<toServer, sstmt, batch, total, notices, pulled, cpc, cstmt, rs, verdict>>
  BY DEF Refuse, client, Refusal
<1>2. link = "waiting" /\ Given' = Given /\ Replying' = Replying
  BY <1>1 DEF Inv, Types, Given, Replying
<1>3. Types' /\ Rest'
  BY <1>1, <1>2 DEF Inv, Types, Rest, Refusal
<1>4. Replying => Sent
  BY <1>1, <1>2 DEF Inv, Wait, InHand, CutOff, Refused
<1>5. Replying => Refused'
  BY <1>1, <1>2, <1>4 DEF Sent, Refused, Refusal
<1>6. Wait'
  BY <1>1, <1>2, <1>5 DEF Inv, Wait
<1> QED BY <1>1, <1>3, <1>6, QuietVerdicts DEF Inv

\* The line is cut.
LEMMA CutInv == ASSUME Inv, Cut PROVE Inv'
<1>1. PICK n \in 0..Len(toClient) : toClient' = SubSeq(toClient, 1, n)
  BY DEF Cut
<1>2. /\ link = "open" /\ link' = "closed" /\ spc' = "gone"
      /\ UNCHANGED <<sstmt, batch, total, notices, pulled, cpc, cstmt, rs, verdict>>
  BY DEF Cut, client
<1>3. Given' = Given /\ Replying' = Replying
  BY <1>2 DEF Given, Replying
<1>4. Types'
  BY <1>2 DEF Inv, Types
<1>5. Rest'
  <2>1. ~Replying /\ cpc = "idle" => toClient' = <<>>
    <3> SUFFICES ASSUME ~Replying, cpc = "idle" PROVE toClient' = <<>>
      OBVIOUS
    <3>1. toClient = <<>>
      BY <1>2 DEF Inv, Rest
    <3>2. n = 0
      BY <1>1, <3>1
    <3> QED BY <1>1, <3>2, SubSeqEmpty
  <2> QED BY <1>2, <1>3, <2>1 DEF Rest
<1>6. Wait'
  <2> SUFFICES ASSUME Replying PROVE CutOff'
    BY <1>2, <1>3 DEF Inv, Wait
  <2>1. PICK a \in Phases, c \in Nat : Way(toClient, Given, cstmt, cpc, Len(rs), a, c)
    <3>1. CASE InHand
      BY <3>1 DEF InHand
    <3>2. CASE Sent
      <4>1. cstmt \in 1..MaxStmts
        BY WireConstants DEF Inv, Types, Wait
      <4>2. Given \in Seq(Rows) /\ rs = <<>> /\ cpc = "reply" /\ toClient = <<>>
        BY <3>2, <4>1 DEF Inv, Types, Wait, Given, Sent
      <4> QED BY <4>2, NothingYet
    <3> QED BY <1>2, <3>1, <3>2 DEF Inv, Wait, CutOff, Refused
  <2>2. \E a1 \in Phases, c1 \in Nat : Way(toClient', Given, cstmt, cpc, Len(rs), a1, c1)
    BY <1>1, <2>1, WayPrefix
  <2> QED BY <1>2, <1>3, <2>2 DEF CutOff
<1> QED BY <1>2, <1>4, <1>5, <1>6, QuietVerdicts DEF Inv

\* The session receives the query, or learns that the client leaves.
LEMMA RecvQueryInv == ASSUME Inv, RecvQuery PROVE Inv'
<1>1. /\ spc = "recv" /\ toServer # <<>>
      /\ toServer' = Tail(toServer) /\ sstmt' = Head(toServer).stmt
      /\ toClient' = toClient \o (IF notices THEN <<Frame("notice", <<>>, sstmt')>> ELSE <<>>)
      /\ IF Head(toServer).type = "query" THEN spc' = "parse" /\ link' = link
                                          ELSE spc' = "gone" /\ link' = "closed"
      /\ UNCHANGED <<batch, total, notices, pulled, cpc, cstmt, rs, verdict>>
  BY DEF RecvQuery, client
<1>2. link = "open" /\ Given' = Given /\ Replying' = Replying
  BY <1>1 DEF Inv, Types, Given, Replying
<1>3. CASE Replying
  <2>1. Sent
    BY <1>1, <1>2, <1>3 DEF Inv, Wait, InHand, CutOff, Refused
  <2>2. cpc = "reply" /\ Given = <<>> /\ toServer = <<Frame("query", <<>>, cstmt)>> /\ toClient = <<>>
    BY <2>1 DEF Sent
  <2>3. Head(toServer).type = "query" /\ Head(toServer).stmt = cstmt /\ Tail(toServer) = <<>>
    BY <2>2 DEF Frame
  <2>4. spc' = "parse" /\ link' = "open" /\ sstmt' = cstmt /\ toServer' = <<>>
    BY <1>1, <1>2, <2>3
  <2>5. rs = <<>> /\ cstmt \in Nat /\ notices \in BOOLEAN /\ cstmt \in 1..MaxStmts
    BY <1>3, <2>2, WireConstants DEF Inv, Wait, Types
  <2> DEFINE X == IF notices THEN <<Frame("notice", <<>>, cstmt)>> ELSE <<>>
  <2>6. Way(X, Given, cstmt, "reply", 0, "reply", 0) /\ X \in Seq(Frames)
    <3>1. Given \in Seq(Rows) /\ "reply" \in Phases
      BY <2>5 DEF Inv, Types, Given, Phases
    <3>2. CASE ~notices
      BY <3>1, <3>2, NothingYet
    <3>3. CASE notices
      <4>1. Frame("notice", <<>>, cstmt) \in Frames
        BY <2>5, BodyForms DEF Frame, Frames, FrameTypes
      <4>2. Hop(Frame("notice", <<>>, cstmt), Given, cstmt, "reply", 0, "reply", 0)
        BY DEF Hop, Frame
      <4>3. Way(<<Frame("notice", <<>>, cstmt)>>, Given, cstmt, "reply", 0, "reply", 0)
        BY <3>1, <4>1, <4>2, WayOne
      <4> QED BY <3>3, <4>1, <4>3
    <3> QED BY <3>2, <3>3
  <2>7. toClient' = X
    <3>1. toClient' = <<>> \o X
      BY <1>1, <2>2, <2>4
    <3> HIDE DEF X
    <3> QED BY <2>6, <3>1, ConcatEmptySeq
  <2> HIDE DEF X
  <2>8. Reached("reply", 0)'
    BY <1>2, <2>2, <2>4 DEF Reached
  <2>9. InHand'
    <3>1. Len(rs) = 0 /\ 0 \in Nat /\ "reply" \in Phases
      BY <2>5 DEF Phases
    <3>2. Way(toClient', Given', cstmt', cpc', Len(rs'), "reply", 0)
      BY <1>1, <1>2, <2>2, <2>6, <2>7, <3>1
    <3> QED BY <1>1, <2>4, <2>8, <3>1, <3>2 DEF InHand
  <2>10. Types' /\ Rest'
    BY <1>1, <1>2, <1>3, <2>4 DEF Inv, Types, Rest
  <2>11. Wait'
    BY <1>1, <1>2, <2>9 DEF Inv, Wait
  <2> QED BY <1>1, <2>10, <2>11, QuietVerdicts DEF Inv
<1>4. CASE ~Replying
  <2>1. cpc = "gone" /\ toServer = <<Frame("quit", <<>>, cstmt)>>
    BY <1>1, <1>2, <1>4 DEF Inv, Types, Rest, Replying
  <2>2. Head(toServer).type = "quit"
    BY <2>1 DEF Frame
  <2>3. spc' = "gone" /\ link' = "closed"
    BY <1>1, <2>2
  <2>4. Types' /\ Rest' /\ Wait'
    BY <1>1, <1>2, <1>4, <2>1, <2>3 DEF Inv, Types, Rest, Wait
  <2> QED BY <1>1, <2>4, QuietVerdicts DEF Inv
<1> QED BY <1>3, <1>4

-----------------------------------------------------------------------------
(* The client *)

\* A statement is sent.
LEMMA SendQueryInv == ASSUME Inv, SendQuery PROVE Inv'
<1>1. /\ cpc = "idle" /\ cstmt < MaxStmts
      /\ cpc' = "reply" /\ cstmt' = cstmt + 1 /\ rs' = <<>>
      /\ toServer' = IF link = "closed" THEN toServer
                     ELSE Append(toServer, Frame("query", <<>>, cstmt + 1))
      /\ UNCHANGED <<toClient, link, spc, sstmt, batch, total, notices, pulled, verdict>>
  BY DEF SendQuery, session
<1>2. ~Replying /\ Replying' /\ cstmt' \in 1..MaxStmts /\ cstmt \in Nat
  BY <1>1, WireConstants DEF Inv, Types, Replying
<1>3. Given' = <<>> /\ Given' \in Seq(Rows)
  BY <1>1, <1>2 DEF Inv, Types, Verdicts, Given
<1>4. Types'
  BY <1>1, <1>2, WireConstants DEF Inv, Types
<1>5. Rest'
  BY <1>2 DEF Rest
<1>6. /\ Way(<<>>, Given', cstmt', "reply", 0, "reply", 0) /\ SubSeq(Given', 1, 0) = <<>> /\ Len(<<>>) = 0
      /\ 0 <= Len(Given') /\ "reply" \in Phases /\ 0 \in Nat
  <2>1. PICK P \in Seq(Rows) : P = Given'
    BY <1>3
  <2>2. PICK s : s = cstmt'
    OBVIOUS
  <2> QED BY <2>1, <2>2, NothingYet
<1>7. CASE link = "closed"
  <2>1. toClient \in {<<>>, Refusal}
    BY <1>1, <1>2, <1>7 DEF Inv, Rest
  <2>2. toClient' = <<>> => CutOff'
    BY <1>1, <1>6, <1>7 DEF CutOff
  <2>3. toClient' = Refusal => Refused'
    BY <1>1, <1>7 DEF Refused, Refusal
  <2>4. Wait'
    BY <1>1, <1>2, <1>6, <2>1, <2>2, <2>3 DEF Wait, Refusal
  <2>5. Verdicts'
    BY <1>1, <1>2 DEF Inv, Verdicts
  <2> QED BY <1>4, <1>5, <2>4, <2>5 DEF Inv
<1>8. CASE link # "closed"
  <2>1. toServer = <<>> /\ toClient = <<>> /\ spc \in {"accept", "recv"}
    BY <1>1, <1>2, <1>8 DEF Inv, Types, Rest
  <2>2. toServer' = <<Frame("query", <<>>, cstmt')>>
    BY <1>1, <1>8, <2>1
  <2>3. Sent'
    BY <1>1, <1>3, <1>8, <2>1, <2>2 DEF Sent
  <2>4. Wait'
    BY <1>1, <1>2, <1>6, <2>3 DEF Wait
  <2>5. Verdicts'
    BY <1>1, <1>2 DEF Inv, Verdicts
  <2> QED BY <1>4, <1>5, <2>4, <2>5 DEF Inv
<1> QED BY <1>7, <1>8

\* The client leaves.
LEMMA QuitInv == ASSUME Inv, Quit PROVE Inv'
<1>1. /\ cpc = "idle" /\ cpc' = "gone"
      /\ toServer' = IF link = "closed" THEN toServer ELSE Append(toServer, Frame("quit", <<>>, cstmt))
      /\ UNCHANGED <<toClient, link, spc, sstmt, batch, total, notices, pulled, cstmt, rs, verdict>>
  BY DEF Quit, session
<1>2. ~Replying /\ ~Replying'
  BY <1>1 DEF Replying
<1>3. Types' /\ Wait' /\ Verdicts'
  BY <1>1, <1>2 DEF Inv, Types, Wait, Verdicts
<1>4. Rest'
  <2>1. link # "closed" => toServer' = <<Frame("quit", <<>>, cstmt)>>
    BY <1>1, <1>2 DEF Inv, Rest
  <2> QED BY <1>1, <1>2, <2>1 DEF Inv, Rest
<1> QED BY <1>3, <1>4 DEF Inv

\* What the first frame under way is.
LEMMA Reads ==
  ASSUME Inv, Replying, toClient # <<>>, ~Refused
  PROVE  \E a1 \in Phases, c1 \in Nat, a2 \in Phases, c2 \in Nat :
           /\ Hop(Head(toClient), Given, cstmt, cpc, Len(rs), a1, c1)
           /\ Way(Tail(toClient), Given, cstmt, a1, c1, a2, c2)
           /\ link = "closed" \/ (link = "open" /\ toServer = <<>> /\ sstmt = cstmt /\ Reached(a2, c2))
<1>1. InHand \/ CutOff
  BY DEF Inv, Wait, Sent
<1>2. PICK a2 \in Phases, c2 \in Nat :
        /\ Way(toClient, Given, cstmt, cpc, Len(rs), a2, c2)
        /\ link = "closed" \/ (link = "open" /\ toServer = <<>> /\ sstmt = cstmt /\ Reached(a2, c2))
  <2>1. CASE InHand
    BY <2>1 DEF InHand
  <2>2. CASE CutOff
    BY <2>2 DEF CutOff
  <2> QED BY <1>1, <2>1, <2>2
<1>3. PICK a1 \in Phases, c1 \in Nat :
        /\ Hop(Head(toClient), Given, cstmt, cpc, Len(rs), a1, c1)
        /\ Way(Tail(toClient), Given, cstmt, a1, c1, a2, c2)
  BY <1>2, WayTail
<1> QED BY <1>2, <1>3

\* Nothing is under way behind the frame that ends a statement.
LEMMA NothingBehind ==
  ASSUME NEW q, NEW P, NEW s, NEW c, NEW a2, NEW c2, Way(q, P, s, "done", c, a2, c2)
  PROVE  q = <<>> /\ a2 = "done"
<1>1. q = <<>>
  <2> SUFFICES ASSUME q # <<>> PROVE FALSE
    OBVIOUS
  <2>1. PICK a1 \in Phases, c1 \in Nat : Hop(Head(q), P, s, "done", c, a1, c1)
    BY WayTail
  <2> QED BY <2>1 DEF Hop
<1>2. Len(q) = 0
  BY <1>1
<1> QED BY <1>1, <1>2 DEF Way

\* What consuming a frame leaves alone.
LEMMA Consumed ==
  ASSUME Consume
  PROVE  /\ toClient' = Tail(toClient)
         /\ UNCHANGED <<toServer, link, cstmt, spc, sstmt, batch, total, notices, pulled>>
         /\ Given' = Given
BY DEF Consume, session, Given

\* The client goes on with its statement.
LEMMA GoesOn ==
  ASSUME Inv, Replying, toClient # <<>>, ~Refused, Consume, cpc' \in {"reply", "stream"},
         verdict' = verdict, rs' \in Seq(Rows), Len(rs') <= Len(Given), rs' = SubSeq(Given, 1, Len(rs')),
         cpc' = "reply" => rs' = <<>>,
         \A a1 \in Phases, c1 \in Nat :
           Hop(Head(toClient), Given, cstmt, cpc, Len(rs), a1, c1) => a1 = cpc' /\ c1 = Len(rs')
  PROVE  Inv'
<1>1. PICK a1 \in Phases, c1 \in Nat, a2 \in Phases, c2 \in Nat :
           /\ Hop(Head(toClient), Given, cstmt, cpc, Len(rs), a1, c1)
           /\ Way(Tail(toClient), Given, cstmt, a1, c1, a2, c2)
           /\ link = "closed" \/ (link = "open" /\ toServer = <<>> /\ sstmt = cstmt /\ Reached(a2, c2))
  BY Reads
<1>2. /\ toClient' = Tail(toClient)
      /\ UNCHANGED <<toServer, link, cstmt, spc, sstmt, batch, total, notices, pulled>>
      /\ Given' = Given
  BY Consumed
<1>3. Way(toClient', Given', cstmt', cpc', Len(rs'), a2, c2)
  BY <1>1, <1>2
<1>4. Reached(a2, c2) => Reached(a2, c2)'
  BY <1>2 DEF Reached
<1>5. InHand' \/ CutOff'
  BY <1>1, <1>2, <1>3, <1>4 DEF InHand, CutOff
<1>6. Replying'
  BY DEF Replying
<1>7. Types' /\ Rest'
  BY <1>2, <1>6 DEF Inv, Types, Rest
<1>8. Wait'
  BY <1>2, <1>5 DEF Inv, Wait
<1>9. Verdicts'
  BY <1>2 DEF Inv, Verdicts
<1> QED BY <1>7, <1>8, <1>9 DEF Inv

\* The client is done with its statement.
LEMMA Ends ==
  ASSUME Inv, Replying, toClient # <<>>, Consume, NEW kind, NEW rows, Done(kind, rows), rs' = <<>>,
         kind = "rows" => rows = Given /\ ~Refused,
         ~Refused => \A a1 \in Phases, c1 \in Nat :
           Hop(Head(toClient), Given, cstmt, cpc, Len(rs), a1, c1) => a1 = "done"
  PROVE  Inv'
<1>1. /\ toClient' = Tail(toClient)
      /\ UNCHANGED <<toServer, link, cstmt, spc, sstmt, batch, total, notices, pulled>>
      /\ Given' = Given
  BY Consumed
<1>2. /\ cpc' = "idle" /\ verdict'.kind = kind /\ verdict'.stmt = cstmt
      /\ verdict'.from = Head(toClient).stmt /\ verdict'.rows = rows
  BY DEF Done, Outcome
<1>3. /\ toClient' = <<>> /\ Head(toClient).stmt \in {cstmt, 0}
      /\ link = "closed" \/ (link = "open" /\ toServer = <<>> /\ spc = "recv")
  <2>1. CASE Refused
    <3>1. toClient = Refusal /\ link = "closed"
      BY <2>1 DEF Refused
    <3> QED BY <1>1, <3>1 DEF Refusal, Frame
  <2>2. CASE ~Refused
    <3>1. PICK a1 \in Phases, c1 \in Nat, a2 \in Phases, c2 \in Nat :
           /\ Hop(Head(toClient), Given, cstmt, cpc, Len(rs), a1, c1)
           /\ Way(Tail(toClient), Given, cstmt, a1, c1, a2, c2)
           /\ link = "closed" \/ (link = "open" /\ toServer = <<>> /\ sstmt = cstmt /\ Reached(a2, c2))
      BY <2>2, Reads
    <3>2. a1 = "done"
      BY <2>2, <3>1
    <3>3. Tail(toClient) = <<>> /\ a2 = "done"
      BY <3>1, <3>2, NothingBehind
    <3>4. Head(toClient).stmt = cstmt
      BY <3>1 DEF Hop
    <3>5. link = "open" => spc = "recv"
      BY <3>1, <3>3 DEF Reached
    <3> QED BY <1>1, <3>1, <3>3, <3>4, <3>5
  <2> QED BY <2>1, <2>2
<1>4. ~Replying' /\ cstmt \in 1..cstmt
  BY <1>2 DEF Replying, Inv, Types, Wait
<1>5. Types' /\ Wait'
  BY <1>1, <1>2, <1>4 DEF Inv, Types, Wait
<1>6. Rest'
  BY <1>1, <1>2, <1>3 DEF Inv, Types, Rest
<1>7. Verdicts'
  BY <1>1, <1>2, <1>3, <1>4 DEF Inv, Verdicts, Given
<1> QED BY <1>5, <1>6, <1>7 DEF Inv

\* The rows a waiting client has.
LEMMA RowsSoFar ==
  ASSUME Inv, Replying
  PROVE  /\ Given \in Seq(Rows) /\ Len(Given) \in Nat /\ Len(rs) \in Nat /\ Len(rs) <= Len(Given)
         /\ rs = SubSeq(Given, 1, Len(rs))
         /\ cpc = "reply" => rs = <<>>
<1>1. cstmt \in 1..MaxStmts
  BY WireConstants DEF Inv, Types, Wait
<1>2. Given \in Seq(Rows) /\ Len(Given) \in Nat
  BY <1>1 DEF Inv, Types, Given
<1>3. Len(rs) <= Len(Given) /\ rs = SubSeq(Given, 1, Len(rs)) /\ (cpc = "reply" => rs = <<>>)
  BY DEF Inv, Wait
<1>4. Len(rs) \in Nat
  BY DEF Inv, Types
<1> QED BY <1>2, <1>3, <1>4

\* A notice is shown, and nothing else.
LEMMA RecvNoticeInv == ASSUME Inv, RecvNotice PROVE Inv'
<1>1. Replying /\ toClient # <<>> /\ Head(toClient).type = "notice" /\ Consume /\ UNCHANGED <<cpc, rs, verdict>>
  BY DEF RecvNotice, Receives, Replying
<1>2. ~Refused
  BY <1>1 DEF Refused, Refusal, Frame
<1>3. \A a1 \in Phases, c1 \in Nat :
        Hop(Head(toClient), Given, cstmt, cpc, Len(rs), a1, c1) => a1 = cpc' /\ c1 = Len(rs')
  BY <1>1 DEF Hop
<1>4. /\ rs' \in Seq(Rows) /\ Len(rs') <= Len(Given) /\ rs' = SubSeq(Given, 1, Len(rs'))
      /\ cpc' = "reply" => rs' = <<>>
  BY <1>1 DEF Inv, Types, Wait
<1>5. cpc' \in {"reply", "stream"} /\ verdict' = verdict
  BY <1>1 DEF Replying
<1> QED BY <1>1, <1>2, <1>3, <1>4, <1>5, GoesOn

\* The head of a result set.
LEMMA RecvHeadInv == ASSUME Inv, RecvHead PROVE Inv'
<1>1. /\ Replying /\ cpc = "reply" /\ toClient # <<>> /\ Head(toClient).type = "head" /\ Consume
      /\ cpc' = "stream" /\ rs' = <<>> /\ verdict' = verdict
  BY DEF RecvHead, Receives, Replying
<1>2. ~Refused
  BY <1>1 DEF Refused, Refusal, Frame
<1>3. rs = <<>>
  BY <1>1 DEF Inv, Wait
<1>4. \A a1 \in Phases, c1 \in Nat :
        Hop(Head(toClient), Given, cstmt, cpc, Len(rs), a1, c1) => a1 = cpc' /\ c1 = Len(rs')
  BY <1>1, <1>3 DEF Hop
<1>5. rs' \in Seq(Rows) /\ Len(rs') <= Len(Given) /\ rs' = SubSeq(Given, 1, Len(rs'))
  BY <1>1, <1>3 DEF Inv, Wait, Types
<1> QED BY <1>1, <1>2, <1>4, <1>5, GoesOn

\* A batch is read back and its rows are those that come next.
LEMMA RecvBatchInv == ASSUME CellsFit, Inv, RecvBatch PROVE Inv'
<1> DEFINE d == DecodeBatch(Head(toClient).body)
           x == Len(rs)
<1>1. /\ Replying /\ cpc = "stream" /\ toClient # <<>> /\ Head(toClient).type = "batch" /\ Consume
      /\ IF d.ok THEN rs' = rs \o d.rows /\ UNCHANGED <<cpc, verdict>> ELSE Done("garbled", <<>>) /\ rs' = <<>>
  BY DEF RecvBatch, Receives, Replying
<1>2. ~Refused
  BY <1>1 DEF Refused, Refusal, Frame
<1>3. Given \in Seq(Rows) /\ Len(Given) \in Nat /\ x \in Nat /\ x <= Len(Given) /\ rs = SubSeq(Given, 1, x)
  BY <1>1, RowsSoFar
<1>4. ASSUME NEW a1 \in Phases, NEW c1 \in Nat, Hop(Head(toClient), Given, cstmt, cpc, x, a1, c1)
      PROVE  /\ a1 = "stream" /\ x <= c1 /\ c1 <= Len(Given)
             /\ rs' = SubSeq(Given, 1, c1) /\ Len(rs') = c1 /\ rs' \in Seq(Rows)
             /\ UNCHANGED <<cpc, verdict>>
  <2>1. /\ a1 = "stream" /\ x <= c1 /\ c1 <= Len(Given)
        /\ Head(toClient).body = EncodeBatch(SubSeq(Given, x + 1, c1))
    BY <1>1, <1>4 DEF Hop
  <2>2. SubSeq(Given, x + 1, c1) \in Seq(Rows)
    <3>1. \A i \in (x + 1)..c1 : i \in 1..Len(Given)
      BY <1>3, <2>1
    <3>2. \A i \in (x + 1)..c1 : Given[i] \in Rows
      BY <1>3, <3>1
    <3>3. x + 1 \in Int /\ c1 \in Int
      BY <1>3
    <3> QED BY <3>2, <3>3, SubSeqProperties
  <2>3. d = [ok |-> TRUE, rows |-> SubSeq(Given, x + 1, c1)]
    BY <2>1, <2>2, RoundTrip
  <2>4. d.ok = TRUE /\ d.rows = SubSeq(Given, x + 1, c1)
    <3> HIDE DEF d
    <3> QED BY <2>3
  <2> HIDE DEF d
  <2>5. rs' = SubSeq(Given, 1, x) \o SubSeq(Given, x + 1, c1) /\ UNCHANGED <<cpc, verdict>>
    BY <1>1, <1>3, <2>4
  <2>6. 1 \in 1..(Len(Given) + 1) /\ x \in (1 - 1)..Len(Given) /\ c1 \in x..Len(Given)
    BY <1>3, <2>1
  <2>7. rs' = SubSeq(Given, 1, c1)
    BY <1>3, <2>5, <2>6, ConcatAdjacentSubSeq
  <2>8. SubSeq(Given, 1, c1) \in Seq(Rows) /\ Len(SubSeq(Given, 1, c1)) = c1
    BY <1>3, <2>1
  <2> QED BY <2>1, <2>5, <2>7, <2>8
<1>5. PICK a1 \in Phases, c1 \in Nat : Hop(Head(toClient), Given, cstmt, cpc, Len(rs), a1, c1)
  BY <1>1, <1>2, Reads
<1>6. /\ rs' = SubSeq(Given, 1, c1) /\ Len(rs') = c1 /\ rs' \in Seq(Rows) /\ c1 <= Len(Given)
      /\ UNCHANGED <<cpc, verdict>>
  BY <1>4, <1>5
<1>7. \A b1 \in Phases, e1 \in Nat :
        Hop(Head(toClient), Given, cstmt, cpc, Len(rs), b1, e1) => b1 = cpc' /\ e1 = Len(rs')
  BY <1>1, <1>4, <1>6
<1>8. /\ Len(rs') <= Len(Given) /\ rs' = SubSeq(Given, 1, Len(rs')) /\ cpc' = "stream" /\ verdict' = verdict
  BY <1>1, <1>6
<1> HIDE DEF d, x
<1> QED BY <1>1, <1>2, <1>6, <1>7, <1>8, GoesOn

\* The end of a result set: every row has come.
LEMMA RecvEndInv == ASSUME Inv, RecvEnd PROVE Inv'
<1>1. /\ Replying /\ cpc = "stream" /\ toClient # <<>> /\ Head(toClient).type = "end" /\ Consume /\ rs' = <<>>
      /\ IF Head(toClient).body = <<Len(rs)>> THEN Done("rows", rs) ELSE Done("garbled", <<>>)
  BY DEF RecvEnd, Receives, Replying
<1>2. ~Refused
  BY <1>1 DEF Refused, Refusal, Frame
<1>3. \A a1 \in Phases, c1 \in Nat :
        Hop(Head(toClient), Given, cstmt, cpc, Len(rs), a1, c1) =>
          a1 = "done" /\ Len(rs) = Len(Given) /\ Head(toClient).body = <<Len(rs)>>
  BY <1>1 DEF Hop
<1>4. \E a1 \in Phases, c1 \in Nat : Hop(Head(toClient), Given, cstmt, cpc, Len(rs), a1, c1)
  BY <1>1, <1>2, Reads
<1>5. Len(rs) = Len(Given) /\ Done("rows", rs)
  BY <1>1, <1>3, <1>4
<1>6. rs = Given
  <2>1. rs = SubSeq(Given, 1, Len(Given)) /\ Given \in Seq(Rows)
    BY <1>1, <1>5, RowsSoFar
  <2> QED BY <2>1, SubSeqFull
<1> QED BY <1>1, <1>2, <1>3, <1>5, <1>6, Ends

\* Ok or Error.
LEMMA RecvAnswerInv == ASSUME Inv, RecvAnswer PROVE Inv'
<1>1. /\ Replying /\ toClient # <<>> /\ Head(toClient).type \notin Continues /\ Consume /\ rs' = <<>>
      /\ Done(IF Head(toClient).type \in Answers THEN Head(toClient).type ELSE "garbled", <<>>)
  BY DEF RecvAnswer, Replying
<1> DEFINE kind == IF Head(toClient).type \in Answers THEN Head(toClient).type ELSE "garbled"
<1>2. kind # "rows"
  BY DEF Answers
<1>3. \A a1 \in Phases, c1 \in Nat :
        Hop(Head(toClient), Given, cstmt, cpc, Len(rs), a1, c1) => a1 = "done"
  BY <1>1 DEF Hop, Continues, Replying
<1>4. PICK k : k = kind
  OBVIOUS
<1>5. Done(k, <<>>) /\ k # "rows"
  BY <1>1, <1>2, <1>4
<1> HIDE DEF kind
<1> QED BY <1>1, <1>3, <1>5, Ends

\* The connection is lost.
LEMMA DisconnectedInv == ASSUME Inv, Disconnected PROVE Inv'
<1>1. /\ Replying /\ link = "closed" /\ cpc' = "idle" /\ rs' = <<>> /\ toClient' = <<>>
      /\ verdict'.kind = "lost" /\ verdict'.stmt = cstmt /\ verdict'.from = cstmt
      /\ UNCHANGED <<toServer, link, spc, sstmt, batch, total, notices, pulled, cstmt>>
  BY DEF Disconnected, session, Outcome, Replying
<1>2. ~Replying' /\ cstmt \in 1..cstmt
  BY <1>1 DEF Replying, Inv, Types, Wait
<1>3. Types' /\ Rest' /\ Wait'
  BY <1>1, <1>2 DEF Inv, Types, Rest, Wait
<1>4. Verdicts'
  BY <1>1, <1>2 DEF Inv, Verdicts
<1> QED BY <1>3, <1>4 DEF Inv

-----------------------------------------------------------------------------
(* Theorems *)

\* The initial state.
LEMMA InitInv == Init => Inv
<1> SUFFICES ASSUME Init PROVE Inv
  OBVIOUS
<1>1. /\ cpc = "idle" /\ cstmt = 0 /\ rs = <<>> /\ verdict.kind = "none" /\ spc = "accept" /\ link = "waiting"
      /\ toServer = <<>> /\ toClient = <<>> /\ notices = FALSE
      /\ pulled = [s \in 1..MaxStmts |-> <<>>]
  BY DEF Init
<1>2. ~Replying
  BY <1>1 DEF Replying
<1>3. pulled \in [1..MaxStmts -> Seq(Rows)] /\ \A s \in 1..MaxStmts : pulled[s] = <<>>
  BY <1>1
<1> DEFINE nothing == <<>>
<1>4. nothing \in Seq(Rows)
  OBVIOUS
<1>5. rs \in Seq(Rows)
  BY <1>1, <1>4
<1>6. cstmt \in 0..MaxStmts
  BY <1>1, WireConstants
<1>7. notices \in BOOLEAN
  BY <1>1, Zenon
<1>8. Types
  BY <1>1, <1>3, <1>5, <1>6, <1>7 DEF Types
<1>9. Rest /\ Wait /\ Verdicts
  BY <1>1, <1>2, <1>3 DEF Rest, Wait, Verdicts
<1> QED BY <1>8, <1>9 DEF Inv

\* The inductive invariant: the frames under way are those of the client's own
\* statement and bring it, row for row, to where the session is.
THEOREM WireInvariant == CellsFit => (Spec => []Inv)
<1> SUFFICES ASSUME CellsFit PROVE Spec => []Inv
  OBVIOUS
<1>1. Init => Inv
  BY InitInv
<1>2. Inv /\ [Next]_vars => Inv'
  <2> SUFFICES ASSUME Inv, [Next]_vars PROVE Inv'
    OBVIOUS
  <2>1. CASE Accept \/ Refuse \/ Cut \/ SendQuery \/ Quit
    BY <2>1, AcceptInv, RefuseInv, CutInv, SendQueryInv, QuitInv
  <2>2. CASE RecvQuery \/ Parsed \/ SyntaxError \/ AnswerError \/ AnswerControl
    BY <2>2, RecvQueryInv, ParsedInv, OnlyAnswerInv
  <2>3. CASE AnswerOk \/ AnswerSet \/ SendHead \/ StreamEnd \/ StreamError
    BY <2>3, AnswerOkInv, AnswerSetInv, SendHeadInv, StreamEndInv, StreamErrorInv
  <2>4. ASSUME NEW row \in Rows, StreamRow(row) PROVE Inv'
    BY <2>4, StreamRowInv
  <2>5. CASE ClientStep
    BY <2>5, DisconnectedInv, RecvNoticeInv, RecvAnswerInv, RecvHeadInv, RecvBatchInv, RecvEndInv
       DEF ClientStep
  <2>6. CASE UNCHANGED vars
    <3>1. /\ UNCHANGED <<toServer, toClient, link, spc, sstmt, batch, total, notices, cpc, cstmt, rs, verdict, pulled>>
          /\ Given' = Given /\ Replying' = Replying
      BY <2>6 DEF vars, Given, Replying
    <3>2. Types' /\ Rest' /\ Verdicts'
      BY <3>1 DEF Inv, Types, Rest, Verdicts
    <3>3. \A a, c : Reached(a, c) => Reached(a, c)'
      BY <3>1 DEF Reached
    <3>4. (Sent => Sent') /\ (InHand => InHand') /\ (CutOff => CutOff') /\ (Refused => Refused')
      BY <3>1, <3>3 DEF Sent, InHand, CutOff, Refused
    <3>5. Wait'
      BY <3>1, <3>4 DEF Inv, Wait
    <3> QED BY <3>2, <3>5 DEF Inv
  <2> QED BY <2>1, <2>2, <2>3, <2>4, <2>5, <2>6 DEF Next, SessionStep
<1> QED BY <1>1, <1>2, PTL DEF Spec

\* RowsExact: what the client shows as a result is what the operators gave for
\* that statement, row for row and complete (send_result_stream,
\* recv_result_stream).
THEOREM RowsHold == CellsFit => (Spec => []RowsExact)
<1> SUFFICES ASSUME CellsFit PROVE Spec => []RowsExact
  OBVIOUS
<1>1. Inv => RowsExact
  BY DEF Inv, Verdicts, RowsExact
<1>2. Spec => []Inv
  BY WireInvariant
<1> QED BY <1>1, <1>2, PTL

\* InStep: the client never takes a frame of one statement for the answer to
\* another (send_to_server).
THEOREM InStepHolds == CellsFit => (Spec => []InStep)
<1> SUFFICES ASSUME CellsFit PROVE Spec => []InStep
  OBVIOUS
<1>1. Inv => InStep
  BY DEF Inv, Verdicts, InStep
<1>2. Spec => []Inv
  BY WireInvariant
<1> QED BY <1>1, <1>2, PTL

=============================================================================
