----------------------------- MODULE MCPlanner -----------------------------
(* Planner for TLC: a table with a column of every type but double, four     *)
(* indexes, and clauses of up to three atoms.                                *)
EXTENDS Planner

MCTypes == [A |-> "int", B |-> "int", N |-> "dec", P |-> "bool",
            F |-> "float", G |-> "bigint", T |-> "varchar", C |-> "char"]
MCIndexes == <<[name |-> "ib", col |-> "B", ord |-> 1], [name |-> "ia", col |-> "A", ord |-> 0],
               [name |-> "ip", col |-> "P", ord |-> 3], [name |-> "if", col |-> "F", ord |-> 4]>>

\* F is B as a float (0.5 and 1.0 are the patterns 1 and 2), G a multiple of
\* A that no int holds; the texts are one word, C padded.
Version(a, b, n, p, live) ==
  [vals |-> [A |-> a, B |-> b, N |-> n, P |-> p,
             F |-> IF b = Null THEN Null ELSE Val("float", 2 * b.u, 0),
             G |-> IF a = Null THEN Null ELSE BigVal(5 * a.u),
             T |-> IF p = Null THEN Null ELSE Val("varchar", 1, 1),
             C |-> Val("char", 1, 1)],
   live |-> live]

MCRows ==
  {Version(a, b, n, p, TRUE) :
     a \in {Null, IntVal(0), IntVal(1), IntVal(2)}, b \in {Null, IntVal(0), IntVal(1)},
     n \in {Null, DecVal(15, 1)}, p \in {Null, BoolVal(TRUE)}}
  \cup {Version(IntVal(1), Null, Null, BoolVal(FALSE), FALSE)}

A == Col("A")
B == Col("B")
N == Col("N")
F == Col("F")
G == Col("G")
T == Col("T")
C == Col("C")
I(i) == IntLit(i)
Dec(u, s) == Const(DecVal(u, s))
NullLit == Const(Null)
One == Const(Val("double", 6, 0))       \* 1e0
CmpOps == {"=", "#", "<", "<=", ">", ">="}

\* Conjuncts an index on A or B can answer.
IndexAtoms ==
  {Cmp(op, A, I(1)) : op \in CmpOps} \cup {IsNull(A, FALSE), IsNull(A, TRUE)}
  \cup {Cmp("<", I(0), A), Cmp(">=", I(1), A), Cmp("=", B, I(0)), Cmp("<", A, I(2))}

\* The rest: constants, self-comparisons, other types, errors, casts.
OtherAtoms ==
  {Const(BoolVal(TRUE)), Const(BoolVal(FALSE)), NullLit, Col("P"),
   Cmp("=", A, A), Cmp("<", A, A), Cmp("#", A, B), Cmp("=", A, NullLit), Cmp("<", I(1), I(2)),
   Cmp("=", A, Dec(10, 1)), Cmp("=", Col("P"), Const(BoolVal(TRUE))),
   Cmp("=", Binary("/", I(1), I(0)), I(1)), Cmp("=", Binary("/", I(2), A), I(1)),
   Cmp("=", Binary("/", A, I(0)), I(1)), Cmp("=", Binary("+", A, NullLit), I(1)),
   Cmp("=", A, Binary("+", I(1), I(1))), Cmp(">", Binary("+", A, N), I(2)),
   Cmp(">", Minus(A), Minus(I(1))), Cmp("=", Call(A), Call(I(1))), Between(A, I(0), I(1)),
   Cmp("<=", CastAs(N, "dec", 2, 0), CastAs(N, "dec", 2, 0)), Cmp("=", CastAs(N, "dec", 2, 0), I(2)),
   IsNull(Cmp("=", A, A), FALSE), IsNull(I(1), FALSE)}

\* Operations on two types, texts, and clauses the analyzer refuses.
Numbers == {A, N, F, G, One, NullLit}
MixedAtoms ==
  {Cmp("<", Binary(op, x, y), G) : op \in {"+", "/"}, x \in Numbers, y \in Numbers}
  \cup {Cmp(op, F, x) : op \in CmpOps, x \in {One, Dec(10, 1), Dec(3, 1), I(1), Minus(F), Call(F)}}
  \cup {Cmp("=", x, y) : x \in {T, C, A, Col("P")}, y \in {T, C, F, NullLit}}
  \cup {Cmp("=", f, I(5)) : f \in {Plus(G), Minus(G), Call(G), Call(N), Call(NullLit), Minus(NullLit)}}
  \cup {Cmp("=", CastAs(x, t, Unstated, Unstated), y) :
          x \in {A, G, N, F, NullLit}, t \in {"int", "bigint", "double", "bool"}, y \in {A, Col("P")}}
  \cup {Cmp("=", CastAs(x, t, l, Unstated), T) : x \in {T, C}, t \in {"varchar", "char"}, l \in {Unstated, 0, 1, 2, 3}}
  \cup {CastAs(A, "bool", Unstated, Unstated), CastAs(A, "int", 1, Unstated), CastAs(N, "dec", 1, 2),
        Cmp("=", CastAs(A, "dec", 2, 1), A), Cmp("=", Col("X"), A), Cmp("=", I(2^10), A), Cmp("<", A, I(9)),
        Cmp("=", Minus(T), A), Cmp("=", Binary("+", T, A), A), Cmp("=", Call(T), A),
        Between(F, T, One), Between(F, Dec(5, 1), One), A, T, IsNull(T, FALSE), IsNull(Minus(NullLit), TRUE)}

Atoms == IndexAtoms \cup OtherAtoms
Pairs(xs, ys) == {Logic(op, x, y) : op \in {"and", "or"}, x \in xs, y \in ys}

MCClauses ==
  Atoms \cup Pairs(Atoms, Atoms) \cup {Not(x) : x \in Atoms \cup Pairs(Atoms, Atoms)} \cup {Not(Not(x)) : x \in Atoms}
  \cup {Logic("and", x, y) : x \in IndexAtoms, y \in Pairs(IndexAtoms, IndexAtoms)}
  \cup MixedAtoms \cup {Not(x) : x \in MixedAtoms} \cup Pairs(MixedAtoms, {Cmp("=", A, I(1)), NullLit, Cmp("<", F, One)})

\* Comparisons of two casts of one column to different scales.
MCCastClauses ==
  {Cmp(op, CastAs(N, "dec", 2, s), CastAs(N, "dec", 2, t)) : op \in CmpOps, s \in 0..1, t \in 0..1}
=============================================================================
