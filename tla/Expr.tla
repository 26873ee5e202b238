-------------------------------- MODULE Expr --------------------------------
(***************************************************************************)
(* Bound expressions (src/analyzer/bound_expr.h) and their evaluation      *)
(* (src/expr/expr_eval.cpp). Every operand is evaluated; an error in one   *)
(* is the result. The evaluator relies on the analyzer for the types of    *)
(* its operands and raises Internal when one is of another kind.           *)
(***************************************************************************)
EXTENDS Conversion

Const(v)           == [k |-> "const", v |-> v]
Col(c)             == [k |-> "col", c |-> c]
Arith(op, l, r, t) == [k |-> "arith", op |-> op, l |-> l, r |-> r, ty |-> t]
Neg(x, t)          == [k |-> "neg", x |-> x, ty |-> t]
Cmp(op, l, r)      == [k |-> "cmp", op |-> op, l |-> l, r |-> r]
Logic(op, l, r)    == [k |-> "logic", op |-> op, l |-> l, r |-> r]
Not(x)             == [k |-> "not", x |-> x]
IsNull(x, neg)     == [k |-> "isnull", x |-> x, neg |-> neg]
Func(x, t)         == [k |-> "func", x |-> x, ty |-> t]      \* abs, a strict function
Cast(x, t, p, s)   == [k |-> "cast", x |-> x, ty |-> t, p |-> p, s |-> s]

\* Family: what may be compared with what.
Family(t) == CASE t \in Ints \cup Floats \cup {"dec"} -> "num"
               [] t \in Texts -> "text"
               [] OTHER -> t

-----------------------------------------------------------------------------

ArithIn(op, l, r, t) ==
  IF Failed(l) THEN l ELSE IF Failed(r) THEN r
  ELSE CASE t = "dec"     -> DecArith(op, l, r)
         [] t \in Floats -> FpArith(op, l, r, t)
         [] OTHER        -> IntArith(op, l.u, r.u, t)

\* eval_binary: NULL comes before the checks for zero and overflow; both
\* operands are converted to the type the analyzer gave the node.
EvalArith(op, a, b, t) ==
  IF a = Null \/ b = Null THEN Null
  ELSE ArithIn(op, CastValue(a, t, Implicit), CastValue(b, t, Implicit), t)

NegIn(x, t) ==
  IF Failed(x) THEN x
  ELSE IF t \in Floats THEN RoundTo(-InUnits(x.u, t), Units, t) ELSE IntNeg(x.u, t)

\* eval_neg.
EvalNeg(a, t) ==
  IF a = Null THEN Null
  ELSE IF t = "dec" THEN (IF a.t = "dec" THEN DecVal(-a.u, a.s) ELSE Internal)
  ELSE NegIn(CastValue(a, t, Implicit), t)

\* eval_func_call of the overloads of abs.
EvalAbs(a, t) ==
  IF a = Null THEN Null
  ELSE IF a.t # t THEN Internal
  ELSE IF t = "dec" THEN DecVal(Abs(a.u), a.s)
  ELSE IF t \in Floats THEN RoundTo(Abs(InUnits(a.u, t)), Units, t) ELSE IntAbs(a.u, t)

\* What a comparison makes of the order of its operands.
Holds(op, c) == CASE op = "=" -> c = 0 [] op = "#" -> c # 0 [] op = "<" -> c < 0
                  [] op = "<=" -> c <= 0 [] op = ">" -> c > 0 [] op = ">=" -> c >= 0

\* eval_compare.
EvalCompare(op, a, b) ==
  IF a = Null \/ b = Null THEN Null
  ELSE IF Family(a.t) # Family(b.t) THEN Internal
  ELSE BoolVal(Holds(op, ValueCmp(a, b)))

Truth(v) == v = Null \/ v.t = "bool"

\* eval_logic: three-valued AND and OR.
EvalLogic(op, a, b) ==
  LET absorbing == BoolVal(op = "or")
  IN IF ~Truth(a) \/ ~Truth(b) THEN Internal
     ELSE IF a = absorbing \/ b = absorbing THEN absorbing
     ELSE IF a = Null \/ b = Null THEN Null
     ELSE BoolVal(op = "and")

EvalNot(a) == IF a = Null THEN Null ELSE IF ~Truth(a) THEN Internal ELSE BoolVal(a.u = 0)

\* A node with two operands, or one, applied to their values.
EvalBinary(e, a, b) ==
  IF Failed(a) THEN a ELSE IF Failed(b) THEN b
  ELSE CASE e.k = "arith" -> EvalArith(e.op, a, b, e.ty)
         [] e.k = "cmp"   -> EvalCompare(e.op, a, b)
         [] e.k = "logic" -> EvalLogic(e.op, a, b)

EvalUnary(e, a) ==
  IF Failed(a) THEN a
  ELSE CASE e.k = "neg"    -> EvalNeg(a, e.ty)
         [] e.k = "func"   -> EvalAbs(a, e.ty)
         [] e.k = "not"    -> EvalNot(a)
         [] e.k = "isnull" -> BoolVal((a = Null) # e.neg)
         [] e.k = "cast"   -> CastTo(a, e.ty, e.p, e.s)

\* eval_bound.
RECURSIVE Eval(_, _)
Eval(e, vals) ==
  CASE e.k = "const" -> e.v
    [] e.k = "col"   -> vals[e.c]
    [] e.k \in {"arith", "cmp", "logic"} -> EvalBinary(e, Eval(e.l, vals), Eval(e.r, vals))
    [] OTHER -> EvalUnary(e, Eval(e.x, vals))

=============================================================================
