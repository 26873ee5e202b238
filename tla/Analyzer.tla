------------------------------ MODULE Analyzer ------------------------------
(***************************************************************************)
(* Binding of expressions (src/analyzer/analyzer_expr.cpp): the types the  *)
(* analyzer derives for a parsed WHERE clause, and what it refuses. A      *)
(* parsed expression is a bound one without its types, with the forms the  *)
(* analyzer removes: integer literals not typed yet, unary plus, BETWEEN.  *)
(***************************************************************************)
EXTENDS Expr

CONSTANTS
  Types,      \* RowDesc: the type of each column, a function
  LenMax      \* len_max of the text types

ASSUME ColumnTypes ==
  /\ \A c \in DOMAIN Types : Types[c] \in Ints \cup Floats \cup Texts \cup {"dec", "bool"}
  /\ LenMax \in Nat \ {0}

-----------------------------------------------------------------------------
(* Parsed expressions (src/parser/ast.hh) *)

IntLit(i)          == [k |-> "int", i |-> i]
Plus(x)            == [k |-> "plus", x |-> x]
Between(x, lo, hi) == [k |-> "between", x |-> x, lo |-> lo, hi |-> hi]
Binary(op, l, r)   == Arith(op, l, r, "none")
Minus(x)           == Neg(x, "none")
Call(x)            == Func(x, "none")
Unstated           == -1                    \* no length, no scale
CastAs(x, t, p, s) == Cast(x, t, p, s)      \* a type with its length and scale

-----------------------------------------------------------------------------
(* Binding. "none" is the type of NULL, and of arithmetic on NULLs only.   *)

Typed(e, t) == [e |-> e, ty |-> t]
Refused     == Typed(Const(Null), "refused")

\* check_comparable, and "non-numeric, with a type".
ComparableUnlessBool(a, b) == "none" \in {a, b} \/ (Family(a) = "bool") = (Family(b) = "bool")

Comparable(a, b) == "none" \in {a, b} \/ Family(a) = Family(b)
Of(family, t)    == t = "none" \/ Family(t) = family

\* st::TypeAttr::rank.
Rank(t) == CASE t = "int" -> 1 [] t = "bigint" -> 2 [] t = "dec" -> 3
             [] t = "float" -> 4 [] t = "double" -> 5 [] OTHER -> 0

ResultTypeLeft(l, r) == IF l = "none" THEN r ELSE l

\* The domain of an arithmetic operation.
ResultType(l, r) ==
  IF {l, r} = {"dec", "float"} THEN "double" ELSE IF Rank(l) >= Rank(r) THEN l ELSE r

\* map_type_spec: the length and scale of a type as written, with defaults
\* (kTypeSeeds); the precision of a NUMERIC is limited by its representation.
Length(a) == IF a.p # Unstated THEN a.p ELSE IF a.ty = "char" THEN 1 ELSE 0
Scale(a)  == IF a.s # Unstated THEN a.s ELSE 0
TypeSpecOk(a) ==
  /\ a.p # Unstated => a.p > 0 /\ \/ a.ty \in Texts /\ a.p <= LenMax
                                  \/ a.ty = "dec" /\ 10^a.p <= UnscaledMax
  /\ a.s # Unstated => a.ty = "dec"
  /\ Scale(a) \in 0..Length(a)

\* A cast to the operand's own type that has no length to check is the operand.
BindCast(a, x) ==
  IF ~TypeSpecOk(a) THEN Refused
  ELSE IF x.ty = a.ty /\ Length(a) = 0 THEN x
  ELSE Typed(Cast(x.e, a.ty, Length(a), Scale(a)), a.ty)

BindBinary(a, l, r) ==
  CASE a.k = "arith" -> IF Of("num", l.ty) /\ Of("num", r.ty)
                          THEN LET t == ResultType(l.ty, r.ty) IN Typed(Arith(a.op, l.e, r.e, t), t)
                          ELSE Refused
    [] a.k = "cmp"   -> IF Comparable(l.ty, r.ty) THEN Typed(Cmp(a.op, l.e, r.e), "bool") ELSE Refused
    [] a.k = "logic" -> IF Of("bool", l.ty) /\ Of("bool", r.ty)
                          THEN Typed(Logic(a.op, l.e, r.e), "bool") ELSE Refused

\* bind_func_call: the overloads of abs, one for each numeric type; the types
\* of the arguments match exactly or the call is refused.
BindUnary(a, x) ==
  CASE a.k = "plus"   -> IF Of("num", x.ty) THEN x ELSE Refused
    [] a.k = "neg"    -> IF Of("num", x.ty) THEN Typed(Neg(x.e, x.ty), x.ty) ELSE Refused
    [] a.k = "func"   -> IF Family(x.ty) = "num" THEN Typed(Func(x.e, x.ty), x.ty) ELSE Refused
    [] a.k = "not"    -> IF Of("bool", x.ty) THEN Typed(Not(x.e), "bool") ELSE Refused
    [] a.k = "isnull" -> Typed(IsNull(x.e, a.neg), "bool")
    [] a.k = "cast"   -> BindCast(a, x)

\* An integer literal is an int when it fits one, a bigint otherwise.
BindInt(i) ==
  LET t == IF Fits(i, "int") THEN "int" ELSE "bigint"
  IN IF Fits(i, "bigint") THEN Typed(Const(Val(t, i, 0)), t) ELSE Refused

\* bind_expr. BETWEEN becomes two comparisons of the same expression.
RECURSIVE BindExpr(_)
BindExpr(a) ==
  CASE a.k = "int"   -> BindInt(a.i)
    [] a.k = "const" -> Typed(a, IF a.v = Null THEN "none" ELSE a.v.t)
    [] a.k = "col"   -> IF a.c \in DOMAIN Types THEN Typed(a, Types[a.c]) ELSE Refused
    [] a.k \in {"arith", "cmp", "logic"} ->
         LET l == BindExpr(a.l)
             r == BindExpr(a.r)
         IN IF Refused \in {l, r} THEN Refused ELSE BindBinary(a, l, r)
    [] a.k = "between" -> BindExpr(Logic("and", Cmp(">=", a.x, a.lo), Cmp("<=", a.x, a.hi)))
    [] OTHER -> LET x == BindExpr(a.x) IN IF x = Refused THEN Refused ELSE BindUnary(a, x)

\* bind_where.
BindWhere(a) == LET b == BindExpr(a) IN IF b # Refused /\ Of("bool", b.ty) THEN b ELSE Refused

=============================================================================
