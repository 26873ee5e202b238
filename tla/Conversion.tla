----------------------------- MODULE Conversion -----------------------------
(***************************************************************************)
(* Conversions of values (src/storage/cast.cpp): the dispatch table with   *)
(* its three tiers, and the two places that use it: CAST in an expression  *)
(* (eval_cast, src/expr/expr_eval.cpp) and the assignment of a value to a  *)
(* column (check_assignment_type, src/analyzer/analyzer_insert.cpp, and    *)
(* coerce_col_value, src/executor/executor.cpp).                           *)
(*                                                                         *)
(* A text is a word of u letters followed by s blanks: what comparison and *)
(* padding tell apart. Conversions from and to text, and of floats to      *)
(* decimals (which go through the shortest text), are left out.            *)
(***************************************************************************)
EXTENDS KeyCodec, FiniteSetsExt, Functions

Ints   == {"int", "bigint"}
Floats == {"float", "double"}
Texts  == {"varchar", "char"}

\* DB_RAISE(Internal): the caller has broken a contract of the callee.
Internal  == Val("internal", 0, 0)
Failed(v) == v = Error \/ v = Internal

TextLen(v) == v.u + v.s

-----------------------------------------------------------------------------
(* Floating point *)

\* The exact value of each finite pattern times Units.
FpValue == [double |-> [b \in Finite(ExpBits, ManBits) |-> Signed(b)],
            float  |-> [b \in Finite(FExpBits, FManBits) |-> Signed(Widen(b))]]

InUnits(b, t) == FpValue[t][b]

Greatest(t) == 2^((IF t = "double" THEN ExpBits + ManBits ELSE FExpBits + FManBits))
               - 2^(IF t = "double" THEN ManBits ELSE FManBits) - 1

\* The value among vals (pattern to value) nearest to x / den, ties to the
\* even pattern; past half a step beyond the greatest pattern, top, the result
\* is infinite, which the code refuses.
NearestOf(x, den, vals, top, t) ==
  LET dist == [b \in DOMAIN vals |-> Abs(vals[b] * den - x)]
      near == LET least == Min(Range(dist)) IN {b \in DOMAIN dist : dist[b] = least}
  IN IF 2 * Abs(x) >= den * (3 * vals[top] - vals[top - 1]) THEN Error
     ELSE Val(t, CHOOSE b \in near : \A c \in near : b % 2 < c % 2 \/ (b % 2 = c % 2 /\ b <= c), 0)

\* num / den in a format, with IEEE 754's rounding. A zero is the positive
\* one: no comparison or key tells the two apart.
RoundTo(num, den, t) == NearestOf(num * Units, den, FpValue[t], Greatest(t), t)

\* eval_binary in the float or double domain, on values in Units; a / 0 is not
\* finite.
FpResult(op, x, y, t) ==
  IF op = "/" /\ y = 0 THEN Error
  ELSE LET num == CASE op = "+" -> x + y [] op = "-" -> x - y
                    [] op = "*" -> x * y [] op = "/" -> SignOf(y) * x
           den == CASE op \in {"+", "-"} -> Units [] op = "*" -> Units * Units [] op = "/" -> Abs(y)
       IN RoundTo(num, den, t)

FpArith(op, a, b, t) == FpResult(op, InUnits(a.u, t), InUnits(b.u, t), t)

-----------------------------------------------------------------------------
(* The table *)

Implicit   == 0
Assignment == 1
Explicit   == 2
NoEntry    == 3

\* kCastTable's tiers, with cast_value's exception for bigint to int.
Tier(from, to) ==
  CASE "none" \in {from, to} -> NoEntry
    [] <<from, to>> \in {<<"bigint", "int">>, <<"double", "float">>} -> Assignment
    [] \/ from = to
       \/ from \in Ints /\ to \in Ints \cup Floats \cup {"dec"}
       \/ from \in Floats \cup {"dec"} /\ to \in Floats
       \/ from \in Texts /\ to \in Texts -> Implicit
    [] OTHER -> Explicit

\* i64_restamp.
ToInt(i, from, to) == IF from = "bigint" /\ to = "int" /\ ~Fits(i, "int") THEN Error ELSE Val(to, i, 0)

\* trunc_to_i64: towards zero.
FpToInt(v, to) ==
  LET i == TDiv(InUnits(v.u, v.t), Units) IN IF Fits(i, "bigint") THEN Val(to, i, 0) ELSE Error

\* dec_to_f64, and dec_to_f32 by way of double.
Narrowed(d, to) == IF d = Error \/ to = "double" THEN d ELSE RoundTo(InUnits(d.u, "double"), Units, to)
DecToFp(v, to) == Narrowed(RoundTo(v.u, 10^v.s, "double"), to)

\* The conversions to bool: 0 and 1 only. dec_to_bool looks at the magnitude.
Equals(v, n) == CASE v.t \in Floats -> InUnits(v.u, v.t) = n * Units
                  [] v.t = "dec"    -> Abs(v.u) = n * 10^v.s
                  [] OTHER          -> v.u = n
ToBool(v) == IF Equals(v, 0) \/ Equals(v, 1) THEN BoolVal(Equals(v, 1)) ELSE Error

\* The pairs of types modelled.
Converts(from, to) ==
  /\ (from \in Texts) = (to \in Texts)
  /\ ~(from \in Floats /\ to = "dec")

IntOf(v, to) ==
  CASE v.t \in Ints   -> ToInt(v.u, v.t, to)
    [] v.t \in Floats -> FpToInt(v, to)
    [] v.t = "dec"    -> IF DecToInt(v) = Error THEN Error ELSE Val(to, DecToInt(v).u, 0)
    [] v.t = "bool"   -> Val(to, v.u, 0)

\* i64_to_f32 rounds once, without a double in between.
FpOf(v, to) ==
  CASE v.t = to       -> v
    [] v.t = "dec"    -> DecToFp(v, to)
    [] OTHER          -> IF v.t \in Floats THEN RoundTo(InUnits(v.u, v.t), Units, to) ELSE RoundTo(v.u, 1, to)

\* The entries of kCastTable.
Convert(v, to) ==
  CASE to \in Ints   -> IntOf(v, to)
    [] to \in Floats -> FpOf(v, to)
    [] to = "dec"    -> DecVal(v.u, v.s)
    [] to = "bool"   -> IF v.t = "bool" THEN v ELSE ToBool(v)
    [] to \in Texts  -> Val(to, v.u, IF v.t = "char" /\ to = "varchar" THEN 0 ELSE v.s)

CastValue(v, to, mode) == IF Tier(v.t, to) > mode THEN Internal ELSE Convert(v, to)

\* coerce_numeric in full: by way of the table (n) to the declared
\* NUMERIC(len, scl); a type without a length takes n as it is.
Declared(n, to, len, scl) ==
  IF to = "dec" /\ len > 0 /\ ~Failed(n) THEN CoerceNumeric(n, len, scl) ELSE n

\* Faulty: without the checks after the table.
CastUnchecked(v, to, len, scl) ==
  IF v = Null THEN Null ELSE Declared(CastValue(v, to, Explicit), to, len, scl)

\* eval_cast's own checks on what comes out of the table: the range of int and
\* the length of a text.
Checked(out, to, len) ==
  IF Failed(out) THEN out
  ELSE IF to = "int" /\ ~Fits(out.u, "int") THEN Error
  ELSE IF to \in Texts /\ len > 0 /\ TextLen(out) > len THEN Error
  ELSE out

\* eval_cast: CAST(v AS to(len, scl)).
CastTo(v, to, len, scl) ==
  IF v = Null THEN Null ELSE Checked(Declared(CastValue(v, to, Explicit), to, len, scl), to, len)

-----------------------------------------------------------------------------
(* Assignment to a column: [type, length, scale, notNull] *)

\* check_assignment_type: what the analyzer lets be assigned.
AssignmentOk(t, col) ==
  \/ t = "none"
  \/ CASE col.type \in Ints   -> t \in Ints
       [] col.type \in Floats -> t \in Ints \cup Floats \cup {"dec"}
       [] col.type \in Texts  -> t \in Texts
       [] col.type = "bool"   -> t = "bool"
       [] col.type = "dec"    -> t \in Ints \cup {"dec"}

\* coerce_col_value.
CoerceColValue(col, v) ==
  IF v = Null THEN (IF col.notNull THEN Error ELSE Null)
  ELSE Declared(CastValue(v, col.type, Assignment), col.type, col.length, col.scale)

=============================================================================
