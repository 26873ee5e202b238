----------------------------- MODULE ValueUnit -----------------------------
(***************************************************************************)
(* The operators of Numeric, KeyCodec, Conversion and RowCodec at work on  *)
(* two registers: one operation is evaluated and the behaviour ends with   *)
(* its result. It is the expression evaluator's arithmetic, a CAST, an     *)
(* index on one column that holds two values and is probed with the        *)
(* constant of a WHERE clause, or an INSERT into a table of three columns  *)
(* and the scan that reads the row back. The properties compare every      *)
(* result with the exact rational value, and keys with the evaluator's     *)
(* comparison: the planner drops a comparison it turned into keys from the *)
(* filter, so the two must agree.                                          *)
(***************************************************************************)
EXTENDS RowCodec

CONSTANTS
  Operands,       \* decimals in the registers
  Precisions,     \* declared precisions of coercion targets, 0 for none
  RoundDigits,    \* second argument of round(numeric, int)
  Decimals,       \* numeric constants of WHERE clauses
  Words,          \* texts
  Columns         \* column specifications

ASSUME UnitConstants == Precisions \subseteq Nat /\ RoundDigits \subseteq Int

VARIABLES
  col,      \* the type of the registers, and of the indexed column
  l, r,     \* the operands, the values stored in the column, or those inserted
  op,       \* the operation evaluated last and its domain
  arg,      \* its declared precision or digits and scale, or its constant
  out       \* its result

vars == <<col, l, r, op, arg, out>>

ArithOps == {"+", "-", "*", "/"}
ColTypes == {"int", "bigint", "bool", "double", "float"}

\* The values of a column type that encode_key accepts.
Stored(t) ==
  CASE t \in {"int", "bigint"} -> {Val(t, i, 0) : i \in IntMin(t)..IntMax(t)}
    [] t = "bool"   -> {BoolVal(FALSE), BoolVal(TRUE)}
    [] t = "double" -> {Val(t, x, 0) : x \in Finite(ExpBits, ManBits)}
    [] t = "float"  -> {Val(t, x, 0) : x \in Finite(FExpBits, FManBits)}

Constants == UNION {Stored(t) : t \in ColTypes} \cup Decimals

Registers(t) == CASE t = "dec" -> Operands
                  [] t \in Texts -> {Val(t, w.u, w.s) : w \in Words} \cup {Null}
                  [] OTHER -> Stored(t) \cup {Null}

Init == /\ col \in ColTypes \cup Texts \cup {"dec"} /\ l \in Registers(col) /\ r \in Registers(col)
        /\ op = <<"none", col>> /\ arg = <<0, 0>> /\ out = Null

Fresh == op[1] = "none"

Evaluate(o, t, a, v) ==
  Fresh /\ col = "dec" /\ op' = <<o, t>> /\ arg' = a /\ out' = v /\ UNCHANGED <<col, l, r>>

EvalArith   == \E o \in ArithOps : Evaluate(o, "dec", <<0, 0>>, DecArith(o, l, r))
EvalCompare == Evaluate("cmp", "dec", <<0, 0>>, IntVal(DecCmp(l, r)))
EvalMod     == Evaluate("mod", "dec", <<0, 0>>, DecMod(l, r))
EvalRound   == \E n \in RoundDigits : Evaluate("round", "dec", <<n, 0>>, RoundDec(l, n))
EvalFloor   == Evaluate("floor", "dec", <<0, 0>>, TruncDec(l, FALSE))
EvalCeil    == Evaluate("ceil", "dec", <<0, 0>>, TruncDec(l, TRUE))
EvalToInt   == Evaluate("toint", "dec", <<0, 0>>, DecToInt(l))
EvalCoerce  == \E p \in Precisions, s \in 0..MaxScale :
                 Evaluate("coerce", "dec", <<p, s>>, CoerceNumeric(l, p, s))

\* The unscaled parts, taken as integers of either width.
EvalInt ==
  \E o \in ArithOps \cup {"neg", "abs", "mod"}, t \in {"int", "bigint"} :
    /\ Fits(l.u, t) /\ Fits(r.u, t)
    /\ Evaluate(o, t, <<0, 0>>,
         CASE o = "neg" -> IntNeg(l.u, t)
           [] o = "abs" -> IntAbs(l.u, t)
           [] o = "mod" -> IntMod(l.u, r.u, t)
           [] OTHER     -> IntArith(o, l.u, r.u, t))

\* Two rows of the index, compared by their keys.
EvalKeys ==
  /\ Fresh /\ col \in ColTypes /\ op' = <<"keys", col>> /\ arg' = <<0, 0>>
  /\ out' = IntVal(KeyCmp(EncodeKey(l), EncodeKey(r))) /\ UNCHANGED <<col, l, r>>

\* match_hit asks key_of whether the constant may probe the index.
EvalProbe ==
  /\ Fresh /\ col \in ColTypes /\ op' = <<"probe", col>>
  /\ \E c \in Constants :
       /\ Probes(col, c) /\ arg' = <<c, 0>>
       /\ out' = IntVal(KeyCmp(EncodeKey(l), ProbeKey(col, c)))
  /\ UNCHANGED <<col, l, r>>

\* A bigint fits a double's and a float's range, here too.
InRangeOf(v, to) == v.t \in Ints /\ to \in Floats => Abs(v.u) * Units <= InUnits(Greatest(to), to)

\* CAST of the first register.
EvalCast ==
  /\ Fresh /\ r \in {Null, DecVal(0, 0)}
  /\ \E c \in Columns :
       /\ Converts(col, c.type) /\ InRangeOf(l, c.type)
       /\ op' = <<"cast", c.type>> /\ arg' = <<c.length, c.scale>>
       /\ out' = CastTo(l, c.type, c.length, c.scale)
  /\ UNCHANGED <<col, l, r>>

\* The row inserted: the first value goes to the third column as well.
Given == <<l, r, l>>

\* INSERT of the registers into columns the analyzer accepts them for.
EvalStore ==
  /\ Fresh
  /\ \E a, b \in Columns :
       /\ AssignmentOk(col, a) /\ AssignmentOk(col, b) /\ InRangeOf(l, a.type) /\ InRangeOf(r, b.type)
       /\ op' = <<"store", col>> /\ arg' = <<a, b, a>>
       /\ out' = StoreAndRead(<<a, b, a>>, Given)
  /\ UNCHANGED <<col, l, r>>

Next == \/ EvalArith \/ EvalCompare \/ EvalMod \/ EvalRound \/ EvalFloor
        \/ EvalCeil \/ EvalToInt \/ EvalCoerce \/ EvalInt \/ EvalKeys \/ EvalProbe
        \/ EvalCast \/ EvalStore

Spec == Init /\ [][Next]_vars

-----------------------------------------------------------------------------
(* Reference: exact rationals num / den *)

Exact(o) == CASE o = "+" -> [num |-> l.u * 10^r.s + r.u * 10^l.s, den |-> 10^(l.s + r.s)]
              [] o = "-" -> [num |-> l.u * 10^r.s - r.u * 10^l.s, den |-> 10^(l.s + r.s)]
              [] o = "*" -> [num |-> l.u * r.u, den |-> 10^(l.s + r.s)]
              [] o = "/" -> [num |-> l.u * 10^r.s, den |-> r.u * 10^l.s]

\* num / den to the nearest integer, ties away from zero.
HalfAway(num, den) ==
  SignOf(num) * SignOf(den) * ((2 * Abs(num) + Abs(den)) \div (2 * Abs(den)))

\* numeric + - * are exact, / is the exact quotient rounded half away from
\* zero, and they raise exactly when the divisor is zero, the scale or the
\* result leaves its range, or an operand of + - cannot be aligned (the
\* contracts written at dec_div, dec_result_scale and dec_arith).
DecimalExact ==
  (op[2] = "dec" /\ op[1] \in ArithOps) =>
    LET o == op[1]
        rs == ResultScale(o, l, r)
        e == Exact(o)
        q == HalfAway(e.num * 10^rs, e.den)
    IN IF \/ o = "/" /\ r.u = 0
          \/ rs > MaxScale
          \/ o \in {"+", "-"} /\ ~(Aligns(l.u, l.s, rs) /\ Aligns(r.u, r.s, rs))
       THEN out = Error
       ELSE /\ out = IF Abs(q) >= UnscaledMax THEN Error ELSE DecVal(q, rs)
            /\ o # "/" => q * e.den = e.num * 10^rs

\* dec_cmp orders decimals of different scales by their exact values.
CompareExact ==
  op[1] = "cmp" => out.u = SignOf(l.u * 10^r.s - r.u * 10^l.s)

\* The decimal rounds to the smallest bigint, which dec_round_i64 refuses
\* because it tests the magnitude (cast.cpp:215).
Smallest(v) == v.t = "dec" /\ HalfAway(v.u, 10^v.s) = IntMin("bigint")

\* round(numeric, n) and CAST(numeric AS bigint) round half away from zero,
\* floor and ceil go down and up, for values of either sign, and the CAST
\* raises outside int64 (round_dec, trunc_dec, dec_round_i64). Excepted is a
\* value that rounds to the smallest bigint.
FunctionsExact ==
  /\ op[1] = "round" =>
       LET n == arg[1]
           q == IF n >= l.s THEN l.u
                ELSE HalfAway(l.u, 10^(l.s - n)) * 10^(IF n < 0 THEN -n ELSE 0)
       IN out = IF n < l.s /\ Abs(q) >= UnscaledMax THEN Error
                ELSE DecVal(q, IF n >= l.s THEN l.s ELSE Larger(n, 0))
  /\ op[1] = "floor" => out = DecVal(l.u \div 10^l.s, 0)
  /\ op[1] = "ceil" => out = DecVal(-((-l.u) \div 10^l.s), 0)
  /\ op[1] = "toint" /\ ~Smallest(l) =>
       LET q == HalfAway(l.u, 10^l.s)
       IN out = IF Fits(q, "bigint") THEN BigVal(q) ELSE Error

\* dec_round_i64 raises only outside int64, as its comment says
\* (cast.cpp:202): also for values that round to the smallest bigint.
SmallestBigintConverts ==
  op[1] = "toint" /\ Smallest(l) => out = BigVal(IntMin("bigint"))

\* mod has the sign of the dividend, is smaller than the divisor and leaves a
\* multiple of the divisor (eval_mod_numeric).
ModExact ==
  (op = <<"mod", "dec">> /\ out # Error) =>
    LET a == l.u * 10^r.s
        b == r.u * 10^l.s
        m == out.u * 10^(l.s + r.s - out.s)
    IN /\ Abs(m) < Abs(b) /\ (a - m) % Abs(b) = 0
       /\ m # 0 => SignOf(m) = SignOf(a)

\* What NUMERIC(p, s) should hold: the value rounded half away from zero, or
\* an error when it has more than p digits or cannot be scaled up.
Coerced(v, p, s) ==
  LET q == IF v.s > s THEN HalfAway(v.u, 10^(v.s - s)) ELSE Aligned(v.u, v.s, s)
  IN IF (v.s <= s /\ ~Aligns(v.u, v.s, s)) \/ (p > 0 /\ Abs(q) >= 10^p) THEN Error
     ELSE DecVal(q, s)

\* coerce_numeric rounds half away from zero whenever the truncated value is
\* not zero or the value is not negative, and enforces the precision on the
\* rounded value (its comment: "四舍五入(远离零)到目标标度").
CoerceExact ==
  (op[1] = "coerce" /\ ~(l.u < 0 /\ l.s > arg[2] /\ Abs(l.u) < 10^(l.s - arg[2]))) =>
    out = Coerced(l, arg[1], arg[2])

\* coerce_numeric rounds half away from zero for every value, as its comment
\* says (cast.cpp:569): also when the value truncates to zero.
CoerceAwayFromZero == op[1] = "coerce" => out = Coerced(l, arg[1], arg[2])

\* Integer arithmetic yields the exact result (division towards zero) when it
\* fits the type and raises otherwise, at the edges of both widths too.
IntExact ==
  (op[2] \in Ints /\ op[1] \in ArithOps \cup {"neg", "abs", "mod"}) =>
    LET o == op[1]
        t == op[2]
        v == CASE o = "+" -> l.u + r.u [] o = "-" -> l.u - r.u [] o = "*" -> l.u * r.u
               [] o = "/" -> IF r.u = 0 THEN 0 ELSE TDiv(l.u, r.u)
               [] o = "mod" -> IF r.u = 0 THEN 0 ELSE TRem(l.u, r.u)
               [] o = "neg" -> -l.u [] o = "abs" -> Abs(l.u)
    IN out = IF (o \in {"/", "mod"} /\ r.u = 0) \/ ~Fits(v, t) THEN Error ELSE Val(t, v, 0)

\* Arithmetic, modulus and comparison of decimals and integers give the exact
\* result or raise, at every edge of their widths (dec_arith, dec_cmp,
\* eval_mod_numeric, eval_binary, eval_neg).
ArithExact == DecimalExact /\ CompareExact /\ ModExact /\ IntExact

(* What a value becomes in a type: a column's, or the target of a CAST *)

Value(v) == IF v.t \in Floats THEN [num |-> InUnits(v.u, v.t), den |-> Units]
            ELSE [num |-> v.u, den |-> 10^v.s]

Whole(v) == CASE v.t = "dec"    -> HalfAway(v.u, 10^v.s)
              [] v.t \in Floats -> TDiv(InUnits(v.u, v.t), Units)
              [] OTHER          -> v.u



\* No value of the format is nearer to x than w, or x lies beyond all of them.
Nearest(w, x, t) ==
  LET far(b) == Abs(InUnits(b, t) * x.den - x.num * Units)
      top == InUnits(Greatest(t), t)
  IN IF w = Error THEN Abs(x.num) * Units > x.den * top
     ELSE w.t = t /\ w.u \in DOMAIN FpValue[t] /\ \A b \in DOMAIN FpValue[t] : far(w.u) <= far(b)

\* The values that some conversion's comment does not hold for, each refuted
\* by a definition of its own: negative decimals that coerce_numeric truncates
\* to zero (CoerceAwayFromZero), the decimal -1, which dec_to_bool takes for 1
\* (BoolExact), and the smallest bigint (SmallestBigintConverts).
Excepted(v, c) ==
  v.t = "dec" /\ v.u < 0 /\ \/ c.type = "bool" /\ v.u = -(10^v.s)
                            \/ c.type = "dec" /\ v.s > c.scale /\ -v.u < 10^(v.s - c.scale)
                            \/ c.type = "bigint" /\ Smallest(v)

\* w is the value of c's type that v, not NULL, should become, or Error.
Becomes(w, v, c) ==
  LET x == Value(v)
      blanks == IF v.t = "char" /\ c.type = "varchar" THEN 0 ELSE v.s
      d == RoundTo(v.u, 10^v.s, "double")
  IN CASE c.type \in Ints  -> w = IF Fits(Whole(v), c.type) THEN Val(c.type, Whole(v), 0) ELSE Error
       [] c.type = "bool"  -> w = IF x.num \in {0, x.den} THEN BoolVal(x.num # 0) ELSE Error
       [] c.type = "dec"   -> w = IF c.length = 0 THEN DecVal(v.u, v.s) ELSE Coerced(v, c.length, c.scale)
       [] c.type \in Texts -> w = IF c.length > 0 /\ v.u + blanks > c.length THEN Error ELSE Val(c.type, v.u, blanks)
       [] c.type \in Floats -> IF v.t = "dec" /\ c.type = "float" /\ d # Error THEN Nearest(w, Value(d), "float")
                               ELSE Nearest(w, x, c.type)

\* CAST keeps the value, rounded as the conversion's comment says and within
\* the range of its target, or raises; never an Internal error (kCastTable,
\* eval_cast).
CastExact ==
  op[1] = "cast" =>
    LET c == [type |-> op[2], length |-> arg[1], scale |-> arg[2]]
    IN IF l = Null THEN out = Null ELSE Excepted(l, c) \/ Becomes(out, l, c)

\* dec_to_bool takes exactly 0 and 1, as its comment says (cast.cpp:311).
BoolExact == op = <<"cast", "bool">> /\ l # Null => Becomes(out, l, [type |-> "bool"])

\* Conversions of a value to another type or to fewer digits are exact or
\* round as their comments say (round_dec, trunc_dec, dec_round_i64,
\* coerce_numeric, cast_value), for all values but three kinds that break
\* those comments: negative decimals that truncate to zero (cast.cpp:581),
\* the decimal -1 as a boolean (:311), the smallest bigint (:215).
RoundingExact == FunctionsExact /\ CoerceExact /\ CastExact

\* The bytes a column's field takes.
Size(w, c) == CASE w = Null -> 0
                [] c.type = "char" -> c.length
                [] c.type = "varchar" -> 2 + TextLen(w)
                [] c.type = "dec" -> Width["dec"] + 1
                [] OTHER -> Width[c.type]

\* A row that is accepted is read back with every value that was assigned, as
\* its column's type holds it: NULLs in any position, texts padded to the
\* length of a CHAR, negative numbers and the limits of every width. It is
\* refused when a column cannot hold its value or the record is too long, and
\* for no other reason (coerce_col_value, encode_row, insert_row, decode_row).
\* What becomes of the three kinds of values in Excepted is left open.
StoredReadBack ==
  op[1] = "store" =>
    LET holds(w, i) == IF Given[i] = Null THEN w = Null /\ ~arg[i].notNull
                       ELSE \/ Excepted(Given[i], arg[i])
                            \/ arg[i].type # "char" /\ Becomes(w, Given[i], arg[i])
                            \/ arg[i].type = "char" /\ w = Val("char", Given[i].u, arg[i].length - Given[i].u)
        refused(i) == IF Given[i] = Null THEN arg[i].notNull
                      ELSE \/ Excepted(Given[i], arg[i])
                           \/ Becomes(Error, Given[i], arg[i])
        sizes(w) == Size(w[1], arg[1]) + Size(w[2], arg[2]) + Size(w[3], arg[3])
        bitmap == (2 + ByteBits) \div ByteBits
        asHeld == [i \in 1..3 |-> IF Given[i] = Null THEN Null ELSE CoerceColValue(arg[i], Given[i])]
    IN IF out = <<Error>>
       THEN (\E i \in 1..3 : refused(i)) \/ 2 + bitmap + sizes(asHeld) > MaxRecordLen
       ELSE Len(out) = 3 /\ \A i \in 1..3 : holds(out[i], i)

\* Key order is value order, NULL last, for every indexable type: equal
\* values have equal keys (both zeros), larger ones larger keys, whatever
\* their signs (encode_key; storage-design.md section 8).
KeyOrder == op[1] = "keys" => out.u = ValueCmp(l, r)

\* A constant of another type than the column finds by key exactly the rows
\* the evaluator's comparison would accept (key_of, eval_compare): a double
\* or numeric against floats, an int against bigints.
ProbeAgrees == (op[1] = "probe" /\ l # Null) => out.u = ValueCmp(l, arg[1])

=============================================================================
