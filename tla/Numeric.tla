------------------------------ MODULE Numeric ------------------------------
(***************************************************************************)
(* The arithmetic of src/expr/expr_eval.cpp, src/expr/expr_func_math.cpp   *)
(* and src/storage/cast.cpp: 32- and 64-bit integers and fixed-point       *)
(* decimals. A decimal is an unscaled integer and a scale; its value is    *)
(* u / 10^s. Widths and limits are constants, so that the boundary cases   *)
(* are within reach; an operation that raises yields Error.                *)
(*                                                                         *)
(* ValueUnit runs these operators and states what they compute.            *)
(***************************************************************************)
EXTENDS Integers

CONSTANTS
  UnscaledMax,    \* kNumericUnscaledMax (10^38): magnitudes stay below it
  MaxScale,       \* largest scale (255)
  DivDigits,      \* digits a quotient gains (4)
  IntBits,        \* width of int (32)
  BigBits         \* width of bigint (64)

ASSUME NumericLimits ==
  /\ UnscaledMax \in {10^k : k \in 1..9}
  /\ MaxScale \in Nat /\ DivDigits \in Nat
  /\ IntBits \in Nat \ {0} /\ BigBits \in Nat \ {0} /\ IntBits < BigBits

-----------------------------------------------------------------------------
(* Values. st::Value is a type and a box; u is the integer, the unscaled    *)
(* decimal or the truth value (0 or 1), s the scale of a decimal.           *)

Val(t, u, s) == [t |-> t, u |-> u, s |-> s]
Null         == Val("null", 0, 0)
Error        == Val("error", 0, 0)
IntVal(i)    == Val("int", i, 0)
BigVal(i)    == Val("bigint", i, 0)
DecVal(u, s) == Val("dec", u, s)
BoolVal(b)   == Val("bool", IF b THEN 1 ELSE 0, 0)

Abs(a)     == IF a < 0 THEN -a ELSE a
SignOf(a)  == IF a < 0 THEN -1 ELSE IF a = 0 THEN 0 ELSE 1
Larger(a, b) == IF a > b THEN a ELSE b

\* C++ integer division and remainder: towards zero, sign of the dividend.
TDiv(a, b) == IF (a < 0) = (b < 0) THEN Abs(a) \div Abs(b) ELSE -(Abs(a) \div Abs(b))
TRem(a, b) == a - b * TDiv(a, b)

-----------------------------------------------------------------------------
(* Integers *)

IntMin(t) == -(2^((IF t = "int" THEN IntBits ELSE BigBits) - 1))
IntMax(t) == 2^((IF t = "int" THEN IntBits ELSE BigBits) - 1) - 1
Fits(i, t) == IntMin(t) <= i /\ i <= IntMax(t)

\* eval_binary on integers: the 64-bit result overflows or not, then the
\* width of the result type is checked.
IntArith(op, l, r, t) ==
  LET out == CASE op = "+" -> l + r
               [] op = "-" -> l - r
               [] op = "*" -> l * r
               [] op = "/" -> IF r = 0 THEN 0 ELSE TDiv(l, r)
      overflows == IF op = "/" THEN l = IntMin("bigint") /\ r = -1 ELSE ~Fits(out, "bigint")
  IN IF (op = "/" /\ r = 0) \/ overflows \/ (t = "int" /\ ~Fits(out, "int"))
       THEN Error
       ELSE Val(t, out, 0)

IntNegWide(i, t) == IF i = IntMin("bigint") THEN Error ELSE Val(t, -i, 0)

\* eval_neg on integers.
IntNeg(i, t) ==
  IF i = IntMin("bigint") \/ (t = "int" /\ i = IntMin("int")) THEN Error ELSE Val(t, -i, 0)

\* eval_abs_int, eval_abs_bigint.
IntAbs(i, t) == IF i = IntMin(t) THEN Error ELSE Val(t, Abs(i), 0)

\* eval_mod_int, eval_mod_bigint.
IntMod(l, r, t) ==
  IF r = 0 THEN Error
  ELSE IF l = IntMin("bigint") /\ r = -1 THEN Val(t, 0, 0)
  ELSE Val(t, TRem(l, r), 0)

-----------------------------------------------------------------------------
(* Decimals *)

\* dec_align: scale up; a non-zero value that reaches the limit raises.
Aligns(u, from, to) == u = 0 \/ from >= to \/ Abs(u) * 10^(to - from) < UnscaledMax
Aligned(u, from, to) == IF from >= to THEN u ELSE u * 10^(to - from)

\* dec_result_scale.
ResultScale(op, l, r) ==
  LET hi == Larger(l.s, r.s)
  IN CASE op \in {"+", "-"} -> hi
       [] op = "*" -> l.s + r.s
       [] op = "/" -> IF hi + DivDigits > MaxScale THEN MaxScale ELSE hi + DivDigits

\* dec_div's loop: quotient, remainder and "too large" after i more digits.
LongDivision(ua, ub, t) ==
  LET step[i \in 0..t] ==
        IF i = 0 THEN [q |-> ua \div ub, rem |-> ua % ub, big |-> FALSE]
        ELSE LET p == step[i - 1]
             IN IF p.big \/ p.q >= UnscaledMax \div 10 THEN [p EXCEPT !.big = TRUE]
                ELSE [q |-> p.q * 10 + (p.rem * 10) \div ub,
                      rem |-> (p.rem * 10) % ub, big |-> FALSE]
  IN step[t]

DecDivTruncated(l, r, rs) ==
  IF r.u = 0 THEN Error
  ELSE LET d == LongDivision(Abs(l.u), Abs(r.u), rs + r.s - l.s)
       IN IF d.big \/ d.q >= UnscaledMax THEN Error
          ELSE DecVal(IF (l.u < 0) # (r.u < 0) THEN -d.q ELSE d.q, rs)

\* dec_div: long division to the target scale, rounded half away from zero.
DecDiv(l, r, rs) ==
  IF r.u = 0 THEN Error
  ELSE LET d == LongDivision(Abs(l.u), Abs(r.u), rs + r.s - l.s)
           q == IF d.rem * 2 >= Abs(r.u) THEN d.q + 1 ELSE d.q
       IN IF d.big \/ q >= UnscaledMax THEN Error
          ELSE DecVal(IF (l.u < 0) # (r.u < 0) THEN -q ELSE q, rs)

\* dec_arith, with eval_binary's choice of the result scale.
DecArith(op, l, r) ==
  LET rs == ResultScale(op, l, r)
      lu == Aligned(l.u, l.s, rs)
      ru == Aligned(r.u, r.s, rs)
      out == CASE op = "+" -> lu + ru [] op = "-" -> lu - ru [] op = "*" -> l.u * r.u [] OTHER -> 0
  IN IF rs > MaxScale THEN Error
     ELSE IF op = "/" THEN DecDiv(l, r, rs)
     ELSE IF op # "*" /\ ~(Aligns(l.u, l.s, rs) /\ Aligns(r.u, r.s, rs)) THEN Error
     ELSE IF Abs(out) >= UnscaledMax THEN Error
     ELSE DecVal(out, rs)

DecDigits(u) == CHOOSE n \in 0..10 : u < 10^n /\ (n = 0 \/ u >= 10^(n - 1))

MagnitudeLessUnaligned(a, b) ==
  LET ea == DecDigits(Abs(a.u)) - a.s
      eb == DecDigits(Abs(b.u)) - b.s
  IN IF ea # eb THEN ea < eb ELSE Abs(a.u) < Abs(b.u)

\* The magnitudes of two non-zero decimals of one sign: by order of
\* magnitude (digits - scale), then aligned.
MagnitudeLess(a, b) ==
  LET ea == DecDigits(Abs(a.u)) - a.s
      eb == DecDigits(Abs(b.u)) - b.s
  IN IF ea # eb THEN ea < eb
     ELSE Aligned(Abs(a.u), a.s, b.s) < Aligned(Abs(b.u), b.s, a.s)

\* dec_cmp: zero first, then the sign, then the magnitudes.
DecCmp(a, b) ==
  IF a.u = 0 \/ b.u = 0 THEN SignOf(SignOf(a.u) - SignOf(b.u))
  ELSE IF (a.u < 0) # (b.u < 0) THEN SignOf(a.u)
  ELSE SignOf(a.u) * (IF MagnitudeLess(a, b) THEN -1 ELSE IF MagnitudeLess(b, a) THEN 1 ELSE 0)

\* round_dec: round(numeric, n); n may be negative.
RoundDec(d, n) ==
  IF n >= d.s THEN d
  ELSE LET p == 10^(d.s - n)
           q == Abs(d.u) \div p + (IF (Abs(d.u) % p) * 2 >= p THEN 1 ELSE 0)
           out == IF n < 0 THEN q * 10^(-n) ELSE q
       IN IF out >= UnscaledMax THEN Error
          ELSE DecVal(IF d.u < 0 THEN -out ELSE out, Larger(n, 0))

\* trunc_dec: floor (up = FALSE) and ceil (up = TRUE) of a decimal.
TruncDec(d, up) ==
  LET p == 10^d.s
      q == Abs(d.u) \div p + (IF Abs(d.u) % p # 0 /\ up # (d.u < 0) THEN 1 ELSE 0)
  IN DecVal(IF d.u < 0 THEN -q ELSE q, 0)

DecModFloored(l, r) ==
  LET s == Larger(l.s, r.s)
      b == Abs(Aligned(r.u, r.s, s))
  IN IF r.u = 0 \/ ~(Aligns(l.u, l.s, s) /\ Aligns(r.u, r.s, s)) THEN Error
     ELSE DecVal(Aligned(l.u, l.s, s) % b, s)

\* eval_mod_numeric.
DecMod(l, r) ==
  LET s == Larger(l.s, r.s)
  IN IF r.u = 0 \/ ~(Aligns(l.u, l.s, s) /\ Aligns(r.u, r.s, s)) THEN Error
     ELSE DecVal(TRem(Aligned(l.u, l.s, s), Aligned(r.u, r.s, s)), s)

DecToIntFloor(d) == LET q == d.u \div 10^d.s IN IF Fits(q, "bigint") THEN BigVal(q) ELSE Error

\* dec_round_i64 and dec_to_i64: CAST(numeric AS bigint).
DecToInt(d) ==
  LET p == 10^d.s
      mag == Abs(d.u) \div p + (IF (Abs(d.u) % p) * 2 >= p THEN 1 ELSE 0)
  IN IF mag > IntMax("bigint") THEN Error ELSE BigVal(IF d.u < 0 THEN -mag ELSE mag)

CoerceHalfUp(d, precision, scale) ==
  LET p == 10^(d.s - scale)
      u == IF d.s > scale THEN (2 * d.u + p) \div (2 * p) ELSE Aligned(d.u, d.s, scale)
  IN IF d.s <= scale /\ ~Aligns(d.u, d.s, scale) THEN Error
     ELSE IF precision > 0 /\ DecDigits(Abs(u)) > precision THEN Error
     ELSE DecVal(u, scale)

\* coerce_numeric: to a declared NUMERIC(precision, scale).
CoerceNumeric(d, precision, scale) ==
  LET p == 10^(d.s - scale)
      q == TDiv(d.u, p)
      u == IF d.s > scale
             THEN q + (IF Abs(TRem(d.u, p)) * 2 >= p THEN (IF q < 0 THEN -1 ELSE 1) ELSE 0)
             ELSE Aligned(d.u, d.s, scale)
  IN IF d.s <= scale /\ ~Aligns(d.u, d.s, scale) THEN Error
     ELSE IF precision > 0 /\ DecDigits(Abs(u)) > precision THEN Error
     ELSE DecVal(u, scale)

=============================================================================
