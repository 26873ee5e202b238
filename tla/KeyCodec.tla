------------------------------ MODULE KeyCodec ------------------------------
(***************************************************************************)
(* Index keys: encode_key and key_cmp (src/storage/btree.cpp), the keys    *)
(* the planner derives from constants (key_of, src/planner/                *)
(* index_select.cpp) and the comparison of values they must agree with     *)
(* (value_cmp, src/expr/expr_eval.cpp).                                    *)
(*                                                                         *)
(* A double is a bit pattern of one sign bit, ExpBits exponent bits and    *)
(* ManBits mantissa bits, with IEEE 754's encoding; a float is a smaller   *)
(* one. u of a "double" or "float" value is that pattern. The scaled-down  *)
(* formats keep subnormals, both zeros and the largest exponents.          *)
(***************************************************************************)
EXTENDS Numeric

CONSTANTS
  ExpBits, ManBits,      \* a double: 11 and 52
  FExpBits, FManBits     \* a float: 8 and 23

ASSUME KeyFormats ==
  /\ ExpBits \in Nat \ {0} /\ ManBits \in Nat /\ FExpBits \in Nat \ {0} /\ FManBits \in Nat
  /\ FExpBits < ExpBits /\ FManBits <= ManBits
  /\ BigBits = 1 + ExpBits + ManBits       \* a key is as wide as a double and a bigint

-----------------------------------------------------------------------------
(* Floating-point formats *)

SignFlip == 2^(BigBits - 1)

\* Finite patterns: the exponent is not all ones (the code keeps infinities
\* and NaNs out of columns and constants).
Finite(e, m) == {b \in 0..2^(1 + e + m) - 1 : (b \div 2^m) % 2^e # 2^e - 1}

\* The magnitude of a pattern in units of the format's smallest subnormal.
Magnitude(b, e, m) ==
  LET exp == (b \div 2^m) % 2^e
      man == b % 2^m
  IN IF exp = 0 THEN man ELSE (2^m + man) * 2^(exp - 1)

Negative(b, e, m) == b \div 2^(e + m) = 1

Bias(e) == 2^(e - 1) - 1

\* static_cast<double>(float): the same value among the doubles.
DoubleOf ==
  LET unit == 2^((Bias(ExpBits) + ManBits) - (Bias(FExpBits) + FManBits))
  IN [b \in Finite(FExpBits, FManBits) |->
        CHOOSE d \in Finite(ExpBits, ManBits) :
          /\ Negative(d, ExpBits, ManBits) = Negative(b, FExpBits, FManBits)
          /\ Magnitude(d, ExpBits, ManBits) = Magnitude(b, FExpBits, FManBits) * unit]
Widen(b) == DoubleOf[b]

\* The exact value of a double times Units.
Units == 2^(Bias(ExpBits) + ManBits - 1)
Signed(b) == IF Negative(b, ExpBits, ManBits) THEN -Magnitude(b, ExpBits, ManBits)
             ELSE Magnitude(b, ExpBits, ManBits)

\* dec_to_f64: decimal text through from_chars, the nearest double, ties to
\* an even mantissa; zero keeps the sign the text has (none).
DecToDouble(d) ==
  LET dist(b) == Abs(Signed(b) * 10^d.s - d.u * Units)
      near == {b \in Finite(ExpBits, ManBits) :
                 \A c \in Finite(ExpBits, ManBits) : dist(b) <= dist(c)}
  IN IF d.u = 0 THEN 0
     ELSE CHOOSE b \in near : \A c \in near : b % 2 <= c % 2

\* The nearest float (narrow_f32 of dec_to_f64), as a double.
DecThroughFloat(d) ==
  LET wide == {Widen(f) : f \in Finite(FExpBits, FManBits)}
      x == Signed(DecToDouble(d))
  IN CHOOSE b \in wide : \A c \in wide : Abs(Signed(b) - x) <= Abs(Signed(c) - x)

\* box_f64: cast_value to double.
BoxF64(v) ==
  CASE v.t = "double" -> v.u
    [] v.t = "float"  -> Widen(v.u)
    [] v.t = "dec"    -> DecToDouble(v)
    [] OTHER          -> DecToDouble(DecVal(v.u, 0))      \* i64_to_f64 rounds to nearest too

-----------------------------------------------------------------------------
(* value_cmp: NULL is the greatest; integers and decimals compare exactly, *)
(* other numbers as doubles. A text is u letters and s blanks; the blanks  *)
(* at the end of a char do not count.                                      *)

Exactly(v) == v.t \in {"int", "bigint", "dec"}

TextCmp(a, b) ==
  LET blanks(v) == IF v.t = "char" THEN 0 ELSE v.s
  IN IF a.u # b.u THEN SignOf(a.u - b.u) ELSE SignOf(blanks(a) - blanks(b))

ValueCmp(a, b) ==
  IF a = Null \/ b = Null THEN (IF a = Null THEN 1 ELSE 0) - (IF b = Null THEN 1 ELSE 0)
  ELSE IF a.t = "bool" THEN SignOf(a.u - b.u)
  ELSE IF a.t \in {"varchar", "char"} THEN TextCmp(a, b)
  ELSE IF Exactly(a) /\ Exactly(b) THEN DecCmp(DecVal(a.u, a.s), DecVal(b.u, b.s))
  ELSE SignOf(Signed(BoxF64(a)) - Signed(BoxF64(b)))

-----------------------------------------------------------------------------
(* Keys *)

Key(v)  == [val |-> v, null |-> FALSE]
NullKey == [val |-> 0, null |-> TRUE]

KeyCmp(a, b) ==
  IF a.null # b.null THEN (IF a.null THEN 1 ELSE -1) ELSE SignOf(a.val - b.val)

DoubleKeySigned(b) ==
  IF b >= SignFlip THEN Key(2 * SignFlip - 1 - b) ELSE Key(b + SignFlip)

\* double_key: -0 becomes +0; negative patterns are complemented, the others
\* get the sign bit.
DoubleKey(b) ==
  LET x == IF Magnitude(b, ExpBits, ManBits) = 0 THEN 0 ELSE b
  IN IF x >= SignFlip THEN Key(2 * SignFlip - 1 - x) ELSE Key(x + SignFlip)

\* The 64-bit pattern of an integer with its top bit flipped.
IntKey(i) == LET bits == i % (2 * SignFlip)
             IN Key(IF bits >= SignFlip THEN bits - SignFlip ELSE bits + SignFlip)

\* encode_key; the type of a value stored in a column is the column's.
EncodeKey(v) ==
  CASE v = Null                -> NullKey
    [] v.t = "bool"            -> Key(v.u)
    [] v.t \in {"int", "bigint"} -> IntKey(v.u)
    [] v.t = "double"          -> DoubleKey(v.u)
    [] v.t = "float"           -> DoubleKey(Widen(v.u))

\* key_of: may a constant probe an index of a column of this type?
Probes(col, c) ==
  CASE c.t \in {"int", "bigint"} -> col \in {"int", "bigint"}
    [] c.t \in {"double", "dec"} -> col \in {"double", "float"}
    [] c.t = "float"           -> col = "float"
    [] c.t = "bool"            -> col = "bool"
    [] OTHER                   -> FALSE        \* NULL, text

ProbeKeyNarrowed(col, c) ==
  IF c.t = "dec" THEN DoubleKey(IF col = "float" THEN DecThroughFloat(c) ELSE DecToDouble(c))
  ELSE EncodeKey(c)

\* key_of's key: a numeric constant is converted to double, as the evaluator
\* converts it; a double probes a float column in the double domain.
ProbeKey(col, c) == IF c.t = "dec" THEN DoubleKey(DecToDouble(c)) ELSE EncodeKey(c)

=============================================================================
