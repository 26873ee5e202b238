---------------------------- MODULE MCValueUnit ----------------------------
(* ValueUnit for TLC: 3- and 5-bit integers, 5-bit doubles, 4-bit floats.   *)
EXTENDS ValueUnit

\* Unscaled values around zero, around ties, at the limits, at three scales.
MCOperands ==
  {DecVal(u, s) : u \in -10..10 \cup {-99, -95, -50, -49, -16, -15, 15, 49, 50, 95, 99},
                  s \in 0..2}
MCRoundDigits == -2..2

\* Numeric constants on and between the doubles and floats, of both signs.
MCDecimals == {DecVal(u, 1) : u \in {-31, -26, -15, -11, -5, -1, 0, 1, 4, 5, 13, 25, 29, 60}}

\* Words of up to two letters with up to one blank at the end, and a long one.
MCWords == {[u |-> u, s |-> s] : u \in 0..2, s \in 0..1} \cup {[u |-> 4, s |-> 0]}

Spec0(t, len, scl, nn) == [type |-> t, length |-> len, scale |-> scl, notNull |-> nn]

MCColumns ==
  {Spec0(t, 0, 0, FALSE) : t \in {"int", "bigint", "bool", "double", "float", "dec", "varchar"}}
  \cup {Spec0("int", 0, 0, TRUE), Spec0("varchar", 2, 0, FALSE), Spec0("char", 2, 0, TRUE),
        Spec0("char", 3, 0, FALSE), Spec0("dec", 1, 1, FALSE)}

\* Bytes of two bits.
MCWidth == [int |-> 2, bigint |-> 3, double |-> 3, float |-> 2, bool |-> 1, dec |-> 4]
=============================================================================
