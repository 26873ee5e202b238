------------------------------ MODULE RowCodec ------------------------------
(***************************************************************************)
(* A row as the bytes of its record (src/storage/codec.cpp): a length, a   *)
(* bitmap of the NULL columns and the fields of the others, little-endian. *)
(* A byte has ByteBits bits; the widths of the types are a constant.       *)
(***************************************************************************)
EXTENDS Conversion, Sequences, SequencesExt

CONSTANTS
  ByteBits,      \* bits of a byte (8)
  Width,         \* bytes of the fixed-width types (int 4, bigint 8, dec 16, ...)
  MaxRecordLen   \* MAX_RECORD_LEN

Byte == 2^ByteBits

ASSUME RecordFormat ==
  /\ ByteBits \in Nat \ {0} /\ MaxRecordLen \in Nat /\ MaxRecordLen < Byte^2
  /\ Byte^Width["int"] >= 2^IntBits /\ Byte^Width["bigint"] >= 2^BigBits
  /\ Byte^Width["double"] >= 2^BigBits /\ Byte^Width["float"] >= 2^(1 + FExpBits + FManBits)
  /\ Byte^Width["dec"] > 2 * UnscaledMax /\ Byte > MaxScale

Letter == 1
Blank  == 2

\* put_u16, put_u32 and the loops over bytes: the low byte first, two's
\* complement for negative numbers.
PutUint(v, n) == [k \in 1..n |-> (v \div Byte^(k - 1)) % Byte]

Unsigned(bytes) == FoldLeftDomain(LAMBDA acc, k : acc + bytes[k] * Byte^(k - 1), 0, bytes)

ReadSigned(bytes) ==
  LET u == Unsigned(bytes)
      all == Byte^Len(bytes)
  IN IF 2 * u >= all THEN u - all ELSE u

Rejected == <<-1>>                          \* encode_row returns false
Damaged  == <<Val("damaged", 0, 0)>>        \* decode_row returns false

Letters(v, n) == [k \in 1..n |-> IF k <= v.u THEN Letter ELSE Blank]

DecField(v) == PutUint(v.u, Width["dec"]) \o <<v.s>>

\* The field of a value that is not NULL, in a column of its own type.
Field(col, v) ==
  CASE col.type = "int"     -> IF Fits(v.u, "int") THEN PutUint(v.u, Width["int"]) ELSE Rejected
    [] col.type = "varchar" -> IF TextLen(v) >= Byte^2 \/ (col.length > 0 /\ TextLen(v) > col.length) THEN Rejected
                               ELSE PutUint(TextLen(v), 2) \o Letters(v, TextLen(v))
    [] col.type = "char"    -> IF TextLen(v) > col.length THEN Rejected ELSE Letters(v, col.length)
    [] col.type = "dec"     -> IF Abs(v.u) >= UnscaledMax THEN Rejected ELSE DecField(v)
    [] OTHER                -> PutUint(v.u, Width[col.type])

\* Faulty: all columns in the first byte.
BitmapOneByte(vals) ==
  [k \in 1..((Len(vals) + ByteBits - 1) \div ByteBits) |->
     FoldLeftDomain(LAMBDA acc, i : acc + IF k = 1 /\ vals[i] = Null THEN 2^((i - 1) % ByteBits) ELSE 0,
                    0, vals) % Byte]

\* One bit per column, set for NULL.
Bitmap(vals) ==
  [k \in 1..((Len(vals) + ByteBits - 1) \div ByteBits) |->
     FoldLeftDomain(LAMBDA acc, i : acc + IF (i - 1) \div ByteBits = k - 1 /\ vals[i] = Null
                                          THEN 2^((i - 1) % ByteBits) ELSE 0,
                    0, vals)]

\* The record around the fields. The length keeps 16 bits (two bytes) of the
\* true one.
Framed(body) == PutUint(Len(body), 2) \o body
Record(vals, fields) ==
  IF \E i \in DOMAIN fields : fields[i] = Rejected THEN Rejected ELSE Framed(Bitmap(vals) \o FlattenSeq(fields))

\* encode_row.
EncodeRow(cols, vals) ==
  IF Len(cols) # Len(vals) THEN Rejected
  ELSE Record(vals, [i \in 1..Len(cols) |-> IF vals[i] # Null THEN Field(cols[i], vals[i])
                                            ELSE IF cols[i].notNull THEN Rejected ELSE <<>>])

-----------------------------------------------------------------------------

\* Where the field at pos ends; one past the record when it is cut off.
FieldEnd(col, rec, pos) ==
  CASE col.type = "varchar" -> IF pos + 1 > Len(rec) THEN Len(rec) + 1
                               ELSE pos + 1 + Unsigned(SubSeq(rec, pos, pos + 1))
    [] col.type = "char"    -> pos + col.length - 1
    [] col.type = "dec"     -> pos + Width["dec"]
    [] OTHER                -> pos + Width[col.type] - 1

TextVal(t, bytes) ==
  LET n == Len(SelectSeq(bytes, LAMBDA b : b = Letter)) IN Val(t, n, Len(bytes) - n)

\* The value of a field, or Error for bytes no value has.
FieldValue(col, bytes) ==
  CASE col.type = "varchar" -> TextVal("varchar", SubSeq(bytes, 3, Len(bytes)))
    [] col.type = "char"    -> TextVal("char", bytes)
    [] col.type \in Ints    -> Val(col.type, ReadSigned(bytes), 0)
    [] col.type = "bool"    -> IF bytes[1] > 1 THEN Error ELSE Val("bool", bytes[1], 0)
    [] col.type \in Floats  -> Val(col.type, Unsigned(bytes), 0)
    [] col.type = "dec"     ->
         LET u == ReadSigned(Front(bytes)) IN IF Abs(u) >= UnscaledMax THEN Error ELSE DecVal(u, Last(bytes))

\* decode_row: the values, or Damaged.
DecodeRow(cols, rec) ==
  LET bitmap == (Len(cols) + ByteBits - 1) \div ByteBits
      isNull(i) == (rec[3 + (i - 1) \div ByteBits] \div 2^((i - 1) % ByteBits)) % 2 = 1
      step(acc, i) ==
        IF isNull(i) THEN [acc EXCEPT !.vals = Append(@, Null)]
        ELSE LET end == FieldEnd(cols[i], rec, acc.pos)
             IN IF ~acc.ok \/ end > Len(rec) THEN [acc EXCEPT !.ok = FALSE]
                ELSE LET v == FieldValue(cols[i], SubSeq(rec, acc.pos, end))
                     IN [pos |-> end + 1, ok |-> v # Error, vals |-> Append(acc.vals, v)]
      row == FoldLeftDomain(step, [pos |-> 3 + bitmap, ok |-> TRUE, vals |-> <<>>], cols)
  IN IF Len(rec) < 2 THEN Damaged
     ELSE IF Unsigned(SubSeq(rec, 1, 2)) + 2 # Len(rec) \/ 2 + bitmap > Len(rec) THEN Damaged
     ELSE IF row.ok THEN row.vals ELSE Damaged

CoercedRow(cols, vals) == [i \in 1..Len(cols) |-> CoerceColValue(cols[i], vals[i])]

\* Faulty: without the limit.
KeepAnyLength(cols, rec) == IF rec = Rejected THEN <<Error>> ELSE DecodeRow(cols, rec)

\* insert_row's limit on the record, and a scan's way back.
Keep(cols, rec) ==
  IF rec = Rejected \/ Len(rec) > MaxRecordLen THEN <<Error>> ELSE DecodeRow(cols, rec)

\* INSERT's way to the page and back: coerce_col_value, then insert_row.
Store(cols, row) == IF \E i \in DOMAIN row : Failed(row[i]) THEN <<Error>> ELSE Keep(cols, EncodeRow(cols, row))
StoreAndRead(cols, vals) == Store(cols, CoercedRow(cols, vals))

=============================================================================
