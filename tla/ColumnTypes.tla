---------------------------- MODULE ColumnTypes ----------------------------
(* The numeric column types and the generated arithmetic on them            *)
(* (src/gumshoe/type_gen.go, produced by gen.go).                           *)
(*                                                                          *)
(* A cell of an integer type is its bit pattern, a natural number below     *)
(* 2^width; a cell of a float type is the number itself.  A float64, as it  *)
(* comes out of JSON, is a number of halves: 3 stands for 1.5.  ByteBits is *)
(* 8 in the code; a smaller byte keeps the instances within TLC's integers. *)
EXTENDS Integers

CONSTANT ByteBits

ByteAssumption == ByteBits \in Nat \ {0}

Types == {"uint8", "int8", "uint16", "int16", "uint32", "int32", "float32",
          "uint64", "int64", "float64"}

typeWidths == [t \in Types |->
    CASE t \in {"uint8", "int8"} -> 1
      [] t \in {"uint16", "int16"} -> 2
      [] t \in {"uint32", "int32", "float32"} -> 4
      [] t \in {"uint64", "int64", "float64"} -> 8]

Signed(t) == t \in {"int8", "int16", "int32", "int64"}

Float(t) == t \in {"float32", "float64"}

Modulus(t) == 2 ^ (ByteBits * typeWidths[t])

(* typeMaxes holds float64s: the largest 64-bit integers are not            *)
(* representable, and round up to 2^64 and 2^63.  No float of an instance   *)
(* reaches the maximum of a float type.                                     *)
typeMaxes(t) ==
    LET max == IF Signed(t) THEN Modulus(t) \div 2 ELSE Modulus(t)
    IN  IF typeWidths[t] = 8 THEN max ELSE max - 1

TooLarge(t, float) == ~Float(t) /\ float > 2 * typeMaxes(t)

TypeToBigType(t) == IF Float(t) THEN "float64" ELSE IF Signed(t) THEN "int64" ELSE "uint64"

(* Truncation of a float64 towards zero.                                    *)
Trunc(float) == IF float >= 0 THEN float \div 2 ELSE -((-float) \div 2)

Abs(n) == IF n < 0 THEN -n ELSE n

(* n as a binary float with a significand of the given bits: rounded to the *)
(* nearest one, to the even one when two are as near.                       *)
RoundToBits(bits, n) ==
    LET k == CHOOSE i \in 0..64 : Abs(n) < 2 ^ (bits + i) /\ (i = 0 \/ Abs(n) >= 2 ^ (bits + i - 1))
        unit == 2 ^ k
        low == (Abs(n) \div unit) * unit
        rest == Abs(n) - low
        rounded == IF 2 * rest > unit \/ (2 * rest = unit /\ (low \div unit) % 2 = 1) THEN low + unit ELSE low
    IN  IF n < 0 THEN -rounded ELSE rounded

(* The cell that holds the integer n, keeping its low-order bits.           *)
Encode(t, n) == n % Modulus(t)

NumericCellValue(t, cell) ==
    IF Signed(t) /\ cell >= Modulus(t) \div 2 THEN cell - Modulus(t) ELSE cell

(* A Go conversion of a float64 to the column's type, as an amd64 build does*)
(* it: an integer out of range keeps its low-order bits.                    *)
setRowValue(t, float) == IF Float(t) THEN float ELSE Encode(t, Trunc(float))

(* MetricBytes.add on one column: Go's wrapping addition in the column type.*)
add(t, cell1, cell2) ==
    IF Float(t) THEN cell1 + cell2 ELSE Encode(t, cell1 + cell2)

untypedZero(t) == 0

(* Addition of two decoded values of type t.                                *)
sumUntyped(t, u1, u2) ==
    IF Float(t) THEN u1 + u2 ELSE NumericCellValue(t, Encode(t, u1 + u2))

(* Adds a metric cell of type t to a running sum in the big type.           *)
makeSumFuncGen(t, sum, cell) == sumUntyped(TypeToBigType(t), sum, NumericCellValue(t, cell))

makeGetDimensionValueFuncGen(t, cell) == NumericCellValue(t, cell)

makeGetDimensionValueAsIntFuncGen(t, cell) ==
    IF Float(t) THEN Trunc(cell) ELSE NumericCellValue(t, cell)

Compare(op, x, y) ==
    CASE op = "=" -> x = y
      [] op = "!=" -> x # y
      [] op = ">" -> x > y
      [] op = ">=" -> x >= y
      [] op = "<" -> x < y
      [] op = "<=" -> x <= y

(* t is the interval's start, a uint32.                                     *)
makeTimestampFilterFuncSimpleGen(op, t, timestamp) == Compare(op, t, timestamp)

(* Comparison of a dimension with null.                                     *)
makeNilFilterFuncSimpleGen(op, isNil) ==
    CASE op = "=" -> isNil
      [] op = "!=" -> ~isNil
      [] OTHER -> FALSE

(* Comparison of a dimension with a value, already a cell of type t.        *)
makeDimensionFilterFuncSimpleGen(t, op, isNil, cell, v) ==
    IF isNil THEN op = "!="
    ELSE Compare(op, NumericCellValue(t, cell), NumericCellValue(t, v))

makeDimensionFilterFuncInGen(t, isNil, cell, typedValues, acceptNil) ==
    IF isNil THEN acceptNil ELSE cell \in typedValues

makeMetricFilterFuncSimpleGen(t, op, cell, v) ==
    Compare(op, NumericCellValue(t, cell), NumericCellValue(t, v))

makeMetricFilterFuncInGen(t, cell, typedValues) == cell \in typedValues
=============================================================================
