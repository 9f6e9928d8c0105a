----------------------------- MODULE RowCodec ------------------------------
(* How a schema lays a row out in bytes, how an inserted row map is         *)
(* serialized (with its strings entered in the dimension tables), and how   *)
(* the bytes are read back (src/gumshoe/schema.go, row.go).                 *)
(*                                                                          *)
(* A schema is [dims, metrics, duration, size]; a column is [name, type,    *)
(* string].  A row map is a function from column names to values, and a     *)
(* value is Nil or [kind, v]: a string, or a number of halves.              *)
EXTENDS ColumnTypes, Sequences, SequencesExt

CONSTANTS Nil, At,          (* the timestamp column's name                  *)
          SchemaSet, RowMaps

VARIABLES schema,           (* the schema of the open database              *)
          stored,           (* the schema its segments were written with    *)
          static, mem,      (* the dimension tables: sequences of strings   *)
          row,              (* a stored row: its bytes, or Nil              *)
          inserted          (* the row map it came from                     *)

vars == <<schema, stored, static, mem, row, inserted>>

Base == 2 ^ ByteBits

countColumnWidth == 4

Width(col) == typeWidths[col.type]

Widths(cols) == FoldLeft(LAMBDA sum, col : sum + Width(col), 0, cols)

(* ((n - 1) / 8) + 1 with Go's division: one byte when there is no column.  *)
NilBytes(s) == IF s.dims = <<>> THEN 1 ELSE (Len(s.dims) - 1) \div ByteBits + 1

DimensionStartOffset == countColumnWidth

(* The offsets of the columns, counted from the start of their part.        *)
DimensionOffset(s, i) == NilBytes(s) + Widths(SubSeq(s.dims, 1, i - 1))

DimensionWidth(s) == NilBytes(s) + Widths(s.dims)

MetricStartOffset(s) == DimensionStartOffset + DimensionWidth(s)

MetricOffset(s, i) == Widths(SubSeq(s.metrics, 1, i - 1))

MetricWidth(s) == Widths(s.metrics)

RowSize(s) == countColumnWidth + NilBytes(s) + Widths(s.dims) + Widths(s.metrics)

Zeroes(n) == [i \in 1..n |-> 0]

(* A cell of width w in little-endian order at an offset.                   *)
WriteCell(bytes, offset, w, cell) ==
    [i \in DOMAIN bytes |-> IF i \in (offset + 1)..(offset + w)
                            THEN (cell \div (Base ^ (i - offset - 1))) % Base
                            ELSE bytes[i]]

ReadCell(bytes, offset, w) ==
    FoldLeft(LAMBDA sum, i : sum + bytes[offset + i] * Base ^ (i - 1), 0, [i \in 1..w |-> i])

(* The nil bit of a dimension; its index counts from zero.                  *)
IsNil(d, index) == (d[index \div ByteBits + 1] \div 2 ^ (index % ByteBits)) % 2 = 1

setNil(d, index) ==
    IF IsNil(d, index) THEN d
    ELSE [d EXCEPT ![index \div ByteBits + 1] = @ + 2 ^ (index % ByteBits)]

IndexOf(s, table) == CHOOSE i \in DOMAIN table : table[i] = s

GetAndMaybeSet(table, s) == IF Contains(table, s) THEN table ELSE Append(table, s)

(* The index of a string; a new one follows the static table it will be     *)
(* added to.                                                                *)
dimValueIndexNoOffset(i, s, table) ==
    IF Contains(static[i], s) THEN IndexOf(s, static[i]) - 1 ELSE IndexOf(s, table) - 1

dimValueIndex(i, s, table) ==
    IF Contains(static[i], s) THEN IndexOf(s, static[i]) - 1
    ELSE Len(static[i]) + IndexOf(s, table) - 1

(* A step of serializeRowMap: err, the bytes so far and the memTable's      *)
(* dimension tables.  An error leaves what earlier columns added to these.  *)
setDimensionValue(st, i, value) ==
    LET col == schema.dims[i]
        table == IF Contains(static[i], value.v) THEN st.mem[i] ELSE GetAndMaybeSet(st.mem[i], value.v)
        put(float) == WriteCell(st.bytes, DimensionOffset(schema, i), Width(col), setRowValue(col.type, float))
    IN  IF value = Nil THEN [st EXCEPT !.bytes = setNil(@, i - 1)]
        ELSE IF col.string THEN
            IF value.kind # "string" THEN [st EXCEPT !.err = "type"]
            ELSE LET index == dimValueIndex(i, value.v, table)
                 IN  IF TooLarge(col.type, 2 * index)
                     THEN [st EXCEPT !.mem[i] = table, !.err = "table overflow"]
                     ELSE [st EXCEPT !.mem[i] = table, !.bytes = put(2 * index)]
        ELSE IF value.kind # "number" THEN [st EXCEPT !.err = "type"]
        ELSE IF TooLarge(col.type, value.v) THEN [st EXCEPT !.err = "too large"]
        ELSE [st EXCEPT !.bytes = put(value.v)]

setMetricValue(st, i, value) ==
    LET col == schema.metrics[i]
        put(float) == WriteCell(st.bytes, MetricOffset(schema, i), Width(col), setRowValue(col.type, float))
    IN  IF value = Nil THEN [st EXCEPT !.bytes = put(0)]
        ELSE IF value.kind # "number" THEN [st EXCEPT !.err = "type"]
        ELSE IF TooLarge(col.type, value.v) THEN [st EXCEPT !.err = "too large"]
        ELSE [st EXCEPT !.bytes = put(value.v)]

Value(rowMap, name) == IF name \in DOMAIN rowMap THEN rowMap[name] ELSE Nil

Names(cols) == {cols[i].name : i \in DOMAIN cols}

(* The columns in order until one of them fails.                            *)
setDimensions(st, rowMap) ==
    FoldLeft(LAMBDA acc, i : IF acc.err # "" THEN acc
                             ELSE setDimensionValue(acc, i, Value(rowMap, schema.dims[i].name)),
             st, [i \in DOMAIN schema.dims |-> i])

setMetrics(st, rowMap) ==
    FoldLeft(LAMBDA acc, i : IF acc.err # "" THEN acc
                             ELSE setMetricValue(acc, i, Value(rowMap, schema.metrics[i].name)),
             st, [i \in DOMAIN schema.metrics |-> i])

serializeRowMap(rowMap) ==
    LET none == [err |-> "", bytes |-> <<>>, mem |-> mem]
        dims == setDimensions([none EXCEPT !.bytes = Zeroes(DimensionWidth(schema))], rowMap)
        metrics == setMetrics([dims EXCEPT !.bytes = Zeroes(MetricWidth(schema))], rowMap)
        columns == {At} \cup Names(schema.dims) \cup Names(schema.metrics)
    IN  IF At \notin DOMAIN rowMap THEN [none EXCEPT !.err = "no timestamp"]
        ELSE IF rowMap[At] = Nil \/ rowMap[At].kind # "number" THEN [none EXCEPT !.err = "timestamp"]
        ELSE IF metrics.err # "" THEN metrics
        ELSE IF ~(DOMAIN rowMap \subseteq columns) THEN [metrics EXCEPT !.err = "extra columns"]
        ELSE [metrics EXCEPT !.bytes = WriteCell(Zeroes(countColumnWidth), 0, countColumnWidth, 1)
                                       \o dims.bytes \o @]

(* What the bytes of a row mean to DeserializeRow, given the dimension      *)
(* tables.  Numbers are read as numbers of halves.                          *)
Decode(t, bits) ==
    IF ~Float(t) THEN 2 * NumericCellValue(t, bits)
    ELSE IF bits >= Modulus(t) \div 2 THEN bits - Modulus(t) ELSE bits

Part(bytes, from, to) == SubSeq(bytes, from + 1, to)

DeserializeDimension(bytes, i, table) ==
    LET dimensions == Part(bytes, DimensionStartOffset, MetricStartOffset(schema))
        col == schema.dims[i]
        bits == ReadCell(dimensions, DimensionOffset(schema, i), Width(col))
    IN  IF IsNil(dimensions, i - 1) THEN Nil
        ELSE IF col.string THEN [kind |-> "string", v |-> table[NumericCellValue(col.type, bits) + 1]]
        ELSE [kind |-> "number", v |-> Decode(col.type, bits)]

DeserializeMetric(bytes, i) ==
    LET col == schema.metrics[i]
        metrics == Part(bytes, MetricStartOffset(schema), RowSize(schema))
    IN  [kind |-> "number",
         v |-> Decode(col.type, ReadCell(metrics, MetricOffset(schema, i), Width(col)))]

DeserializeCount(bytes) == ReadCell(bytes, 0, countColumnWidth)

(* A difference between two schemas, or "" when none is found.  A schema    *)
(* with fewer metrics than the stored one makes the code panic.             *)
Equivalent(s, other) ==
    CASE Len(s.dims) # Len(other.dims) -> "number of dimensions"
      [] Len(s.dims) = Len(other.dims) /\ s.dims # other.dims -> "dimension"
      [] s.dims = other.dims /\ Len(s.metrics) > Len(other.metrics) -> "panic"
      [] s.dims = other.dims /\ Len(s.metrics) <= Len(other.metrics)
            /\ s.metrics # SubSeq(other.metrics, 1, Len(s.metrics)) -> "metric"
      [] s.dims = other.dims /\ Len(s.metrics) <= Len(other.metrics)
            /\ s.metrics = SubSeq(other.metrics, 1, Len(s.metrics)) /\ s.size # other.size -> "segment size"
      [] OTHER -> ""

NewTables(s) == [i \in DOMAIN s.dims |-> <<>>]

Init ==
    /\ schema \in SchemaSet
    /\ stored = schema
    /\ static = NewTables(schema)
    /\ mem = NewTables(schema)
    /\ row = Nil
    /\ inserted = Nil

(* One row of insertRows.  Any inserted row may be the one looked at later. *)
Insert(rowMap) ==
    LET st == serializeRowMap(rowMap)
    IN  /\ mem' = st.mem
        /\ IF st.err = ""
           THEN \/ row' = st.bytes /\ inserted' = rowMap
                \/ UNCHANGED <<row, inserted>>
           ELSE UNCHANGED <<row, inserted>>
        /\ UNCHANGED <<schema, stored, static>>

(* A flush appends the memTable's strings to the static tables.             *)
Flush ==
    /\ static' = [i \in DOMAIN static |-> static[i] \o mem[i]]
    /\ mem' = NewTables(schema)
    /\ UNCHANGED <<schema, stored, row, inserted>>

(* The database is closed after a flush and opened with another schema.     *)
Reopen(s) ==
    /\ \A i \in DOMAIN mem : mem[i] = <<>>
    /\ Equivalent(stored, s) = ""
    /\ schema' = s
    /\ UNCHANGED <<stored, static, mem, row, inserted>>

Next ==
    \/ \E rowMap \in RowMaps : Insert(rowMap)
    \/ Flush
    \/ \E s \in SchemaSet : Reopen(s)

Spec == Init /\ [][Next]_vars

(* A value as a column keeps it: a fraction is lost in an integer, and a    *)
(* negative number, which no check refuses, wraps in an unsigned one.       *)
Kept(col, value) ==
    IF value # Nil /\ value.kind = "number" /\ ~Float(col.type)
    THEN [value EXCEPT !.v = 2 * NumericCellValue(col.type, Encode(col.type, Trunc(@)))] ELSE value

(* Every string has one place in a dimension table.                         *)
TypeOK ==
    /\ schema \in SchemaSet /\ stored \in SchemaSet
    /\ \A i \in DOMAIN static : IsInjective(static[i] \o mem[i])

(* Whatever was inserted, refused and flushed since, a stored row           *)
(* deserializes to the row map it came from: no cell overlaps another one,  *)
(* the nil bits are those of the absent dimensions, and every string index  *)
(* still names its string.                                                  *)
RowMeans ==
    row # Nil =>
        /\ Len(row) = RowSize(schema)
        /\ DeserializeCount(row) = 1
        /\ \A i \in DOMAIN schema.dims :
              DeserializeDimension(row, i, static[i] \o mem[i])
                  = Kept(schema.dims[i], Value(inserted, schema.dims[i].name))
        /\ \A i \in DOMAIN schema.metrics :
              LET value == Value(inserted, schema.metrics[i].name)
              IN  DeserializeMetric(row, i)
                      = IF value = Nil THEN [kind |-> "number", v |-> 0] ELSE Kept(schema.metrics[i], value)
=============================================================================
