--------------------------- MODULE RowConversion ---------------------------
(* What gumtool migrate and merge do to a row on its way from one database  *)
(* to another (src/gumtool/migrate.go, merge.go): numbers pass through      *)
(* float64, as if the row came from JSON.                                   *)
(*                                                                          *)
(* A schema is [dims, metrics]: functions from column names to [type,       *)
(* string].  A row is a function from column names to values: Nil, or       *)
(* [kind, v] where kind is a column type, "string" or "float64", and v an   *)
(* integer, a string, or a number of halves.                                *)
EXTENDS ColumnTypes, FiniteSets, FiniteSetsExt, Functions

CONSTANTS Nil,
          Mantissa,         (* 53: the bits of a float64's significand      *)
          Schemas, Rows(_)  (* Rows(s): rows of schema s                    *)

VARIABLES old, new,         (* the two schemas                              *)
          oldRow, newRow,
          outcome           (* "start", "refused", "row error" or "stored"  *)

vars == <<old, new, oldRow, newRow, outcome>>

Columns(s) == DOMAIN s.dims \cup DOMAIN s.metrics

(* An integer as a float64.                                                 *)
RoundToFloat64(n) == RoundToBits(Mantissa, n)

convertValueToFloat64(value) ==
    [kind |-> "float64", v |-> IF Float(value.kind) THEN value.v ELSE 2 * RoundToFloat64(value.v)]

conversionAllowable(to, from) == TypeToBigType(to) = TypeToBigType(from)

(* Why makeConversionFunc refuses the pair of schemas, or "".               *)
ConversionError(n, o) ==
    LET dims == DOMAIN o.dims \cap DOMAIN n.dims
        metrics == DOMAIN o.metrics \cap DOMAIN n.metrics
    IN  IF \/ \E c \in dims : ~conversionAllowable(n.dims[c].type, o.dims[c].type)
           \/ \E c \in metrics : ~conversionAllowable(n.metrics[c].type, o.metrics[c].type) THEN "type"
        ELSE IF \E c \in dims : n.dims[c].string # o.dims[c].string THEN "string"
        ELSE IF dims = {} THEN "no common dimensions"
        ELSE ""

(* The converted row: columns that the new schema does not have as the same *)
(* kind of column are deleted.                                              *)
convert(n, o, row) ==
    LET deleted == (DOMAIN o.dims \ DOMAIN n.dims) \cup (DOMAIN o.metrics \ DOMAIN n.metrics)
    IN  [c \in DOMAIN row \ deleted |->
            IF row[c] = Nil \/ row[c].kind = "string" THEN row[c] ELSE convertValueToFloat64(row[c])]

(* mergeSegment: the schemas are equivalent.                                *)
mergeSegment(row) ==
    [c \in DOMAIN row |-> IF row[c] = Nil \/ row[c].kind = "string" THEN row[c] ELSE convertValueToFloat64(row[c])]

(* Insertion of a converted row in the new database (see RowCodec).         *)
InsertError(n, row) ==
    \/ ~(DOMAIN row \subseteq Columns(n))
    \/ \E c \in DOMAIN row : LET col == IF c \in DOMAIN n.dims THEN n.dims[c] ELSE n.metrics[c]
                             IN  row[c] # Nil /\ ~col.string /\ TooLarge(col.type, row[c].v)

StoredValue(col, value) ==
    IF col.string THEN value
    ELSE [kind |-> col.type,
          v |-> IF Float(col.type) THEN value.v
                ELSE NumericCellValue(col.type, setRowValue(col.type, value.v))]

InsertUnpacked(n, row) ==
    [c \in Columns(n) |->
        IF c \in DOMAIN n.dims
        THEN IF c \notin DOMAIN row \/ row[c] = Nil THEN Nil ELSE StoredValue(n.dims[c], row[c])
        ELSE IF c \notin DOMAIN row \/ row[c] = Nil THEN [kind |-> n.metrics[c].type, v |-> 0]
        ELSE StoredValue(n.metrics[c], row[c])]

Init ==
    /\ old \in Schemas /\ new \in Schemas
    /\ oldRow \in Rows(old)
    /\ newRow = Nil /\ outcome = "start"

Migrate ==
    LET row == convert(new, old, oldRow)
    IN  /\ outcome = "start"
        /\ IF ConversionError(new, old) # "" THEN outcome' = "refused" /\ UNCHANGED newRow
           ELSE IF InsertError(new, row) THEN outcome' = "row error" /\ UNCHANGED newRow
           ELSE outcome' = "stored" /\ newRow' = InsertUnpacked(new, row)
        /\ UNCHANGED <<old, new, oldRow>>

Merge ==
    LET row == mergeSegment(oldRow)
    IN  /\ outcome = "start" /\ old = new
        /\ IF InsertError(new, row) THEN outcome' = "row error" /\ UNCHANGED newRow
           ELSE outcome' = "stored" /\ newRow' = InsertUnpacked(new, row)
        /\ UNCHANGED <<old, new, oldRow>>

Done == outcome # "start" /\ UNCHANGED vars

Next == Migrate \/ Merge \/ Done

Spec == Init /\ [][Next]_vars

-----------------------------------------------------------------------------
Wider(n, o) == \A c \in Columns(n) \cap Columns(o) :
    LET ncol == IF c \in DOMAIN n.dims THEN n.dims[c] ELSE n.metrics[c]
        ocol == IF c \in DOMAIN o.dims THEN o.dims[c] ELSE o.metrics[c]
    IN  typeWidths[ncol.type] >= typeWidths[ocol.type]

(* The integers a float64 holds: Mantissa significant bits, then zeros.     *)
HasFloat64(n) == \E k \in 0..(8 * ByteBits) : n % 2 ^ k = 0 /\ Abs(n) \div 2 ^ k < 2 ^ Mantissa

Inexact(value) == value.kind \in {"uint64", "int64"} /\ ~HasFloat64(value.v)

(* Values at most half of the largest gap between two float64s in the range *)
(* of a 64-bit integer apart, around the end of the range too.              *)
Near(t, x, y) ==
    LET half == 2 ^ (8 * ByteBits - Mantissa - 1)
    IN  \E d \in 0..half : Encode(t, x + d) = Encode(t, y) \/ Encode(t, y + d) = Encode(t, x)

(* A row that is migrated or merged keeps the value of every column both    *)
(* schemas have, when no column shrinks; an added dimension is nil and an   *)
(* added metric zero.  An integer that no float64 holds, which only a       *)
(* 64-bit column has, comes out as one near to it, and the largest as the   *)
(* smallest: src/README.md's "without losing data" stops at 2^53.           *)
ValuesKept ==
    outcome = "stored" /\ Wider(new, old) =>
        \A c \in Columns(new) :
            IF c \in DOMAIN old.dims \cap DOMAIN new.dims \/ c \in DOMAIN old.metrics \cap DOMAIN new.metrics
            THEN CASE oldRow[c] = Nil -> newRow[c] = Nil
                   [] oldRow[c] # Nil /\ Inexact(oldRow[c]) -> newRow[c] # Nil /\ Near(newRow[c].kind, oldRow[c].v, newRow[c].v)
                   [] OTHER -> newRow[c] # Nil /\ newRow[c].v = oldRow[c].v
            ELSE IF c \in DOMAIN new.dims THEN newRow[c] = Nil ELSE newRow[c].v = 0

(* Growing columns of one kind is never refused in the middle of a          *)
(* migration: what makeConversionFunc accepts, every row survives.          *)
NoRowError ==
    outcome = "row error" => ~Wider(new, old)
=============================================================================
