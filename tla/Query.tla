------------------------------- MODULE Query -------------------------------
(* What a query computes: validation, filters, grouping by slice or by map, *)
(* partial sums per interval and their combination (src/gumshoe/query.go).  *)
(* The schema has a timestamp column "at", one dimension "dim" and one      *)
(* metric "met"; a query has one aggregate.  Intervals are scanned in any   *)
(* order, as the worker pool of ScanPool delivers them.                     *)
EXTENDS ColumnTypes, Sequences, SequencesExt

CONSTANTS
    Nil,                    \* a nil dimension, JSON null, Go nil
    Schemas,                \* set of [dim : Types, string : BOOLEAN, met : Types]
    TablesOf(_),            \* the StaticTables of a schema: start time -> segments
    Values,                 \* the dimension table of "dim": a sequence of strings
    QuerySet,               \* the queries asked
    sliceGroupingSizeLimit, \* 500 000 in the code
    Minute, Hour, Day       \* 60, 3600 and 86400 in the code

VARIABLES schema, table, query, phase, todo, partials, stats, answer

vars == <<schema, table, query, phase, todo, partials, stats, answer>>

----------------------------------------------------------------------------
(* Filters.  A JSON value is [kind |-> "null"], [kind |-> "number", n |-> h]*)
(* with h halves, [kind |-> "string", s |-> name] or [kind |-> "list",      *)
(* items |-> sequence of values].                                           *)

Known(s) == Contains(Values, s)

(* DimensionTable.Get: the index of a string, from 0.                       *)
Get(s) == (CHOOSE i \in 1..Len(Values) : Values[i] = s) - 1

Items(f) == ToSet(f.value.items)

IsKind(v, kind) == v.kind = kind

(* The errors of makeTimestampFilterFunc and makeTimestampFilterFuncIn.     *)
TimestampFilterError(f) ==
    IF f.type = "in"
    THEN ~IsKind(f.value, "list") \/ \E v \in Items(f) : ~IsKind(v, "number")
    ELSE ~IsKind(f.value, "number")

makeTimestampFilterFunc(f, t) ==
    makeTimestampFilterFuncSimpleGen(f.type, t, setRowValue("uint32", f.value.n))

makeTimestampFilterFuncIn(f, t) == \E v \in Items(f) : t = setRowValue("uint32", v.n)

(* The kind of value a dimension is compared with.                          *)
DimKind == IF schema.string THEN "string" ELSE "number"

DimensionFilterError(f) ==
    IF f.type = "in"
    THEN \/ ~IsKind(f.value, "list")
         \/ \E v \in Items(f) : ~IsKind(v, "null") /\ ~IsKind(v, DimKind)
    ELSE ~IsKind(f.value, "null") /\ ~IsKind(f.value, DimKind)

(* The cell a filter value is compared with.                                *)
TypedValue(v) == IF schema.string THEN Encode(schema.dim, Get(v.s)) ELSE setRowValue(schema.dim, v.n)

(* An unknown string gives falseFilterFunc, whatever the operator.          *)
makeDimensionFilterFunc(f, row) ==
    CASE IsKind(f.value, "null") -> makeNilFilterFuncSimpleGen(f.type, row.dim = Nil)
      [] schema.string /\ ~Known(f.value.s) -> FALSE
      [] OTHER -> makeDimensionFilterFuncSimpleGen(schema.dim, f.type, row.dim = Nil, row.dim, TypedValue(f.value))

(* Unknown strings are dropped from the list.                               *)
makeDimensionFilterFuncIn(f, row) ==
    LET values == {v \in Items(f) : ~IsKind(v, "null") /\ (schema.string => Known(v.s))}
        acceptNil == \E v \in Items(f) : IsKind(v, "null")
    IN  makeDimensionFilterFuncInGen(schema.dim, row.dim = Nil, row.dim,
                                     {TypedValue(v) : v \in values}, acceptNil)

MetricFilterError(f) == TimestampFilterError(f)

makeMetricFilterFunc(f, row) ==
    makeMetricFilterFuncSimpleGen(schema.met, f.type, row.met, setRowValue(schema.met, f.value.n))

makeMetricFilterFuncIn(f, row) ==
    makeMetricFilterFuncInGen(schema.met, row.met, {setRowValue(schema.met, v.n) : v \in Items(f)})

TimestampFilters == SelectSeq(query.filters, LAMBDA f : f.column = "at")

AllTimestampFilterFuncsMatch(t) ==
    \A f \in ToSet(TimestampFilters) :
        IF f.type = "in" THEN makeTimestampFilterFuncIn(f, t) ELSE makeTimestampFilterFunc(f, t)

(* Whether row passes every row filter.                                     *)
Passes(row) ==
    \A f \in ToSet(query.filters) :
        CASE f.column = "dim" /\ f.type = "in" -> makeDimensionFilterFuncIn(f, row)
          [] f.column = "dim" -> makeDimensionFilterFunc(f, row)
          [] f.column = "met" /\ f.type = "in" -> makeMetricFilterFuncIn(f, row)
          [] f.column = "met" -> makeMetricFilterFunc(f, row)
          [] OTHER -> TRUE

----------------------------------------------------------------------------
(* Grouping.                                                                *)

Grouped == query.groupings # <<>>

Grouping == Head(query.groupings)

OnTimestampColumn == Grouping.column = "at"

HasTransform == Grouping.transform # "none"

(* makeTimeTruncationFunc refuses a column that is not a uint32; the        *)
(* timestamp column always is one.                                          *)
TruncationError == HasTransform /\ ~OnTimestampColumn /\ schema.dim # "uint32"

makeTimeTruncationFunc(value) ==
    LET divisor == CASE Grouping.transform = "minute" -> Minute
                     [] Grouping.transform = "hour" -> Hour
                     [] Grouping.transform = "day" -> Day
    IN  value - (value % divisor)

FilterError(f) ==
    CASE f.column = "at" -> TimestampFilterError(f)
      [] f.column = "dim" -> DimensionFilterError(f)
      [] f.column = "met" -> MetricFilterError(f)
      [] OTHER -> TRUE

(* Every early return of InvokeQuery.                                       *)
QueryError ==
    \/ query.aggregate.column # "met"
    \/ Len(query.groupings) > 1
    \/ Grouped /\ (Grouping.column \notin {"at", "dim"} \/ TruncationError)
    \/ \E f \in ToSet(query.filters) : FilterError(f)

useSliceGrouping ==
    /\ ~HasTransform
    /\ ~OnTimestampColumn
    /\ typeWidths[schema.dim] <= 2 \/ (schema.string /\ Len(Values) <= sliceGroupingSizeLimit)

----------------------------------------------------------------------------
(* Partials.                                                                *)

makeScanPartial == [sum |-> untypedZero(TypeToBigType(schema.met)), count |-> 0]

AddRow(partial, row) ==
    [sum |-> makeSumFuncGen(schema.met, partial.sum, row.met),
     count |-> Encode("uint32", partial.count + row.count)]

Matching(segments) == SelectSeq(FlattenSeq(segments), LAMBDA row : Passes(row))

scanSimple(segments) == FoldLeft(AddRow, makeScanPartial, Matching(segments))

(* Adds a row to the partial of its group; groups is a partial function, as *)
(* the slice with nil entries and the map are.                              *)
AddToGroup(groups, key, row) ==
    LET partial == IF key \in DOMAIN groups THEN groups[key] ELSE makeScanPartial
    IN  [k \in DOMAIN groups \cup {key} |-> IF k = key THEN AddRow(partial, row) ELSE groups[k]]

NoGroups == [k \in {} |-> makeScanPartial]

sliceGroupSize ==
    IF schema.string THEN Len(Values) ELSE 2 ^ (ByteBits * typeWidths[schema.dim])

SliceIndex(row) == makeGetDimensionValueAsIntFuncGen(schema.dim, row.dim)

(* An index outside of the slice is a run time panic.                       *)
SlicePanics(segments) ==
    \E row \in ToSet(Matching(segments)) :
        row.dim # Nil /\ SliceIndex(row) \notin 0..(sliceGroupSize - 1)

scanSliceGrouping(segments) ==
    FoldLeft(LAMBDA groups, row :
                 AddToGroup(groups, IF row.dim = Nil THEN Nil ELSE SliceIndex(row), row),
             NoGroups, Matching(segments))

TransformedKey(value) == IF HasTransform THEN makeTimeTruncationFunc(value) ELSE value

(* The partial of a timestamp's group exists before any row is looked at.   *)
scanMapGrouping(t, segments) ==
    IF OnTimestampColumn
    THEN [k \in {TransformedKey(t)} |-> FoldLeft(AddRow, makeScanPartial, Matching(segments))]
    ELSE FoldLeft(LAMBDA groups, row :
                      AddToGroup(groups,
                                 IF row.dim = Nil THEN Nil
                                 ELSE TransformedKey(makeGetDimensionValueFuncGen(schema.dim, row.dim)),
                                 row),
                  NoGroups, Matching(segments))

(* combineScanPartials adds up a list of partials.                          *)
combineScanPartials(results) ==
    FoldLeft(LAMBDA result, partial :
                 [sum |-> sumUntyped(TypeToBigType(schema.met), result.sum, partial.sum),
                  count |-> Encode("uint32", result.count + partial.count)],
             makeScanPartial, results)

combineSimple == {[key |-> Nil, partial |-> combineScanPartials(partials)]}

OfGroup(k) == SelectSeq(partials, LAMBDA groups : k \in DOMAIN groups)

Groups(keys) ==
    {[key |-> k,
      partial |-> combineScanPartials([i \in 1..Len(OfGroup(k)) |-> OfGroup(k)[i][k]])] : k \in keys}

(* A combination that takes the keys from the first interval only.          *)
combineMapGroupingFirst ==
    IF partials = <<>> THEN {} ELSE Groups(DOMAIN Head(partials))

combineMapGrouping == Groups(UNION {DOMAIN groups : groups \in ToSet(partials)})

(* The nil group, then every index of the slices that some interval filled. *)
combineSliceGrouping ==
    Groups({k \in {Nil} \cup 0..(sliceGroupSize - 1) : OfGroup(k) # <<>>})

(* One result row.  An average is kept as its quotient; 0/0 is NaN.         *)
postProcessScanRow(aggregate) ==
    [value |-> IF query.aggregate.type = "sum" THEN <<aggregate.partial.sum>>
               ELSE <<aggregate.partial.sum, aggregate.partial.count>>,
     group |-> IF Grouped /\ ~OnTimestampColumn /\ schema.string /\ aggregate.key # Nil
               THEN Values[aggregate.key + 1] ELSE aggregate.key,
     rowCount |-> aggregate.partial.count]

----------------------------------------------------------------------------

(* scanStats.Add increments by one, whatever the delta.                     *)
StatsAdd(n, delta) == n + 1

Init ==
    /\ schema \in Schemas /\ table \in TablesOf(schema) /\ query \in QuerySet
    /\ phase = "invoked"
    /\ todo = {} /\ partials = <<>> /\ answer = {}
    /\ stats = [skipped |-> 0, scanned |-> 0, rows |-> 0]

InvokeQuery ==
    /\ phase = "invoked"
    /\ IF QueryError THEN phase' = "error" /\ UNCHANGED todo
       ELSE phase' = "scanning" /\ todo' = DOMAIN table
    /\ UNCHANGED <<schema, table, query, partials, stats, answer>>

SkipInterval(t) ==
    /\ phase = "scanning" /\ t \in todo
    /\ ~AllTimestampFilterFuncsMatch(t)
    /\ todo' = todo \ {t}
    /\ stats' = [stats EXCEPT !.skipped = @ + 1]
    /\ UNCHANGED <<schema, table, query, phase, partials, answer>>

ScanInterval(t) ==
    /\ phase = "scanning" /\ t \in todo
    /\ AllTimestampFilterFuncsMatch(t)
    /\ todo' = todo \ {t}
    /\ stats' = [stats EXCEPT
                    !.scanned = @ + 1,
                    !.rows = FoldLeft(LAMBDA n, segment : StatsAdd(n, Len(segment)), @, table[t])]
    /\ IF Grouped /\ useSliceGrouping /\ SlicePanics(table[t])
       THEN phase' = "panic" /\ UNCHANGED partials
       ELSE /\ partials' = Append(partials,
                  IF ~Grouped THEN scanSimple(table[t])
                  ELSE IF useSliceGrouping THEN scanSliceGrouping(table[t])
                  ELSE scanMapGrouping(t, table[t]))
            /\ UNCHANGED phase
    /\ UNCHANGED <<schema, table, query, answer>>

Combine ==
    /\ phase = "scanning" /\ todo = {}
    /\ phase' = "answered"
    /\ answer' = {postProcessScanRow(aggregate) : aggregate \in
                      IF ~Grouped THEN combineSimple
                      ELSE IF useSliceGrouping THEN combineSliceGrouping
                      ELSE combineMapGrouping}
    /\ UNCHANGED <<schema, table, query, todo, partials, stats>>

Next ==
    \/ InvokeQuery \/ Combine
    \/ \E t \in todo : SkipInterval(t) \/ ScanInterval(t)

Spec == Init /\ [][Next]_vars

----------------------------------------------------------------------------
(* What a query means, over the rows of the table and without partials.     *)

Positions ==
    UNION {{<<ts[1], ts[2], i>> : i \in DOMAIN table[ts[1]][ts[2]]} : ts \in
              UNION {{<<u, v>> : v \in DOMAIN table[u]} : u \in DOMAIN table}}

RowAt(p) == table[p[1]][p[2]][p[3]]

(* The number in a cell, as a float64.                                      *)
Number(type, cell) == IF Float(type) THEN cell ELSE 2 * NumericCellValue(type, cell)

DimMeans(row) ==
    IF schema.string THEN Values[row.dim + 1] ELSE Number(schema.dim, row.dim)

Literal(v) == IF IsKind(v, "string") THEN v.s ELSE v.n

(* The comparison table in makeDimensionFilterFunc: a nil dimension differs *)
(* from every value and is ordered with none.                               *)
DimensionHolds(f, row) ==
    CASE f.type = "in" -> \E v \in Items(f) :
             IF IsKind(v, "null") THEN row.dim = Nil
             ELSE row.dim # Nil /\ DimMeans(row) = Literal(v)
      [] f.type = "=" /\ IsKind(f.value, "null") -> row.dim = Nil
      [] f.type = "!=" /\ IsKind(f.value, "null") -> row.dim # Nil
      [] IsKind(f.value, "null") -> FALSE
      [] row.dim = Nil -> f.type = "!="
      [] OTHER -> Compare(f.type, DimMeans(row), Literal(f.value))

NumberHolds(f, number) ==
    IF f.type = "in" THEN \E v \in Items(f) : v.n = number
    ELSE Compare(f.type, number, f.value.n)

Selected(p) ==
    \A f \in ToSet(query.filters) :
        CASE f.column = "at" -> NumberHolds(f, 2 * p[1])
          [] f.column = "dim" -> DimensionHolds(f, RowAt(p))
          [] f.column = "met" -> NumberHolds(f, Number(schema.met, RowAt(p).met))

KeyOf(p) ==
    IF ~Grouped THEN Nil
    ELSE IF OnTimestampColumn THEN TransformedKey(p[1])
    ELSE IF RowAt(p).dim = Nil THEN Nil
    ELSE IF schema.string THEN Values[RowAt(p).dim + 1]
    ELSE TransformedKey(NumericCellValue(schema.dim, RowAt(p).dim))

(* Without grouping there is always one row; grouping by time has a row for *)
(* every interval that is scanned, even if none of its rows passes.         *)
EmptyKeys ==
    IF ~Grouped THEN {Nil}
    ELSE IF OnTimestampColumn THEN {TransformedKey(t) : t \in {x \in DOMAIN table :
             \A f \in ToSet(TimestampFilters) : NumberHolds(f, 2 * x)}}
    ELSE {}

ResultRow(key) ==
    LET rows == {p \in Positions : Selected(p) /\ KeyOf(p) = key}
        big == TypeToBigType(schema.met)
        total == MapThenSumSet(LAMBDA p : NumericCellValue(schema.met, RowAt(p).met), rows)
        sum == IF Float(big) THEN total ELSE NumericCellValue(big, Encode(big, total))
        count == Encode("uint32", MapThenSumSet(LAMBDA p : RowAt(p).count, rows))
    IN  [value |-> IF query.aggregate.type = "sum" THEN <<sum>> ELSE <<sum, count>>,
         group |-> key, rowCount |-> count]

Meaning == {ResultRow(key) : key \in EmptyKeys \cup {KeyOf(p) : p \in {x \in Positions : Selected(x)}}}

EmptyRow(key) ==
    [value |-> IF query.aggregate.type = "sum" THEN <<0>> ELSE <<0, 0>>, group |-> key, rowCount |-> 0]

(* A filter compares what the query says: a number is converted to the      *)
(* column type before it is compared, so that only one the column can hold  *)
(* is, and strings have no order.                                           *)
Exact(f) ==
    LET type == CASE f.column = "at" -> "uint32" [] f.column = "dim" -> schema.dim [] OTHER -> schema.met
        fits(v) == IsKind(v, "number") => Number(type, setRowValue(type, v.n)) = v.n
    IN  /\ IF f.type = "in" THEN \A v \in Items(f) : fits(v) ELSE fits(f.value)
        /\ f.column = "dim" /\ IsKind(f.value, "string") => f.type \in {"=", "!="}

(* "!=" and a string that the dimension table does not have.                *)
UnequalToUnknown(f) ==
    f.column = "dim" /\ f.type = "!=" /\ IsKind(f.value, "string") /\ ~Known(f.value.s)

NegativeIndex(p) ==
    /\ Selected(p) /\ ~schema.string /\ RowAt(p).dim # Nil
    /\ Number(schema.dim, RowAt(p).dim) < 0

ExactQuery == \A f \in ToSet(query.filters) : Exact(f)

UnknownQuery == \E f \in ToSet(query.filters) : UnequalToUnknown(f)

----------------------------------------------------------------------------

(* The answer is what the query means, whichever of the three scan and      *)
(* combination algorithms is chosen and in whatever order the intervals are *)
(* scanned: sums wrap only in the 64-bit type, nil is a group of its own and*)
(* each interval counts once.  A "!=" with a string that no row has selects *)
(* nothing (falseFilterFunc), where the comparison table in                 *)
(* makeDimensionFilterFunc says that it is true of every row.               *)
AnswerMeans ==
    phase = "answered" /\ ExactQuery =>
        IF UnknownQuery
        THEN answer = {EmptyRow(key) : key \in EmptyKeys}
        ELSE answer = Meaning

(* A query that InvokeQuery accepts ends the server exactly if it groups by *)
(* slice and selects a negative value of the narrow signed column it groups *)
(* by: the index into the slice of groups (scanSliceGrouping) is then out   *)
(* of range, and in no other case.                                          *)
QueryAnswered ==
    LET bySlice == Grouped /\ useSliceGrouping
        negative == \E p \in Positions : NegativeIndex(p)
    IN  /\ phase = "panic" => bySlice /\ negative
        /\ phase = "answered" /\ bySlice /\ ExactQuery => ~negative
=============================================================================
