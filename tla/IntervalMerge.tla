--------------------------- MODULE IntervalMerge ---------------------------
(* One interval of the table: rows collapse in the memTable's tree, and a   *)
(* flush merges the tree with the interval's segments into new segments     *)
(* (src/gumshoe/insert.go, interval.go, the scan of static_table.go stats). *)
(*                                                                          *)
(* A key stands for the DimensionBytes of a row, in the order of            *)
(* bytes.Compare; a row is [key, metric, count] with one metric column.     *)
EXTENDS ColumnTypes, Sequences, SequencesExt, FiniteSetsExt

CONSTANTS MetricType, MaxUint32, Keys, Values, Counts,
          RowSize, SegmentSize,
          MaxRows           (* bound: inserted rows                         *)

MergeAssumption ==
    /\ MetricType \in Types
    /\ Keys \subseteq Nat /\ Values \subseteq Nat /\ Counts \subseteq Nat \ {0}
    /\ RowSize \in Nat \ {0} /\ SegmentSize \in Nat /\ MaxUint32 \in Nat /\ MaxRows \in Nat

VARIABLES mem,              (* the tree: key -> [metric, count]             *)
          segments,         (* the static interval: segments of rows        *)
          numRows, numSegments,                 (* the interval's counters  *)
          pc,               (* "insert", "merge" or "panic"                 *)
          memRest,          (* the rows the tree's cursor has not passed    *)
          cursor,           (* the static cursor's segment and next row     *)
          out,              (* the write-only interval: closed segments,    *)
                            (* the open one, whether there is one, counters *)
          total,            (* history: the true sum and count of each key  *)
          rows              (* history: the number of inserted rows         *)

vars == <<mem, segments, numRows, numSegments, pc, memRest, cursor, out, total, rows>>

Flat(segs) == FlattenSeq(segs)

newWriteOnlyInterval ==
    [closed |-> <<>>, cur |-> <<>>, open |-> FALSE, size |-> 0, rows |-> 0, segments |-> 0]

Init ==
    /\ mem = <<>> /\ segments = <<>>
    /\ numRows = 0 /\ numSegments = 0
    /\ pc = "insert"
    /\ memRest = <<>> /\ cursor = <<1, 1>>
    /\ out = newWriteOnlyInterval
    /\ total = [k \in Keys |-> [metric |-> 0, count |-> 0]]
    /\ rows = 0

(* insertRows on a row of this interval.                                    *)
Insert(key, value, count) ==
    LET old == IF key \in DOMAIN mem THEN mem[key] ELSE [metric |-> 0, count |-> 0]
        new == [metric |-> add(MetricType, old.metric, value), count |-> old.count + count]
    IN  /\ pc = "insert" /\ rows < MaxRows
        /\ mem' = [k \in DOMAIN mem \cup {key} |-> IF k = key THEN new ELSE mem[k]]
        /\ total' = [total EXCEPT ![key] = [metric |-> @.metric + value, count |-> @.count + count]]
        /\ rows' = rows + 1
        /\ UNCHANGED <<segments, numRows, numSegments, pc, memRest, cursor, out>>

(* The tree's rows in key order.                                            *)
TreeRows ==
    LET keys == SetToSortSeq(DOMAIN mem, <)
    IN  [i \in DOMAIN keys |-> [key |-> keys[i], metric |-> mem[keys[i]].metric, count |-> mem[keys[i]].count]]

(* WriteMemInterval and WriteCombinedInterval up to their loops.            *)
StartFlush ==
    /\ pc = "insert" /\ mem # <<>>
    /\ pc' = "merge"
    /\ memRest' = TreeRows
    /\ cursor' = <<1, 1>>
    /\ out' = newWriteOnlyInterval
    /\ UNCHANGED <<mem, segments, numRows, numSegments, total, rows>>

moreStaticKeys == cursor[1] <= Len(segments)

StaticRow == segments[cursor[1]][cursor[2]]

(* intervalCursor.Next: the next row, in the next segment after the last.   *)
NextStatic ==
    IF cursor[2] < Len(segments[cursor[1]]) THEN <<cursor[1], cursor[2] + 1>> ELSE <<cursor[1] + 1, 1>>

(* Closing when no segment is open is a type assertion on a nil interface.  *)
SegmentFull == out.size + RowSize > SegmentSize

AppendPanics(row) == row.count > MaxUint32 \/ (SegmentFull /\ ~out.open)

closeCurrentSegment(o) == [o EXCEPT !.closed = Append(@, o.cur)]

openFreshSegment(o) == [o EXCEPT !.cur = <<>>, !.open = TRUE, !.segments = @ + 1]

writeKeyValCount(o, row) == [o EXCEPT !.cur = Append(@, row), !.rows = @ + 1]

appendRowNoReset(row) ==
    LET base == IF SegmentFull THEN openFreshSegment(closeCurrentSegment(out))
                ELSE IF out.open THEN out ELSE openFreshSegment(out)
    IN  writeKeyValCount([base EXCEPT !.size = RowSize], row)

appendRow(row) ==
    LET base == IF SegmentFull THEN openFreshSegment([closeCurrentSegment(out) EXCEPT !.size = 0])
                ELSE IF out.open THEN out ELSE openFreshSegment(out)
    IN  writeKeyValCount([base EXCEPT !.size = @ + RowSize], row)

(* The panic ends the process; what it had in memory no longer matters.     *)
Write(row) ==
    IF AppendPanics(row)
    THEN pc' = "panic" /\ UNCHANGED out
    ELSE pc' = pc /\ out' = appendRow(row)

Same == UNCHANGED <<mem, segments, numRows, numSegments, total, rows>>

(* A row of the tree only: before the next static key, or after the last.   *)
WriteMemRow ==
    /\ pc = "merge" /\ memRest # <<>>
    /\ moreStaticKeys => Head(memRest).key < StaticRow.key
    /\ Write(Head(memRest))
    /\ memRest' = Tail(memRest)
    /\ UNCHANGED cursor /\ Same

WriteStaticRow ==
    /\ pc = "merge" /\ moreStaticKeys
    /\ memRest # <<>> => StaticRow.key < Head(memRest).key
    /\ Write(StaticRow)
    /\ cursor' = NextStatic
    /\ UNCHANGED memRest /\ Same

Combined(row, static) ==
    [row EXCEPT !.metric = add(MetricType, @, static.metric), !.count = @ + static.count]

(* Equal keys: the metrics and counts are added and both cursors advance.   *)
WriteCombinedRow ==
    /\ pc = "merge" /\ memRest # <<>> /\ moreStaticKeys
    /\ Head(memRest).key = StaticRow.key
    /\ Write(Combined(Head(memRest), StaticRow))
    /\ memRest' = Tail(memRest)
    /\ cursor' = NextStatic
    /\ Same

(* An I/O error: the flush fails before the memTable is replaced.           *)
WriteFails ==
    /\ pc = "merge"
    /\ pc' = "insert"
    /\ UNCHANGED <<memRest, cursor, out>> /\ Same

(* freeze, and the replacement of table and memTable that follows it.       *)
freeze ==
    /\ pc = "merge" /\ memRest = <<>> /\ ~moreStaticKeys
    /\ segments' = closeCurrentSegment(out).closed
    /\ numRows' = out.rows /\ numSegments' = out.segments
    /\ mem' = <<>>
    /\ pc' = "insert"
    /\ UNCHANGED <<memRest, cursor, out, total, rows>>

Next ==
    \/ \E k \in Keys, v \in Values, c \in Counts : Insert(k, v, c)
    \/ StartFlush
    \/ WriteMemRow \/ WriteStaticRow \/ WriteCombinedRow
    \/ WriteFails \/ freeze

Spec == Init /\ [][Next]_vars

(* StaticTable.stats, for one interval.                                     *)
LogicalRows == FoldLeft(LAMBDA sum, row : sum + row.count, 0, Flat(segments))

stats == [Segments |-> numSegments, Rows |-> numRows, Bytes |-> RowSize * Len(Flat(segments)),
          logical |-> LogicalRows]

InMem(k) == IF k \in DOMAIN mem THEN mem[k] ELSE [metric |-> 0, count |-> 0]

InSegments(k) ==
    LET found == SelectSeq(Flat(segments), LAMBDA row : row.key = k)
    IN  IF found = <<>> THEN [metric |-> 0, count |-> 0] ELSE found[1]

(* After any number of flushes, failed ones too, every inserted row is      *)
(* counted once, in the memTable or in the segments, and the metrics add up *)
(* in the column's type.                                                    *)
RowsConserved ==
    pc = "insert" =>
        \A k \in Keys :
            /\ InMem(k).count + InSegments(k).count = total[k].count
            /\ add(MetricType, InMem(k).metric, InSegments(k).metric) = Encode(MetricType, total[k].metric)

(* The segments hold one row for each key, in increasing order across the   *)
(* segments: what the next merge relies on.                                 *)
SegmentsSorted ==
    \A i, j \in DOMAIN Flat(segments) : i < j => Flat(segments)[i].key < Flat(segments)[j].key

(* No segment is larger than SegmentSize or empty, and one is closed only   *)
(* when the next row does not fit; the counters that are persisted with the *)
(* interval are those of its segments.                                      *)
SegmentsFit ==
    /\ \A i \in DOMAIN segments :
          /\ Len(segments[i]) > 0 /\ RowSize * Len(segments[i]) <= SegmentSize
          /\ i < Len(segments) => RowSize * (Len(segments[i]) + 1) > SegmentSize
    /\ stats.Segments = Len(segments)
    /\ stats.Rows = Len(Flat(segments))
    /\ pc = "insert" /\ mem = <<>> => stats.logical = MapThenSumSet(LAMBDA k : total[k].count, Keys)

(* appendRow panics exactly when more than MaxUint32 rows were inserted     *)
(* with one set of dimension values: not at the limit, never because a      *)
(* segment is full, and whatever the flushes that the rows were spread      *)
(* over; a flush that ends has met no such row.  Its comment says that it   *)
(* "writes multiple rows if the count is too large to represent directly".  *)
CountRepresentable ==
    /\ pc = "panic" => \E k \in Keys : total[k].count > MaxUint32
    /\ pc = "insert" /\ mem = <<>> => \A k \in Keys : total[k].count <= MaxUint32
=============================================================================
