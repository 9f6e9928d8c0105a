------------------------------- MODULE MCData -------------------------------
(* Rows, queries, intervals and the configuration: each component that      *)
(* represents or converts data, by itself.  A behaviour runs one component, *)
(* part, on the variables v1 to v10; components instantiated twice differ   *)
(* in their bounds or in the calls that are made.                           *)
EXTENDS Integers, Sequences, SequencesExt, TLC

CONSTANTS Nil, None, word

VARIABLES part,   \* the component that this behaviour runs
          v1, v2, v3, v4, v5, v6, v7, v8, v9, v10   \* its variables

vars == <<part, v1, v2, v3, v4, v5, v6, v7, v8, v9, v10>>

Cols == INSTANCE ColumnTypes WITH ByteBits <- 2

----------------------------------------------------------------------------
(* Query: every kind of filter and grouping on six schemas, one of them     *)
(* with a narrow signed dimension.                                          *)
QuerySchemas ==
    {[dim |-> "uint8", string |-> FALSE, met |-> "uint8"],
     [dim |-> "int8", string |-> FALSE, met |-> "uint8"],
     [dim |-> "uint16", string |-> TRUE, met |-> "int8"],
     [dim |-> "uint32", string |-> TRUE, met |-> "uint16"],
     [dim |-> "uint32", string |-> FALSE, met |-> "float32"],
     [dim |-> "int32", string |-> FALSE, met |-> "uint64"]}

\* Two cells of a dimension; the second is negative if the type is signed
DimCell(s, k) == IF k = 0 THEN 0 ELSE IF Cols!Signed(s.dim) THEN Cols!Modulus(s.dim) - 1 ELSE 1

\* The largest cell, so that sums and counts overflow their narrow types
MetCell(s, k) == IF k = 0 THEN 1 ELSE IF Cols!Float(s.met) THEN 3 ELSE Cols!Modulus(s.met) - 1

TableRow(d, m, c) == [dim |-> d, met |-> m, count |-> c]

TableRows(s) ==
    <<TableRow(DimCell(s, 0), MetCell(s, 1), 200), TableRow(DimCell(s, 1), MetCell(s, 0), 1),
      TableRow(Nil, MetCell(s, 1), 100)>>

QueryTables(s) ==
    LET rows == TableRows(s)
        late == {<<<<r>>>> : r \in ToSet(rows)}
    IN  {[t \in {0, 3} |-> IF t = 0 THEN <<<<rows[1], rows[2]>>, <<rows[3]>>>> ELSE segments] : segments \in late}
        \cup {[t \in {2} |-> <<<<rows[2], rows[1]>>>>], [t \in {} |-> <<>>]}

Number(n) == [kind |-> "number", n |-> n]

String(x) == [kind |-> "string", s |-> x]

Null == [kind |-> "null"]

List(items) == [kind |-> "list", items |-> items]

Filter(column, type, value) == [column |-> column, type |-> type, value |-> value]

Ops == {"=", "!=", "<", "<=", ">", ">="}

DimFilters ==
    {Filter("dim", op, v) : op \in Ops, v \in {Null, Number(2), Number(3), String("b"), String("zz")}}
    \cup {Filter("dim", "in", v) : v \in {List(<<>>), List(<<Number(0), Null>>), List(<<String("a"), String("zz")>>),
                                           List(<<Number(2)>>), Null}}

MetFilters ==
    {Filter("met", op, Number(2)) : op \in Ops}
    \cup {Filter("met", "in", List(<<Number(2), Number(0)>>)), Filter("met", "=", Null)}

AtFilters ==
    {Filter("at", op, Number(4)) : op \in Ops}
    \cup {Filter("at", "in", List(<<Number(0)>>)), Filter("at", "<", String("a")), Filter("other", "=", Null)}

Sum == [type |-> "sum", column |-> "met"]

By(column, transform) == [column |-> column, transform |-> transform]

Groupings == {<<>>, <<By("dim", "none")>>, <<By("at", "none")>>, <<By("at", "hour")>>, <<By("dim", "minute")>>}

Queries ==
    {[aggregate |-> Sum, groupings |-> g, filters |-> <<f>>] :
        g \in Groupings, f \in DimFilters \cup MetFilters \cup AtFilters}
    \cup {[aggregate |-> Sum, groupings |-> g, filters |-> <<Filter("dim", "!=", v), Filter("at", ">=", Number(4))>>] :
        g \in Groupings, v \in {Null, Number(2)}}
    \cup {[aggregate |-> a, groupings |-> g, filters |-> <<>>] :
        a \in {[Sum EXCEPT !.type = "average"], [Sum EXCEPT !.column = "dim"]},
        g \in Groupings \cup {<<By("at", "day")>>, <<By("met", "none")>>, <<By("at", "none"), By("dim", "none")>>}}

----------------------------------------------------------------------------
(* RowCodec: a byte is one bit, so that three strings overflow a table.     *)
Field(n, t, s) == [name |-> n, type |-> t, string |-> s]

Layout(dims, metrics) == [dims |-> dims, metrics |-> metrics, size |-> 16, duration |-> 1]

Layouts ==
    {Layout(<<Field("a", "uint8", TRUE), Field("b", "int16", FALSE), Field("c", "float32", FALSE)>>,
            <<Field("m", "uint8", FALSE), Field("n", "int32", FALSE)>>),
     Layout(<<>>, <<Field("m", "uint8", FALSE)>>),
     Layout(<<Field("a", "uint16", TRUE), Field("b", "int8", FALSE)>>, <<Field("n", "float32", FALSE)>>)}

Num(v) == [kind |-> "number", v |-> v]

Str(s) == [kind |-> "string", v |-> s]

\* Strings, alone and beside a value that is refused
StringMaps ==
    {("at" :> Num(0)) @@ ("a" :> Str(s)) @@ m : s \in {"s1", "s2", "s3"},
        m \in {<<>>, "m" :> Num(4), ("b" :> Num(2)) @@ ("n" :> Num(3)), "x" :> Num(2)}}

RowMaps ==
    StringMaps \cup {<<>>, "at" :> Nil, "at" :> Str("s1"), "at" :> Num(3)}
        \cup {("at" :> Num(0)) @@ m : m \in
                {"a" :> Nil, "a" :> Num(2), "b" :> Num(1), "b" :> Nil, ("b" :> Num(6)) @@ ("c" :> Num(5)),
                 "c" :> Num(-7), "m" :> Nil, ("b" :> Num(-2)) @@ ("n" :> Num(-6)), "m" :> Num(2), "m" :> Num(-2),
                 "n" :> Num(4), "n" :> Str("s1")}}

----------------------------------------------------------------------------
(* RowConversion: two dimensions and a metric, in several types.  A 64-bit  *)
(* integer has 16 bits and a float64's significand 13; three cells of the   *)
(* 64-bit types need more.                                                  *)
Typed(t) == [type |-> t, string |-> FALSE]

Text == [type |-> "uint8", string |-> TRUE]

OldAndNew ==
    {s \in {[dims |-> d, metrics |-> m] :
        d \in {"a" :> Typed("int8"), "a" :> Typed("int16"), "a" :> Text, "b" :> Typed("uint8"), "a" :> Typed("int64"),
               ("a" :> Typed("int8")) @@ ("b" :> Typed("uint16")), ("a" :> Text) @@ ("b" :> Typed("float32"))},
        m \in {"m" :> Typed("uint8"), "m" :> Typed("uint64"), "m" :> Typed("int16"), <<>>, "b" :> Typed("uint8")}} :
        DOMAIN s.dims \cap DOMAIN s.metrics = {}}

Cells(col) ==
    IF col.string THEN {[kind |-> "string", v |-> word]}
    ELSE {[kind |-> col.type, v |-> v] :
            v \in IF Cols!Float(col.type) THEN {-3, 1}
                  ELSE {Cols!NumericCellValue(col.type, c) :
                           c \in {0, 1, Cols!Modulus(col.type) \div 2 - 1, Cols!Modulus(col.type) \div 2, Cols!Modulus(col.type) - 1}
                                \cup IF Cols!typeWidths[col.type] = 8 THEN {2 ^ 13 + 1, 2 ^ 14 + 1} ELSE {}}}

ConvertedRows(s) ==
    LET all == s.dims @@ s.metrics
        cells(c) == Cells(all[c]) \cup IF c \in DOMAIN s.dims THEN {Nil} ELSE {}
    IN  {r \in [DOMAIN all -> UNION {cells(c) : c \in DOMAIN all}] : \A c \in DOMAIN all : r[c] \in cells(c)}

----------------------------------------------------------------------------
(* ConfigLoad: a good document, and what differs from it in a few places.   *)
TextVal(v) == [typ |-> "string", val |-> v]

IntVal(v) == [typ |-> "integer", val |-> v]

Size(n, mult) == TextVal([n |-> n, mult |-> mult])

Col(name, typ, str) == [typ |-> "array", len |-> 2, val |-> [name |-> name, typ |-> typ, isString |-> str]]

ColList(s) == [typ |-> "slice", val |-> s]

Triple == [typ |-> "array", len |-> 3, val |-> [name |-> "", typ |-> "", isString |-> FALSE]]

exact(f) == [field |-> f, exact |-> TRUE]

loose(f) == [field |-> f, exact |-> FALSE]

Good ==
    exact("segment_size") :> Size(2, 10) @@ exact("interval_duration") :> TextVal(2)
    @@ exact("timestamp_column") :> Col("at", "uint32", FALSE)
    @@ exact("dimension_columns") :> ColList(<<Col("name", "uint16", TRUE), Col("age", "int8", FALSE)>>)
    @@ exact("metric_columns") :> ColList(<<Col("clicks", "float32", FALSE)>>)

GoodTop(schema) ==
    exact("listen_addr") :> TextVal("a") @@ exact("open_file_limit") :> IntVal(5) @@ exact("database_dir") :> TextVal("db")
    @@ exact("flush_interval") :> TextVal(3) @@ exact("query_parallelism") :> IntVal(4) @@ exact("retention_days") :> IntVal(2)
    @@ exact("schema") :> [typ |-> "table", val |-> schema]

Without(t, k) == [x \in DOMAIN t \ {k} |-> t[x]]

SchemaVariants ==
    {Without(Good, k) : k \in DOMAIN Good}
    \cup {exact("segment_size") :> v @@ Good : v \in {Size(1, 1), Size(3, 0), Size(12, 10), Size(20, 10), Size(30, 10), IntVal(20)}}
    \cup {exact("interval_duration") :> v @@ Good : v \in {TextVal(1), TextVal(-1), IntVal(0), IntVal(7), ColList(<<>>)}}
    \cup {exact("timestamp_column") :> v @@ Good :
             v \in {Col("at", "int32", FALSE), Col("at", "uint32", TRUE), Col("age", "uint32", FALSE), Triple}}
    \cup {exact("dimension_columns") :> ColList(v) @@ Good :
             v \in {<<>>, <<Col("name", "int8", TRUE)>>, <<Col("clicks", "uint8", FALSE)>>, <<Col("a", "text", FALSE)>>,
                    <<Triple>>, <<Col("a", "uint8", FALSE), Col("a", "uint8", FALSE)>>}}
    \cup {exact("metric_columns") :> ColList(v) @@ Good :
             v \in {<<>>, <<Col("m", "uint8", TRUE)>>, <<Col("at", "uint8", FALSE)>>}}
    \cup {loose("dimension_columns") :> ColList(v) @@ Good : v \in {<<>>, <<Col("x", "uint8", FALSE)>>}}
    \cup {loose("unknown") :> IntVal(1) @@ Good}

\* Two schema tables, of which one matches only up to case
TwoSchemas ==
    {loose("schema") :> [typ |-> "table", val |-> exact("dimension_columns") :> ColList(v)] @@ GoodTop(Good) :
        v \in {<<>>, <<Col("x", "uint8", FALSE)>>, <<Triple, Col("x", "uint8", FALSE), Col("y", "uint8", FALSE)>>,
               <<Col("x", "uint8", FALSE), Col("y", "uint8", FALSE), Col("z", "uint8", FALSE)>>}}

TopVariants ==
    {Without(GoodTop(Good), k) : k \in DOMAIN GoodTop(Good)}
    \cup {exact("database_dir") :> v @@ GoodTop(Good) : v \in {TextVal(""), TextVal("MEMORY"), IntVal(1)}}
    \cup {exact("flush_interval") :> v @@ GoodTop(Good) : v \in {TextVal(0), IntVal(3)}}
    \cup {exact("query_parallelism") :> v @@ GoodTop(Good) : v \in {IntVal(0), TextVal(4)}}
    \cup {exact("retention_days") :> v @@ GoodTop(Good) : v \in {IntVal(0), IntVal(12), IntVal(15), IntVal(30)}}
    \cup {exact("schema") :> IntVal(1) @@ GoodTop(Good)}
    \cup {loose("retention_days") :> IntVal(1) @@ GoodTop(Good)}

Documents == {GoodTop(s) : s \in SchemaVariants \cup {Good}} \cup TopVariants \cup TwoSchemas

----------------------------------------------------------------------------
(* The TOML tables: the names of keys, of which one is the quoted "a.b".    *)
Plain == {<<"a">>, <<"b">>}

Dotted == Plain \cup {<<"a", "b">>}

----------------------------------------------------------------------------

Query == INSTANCE Query WITH
    ByteBits <- 2, Nil <- Nil, Schemas <- QuerySchemas, TablesOf <- QueryTables,
    Values <- <<"a", "b">>, QuerySet <- Queries, sliceGroupingSizeLimit <- 1, Minute <- 1,
    Hour <- 2, Day <- 4, schema <- v1, table <- v2, query <- v3, phase <- v4, todo <- v5,
    partials <- v6, stats <- v7, answer <- v8

Codec == INSTANCE RowCodec WITH
    ByteBits <- 1, Nil <- Nil, At <- "at", SchemaSet <- Layouts, RowMaps <- RowMaps,
    schema <- v1, stored <- v2, static <- v3, mem <- v4, row <- v5, inserted <- v6

Convert == INSTANCE RowConversion WITH
    ByteBits <- 2, Nil <- Nil, Mantissa <- 13, Schemas <- OldAndNew, Rows <- ConvertedRows,
    old <- v1, new <- v2, oldRow <- v3, newRow <- v4, outcome <- v5

Interval == INSTANCE IntervalMerge WITH
    ByteBits <- 2, MetricType <- "uint8", MaxUint32 <- 3, Keys <- 1..3, Values <- {1, 3},
    Counts <- {1, 2}, RowSize <- 5, SegmentSize <- 11, MaxRows <- 4, mem <- v1,
    segments <- v2, numRows <- v3, numSegments <- v4, pc <- v5, memRest <- v6, cursor <- v7,
    out <- v8, total <- v9, rows <- v10

Tree == INSTANCE BTree WITH
    Keys <- 1..9, Values <- {10}, None <- None, kd <- 1, kx <- 2, t <- v1, map <- v2,
    e <- v3, dir <- v4, got <- v5, steady <- v6, ended <- v7

Enum == INSTANCE BTree WITH
    Keys <- 1..4, Values <- {10, 11}, None <- None, kd <- 1, kx <- 2, t <- v1, map <- v2,
    e <- v3, dir <- v4, got <- v5, steady <- v6, ended <- v7

Config == INSTANCE ConfigLoad WITH
    Documents <- Documents, IntBits <- 8, Day <- 10, Minute <- 2, Second <- 1,
    MinSegment <- 10, NumCPU <- 3, doc <- v1, walk <- v2, config <- v3, status <- v4,
    db <- v5

Lexer == INSTANCE TomlLexer WITH MaxStack <- 4, lx <- v1, rest <- v2, parser <- v3

Tables == INSTANCE TomlTables WITH
    Names <- Plain, MaxKey <- 3, MaxStatements <- 3, mapping <- v1, implicits <- v2,
    context <- v3, types <- v4, ordered <- v5, verdict <- v6, concrete <- v7, overridden <- v8

Quoted == INSTANCE TomlTables WITH
    Names <- Dotted, MaxKey <- 2, MaxStatements <- 3, mapping <- v1, implicits <- v2,
    context <- v3, types <- v4, ordered <- v5, verdict <- v6, concrete <- v7, overridden <- v8

Nested == INSTANCE TomlTables WITH
    Names <- {<<"a">>}, MaxKey <- 3, MaxStatements <- 5, mapping <- v1, implicits <- v2,
    context <- v3, types <- v4, ordered <- v5, verdict <- v6, concrete <- v7, overridden <- v8

Init ==
    \/ part = "query" /\ Query!Init /\ v9 = 0 /\ v10 = 0
    \/ part = "rows" /\ Codec!Init /\ v7 = 0 /\ v8 = 0 /\ v9 = 0 /\ v10 = 0
    \/ part = "convert" /\ Convert!Init /\ v6 = 0 /\ v7 = 0 /\ v8 = 0 /\ v9 = 0 /\ v10 = 0
    \/ part = "interval" /\ Interval!Init
    \/ part = "tree" /\ Tree!Init /\ v8 = 0 /\ v9 = 0 /\ v10 = 0
    \/ part = "enumerate" /\ Enum!Init /\ v8 = 0 /\ v9 = 0 /\ v10 = 0
    \/ part = "config" /\ Config!Init /\ v6 = 0 /\ v7 = 0 /\ v8 = 0 /\ v9 = 0 /\ v10 = 0
    \/ part = "lexer" /\ Lexer!Init /\ v4 = 0 /\ v5 = 0 /\ v6 = 0 /\ v7 = 0 /\ v8 = 0 /\ v9 = 0 /\ v10 = 0
    \/ part = "tables" /\ Tables!Init /\ v9 = 0 /\ v10 = 0
    \/ part = "quoted" /\ Quoted!Init /\ v9 = 0 /\ v10 = 0
    \/ part = "nested" /\ Nested!Init /\ v9 = 0 /\ v10 = 0

Next ==
    \/ part = "query" /\ Query!Next /\ UNCHANGED <<part, v9, v10>>
    \/ part = "rows" /\ Codec!Next /\ UNCHANGED <<part, v7, v8, v9, v10>>
    \/ part = "convert" /\ Convert!Next /\ UNCHANGED <<part, v6, v7, v8, v9, v10>>
    \/ part = "interval" /\ Interval!Next /\ UNCHANGED <<part>>
    \/ part = "tree" /\ Tree!Write /\ UNCHANGED <<part, v8, v9, v10>>
    \/ part = "enumerate" /\ Enum!EnumNext /\ UNCHANGED <<part, v8, v9, v10>>
    \/ part = "config" /\ Config!Next /\ UNCHANGED <<part, v6, v7, v8, v9, v10>>
    \/ part = "lexer" /\ Lexer!Next /\ UNCHANGED <<part, v4, v5, v6, v7, v8, v9, v10>>
    \/ part = "tables" /\ Tables!Next /\ UNCHANGED <<part, v9, v10>>
    \/ part = "quoted" /\ Quoted!Next /\ UNCHANGED <<part, v9, v10>>
    \/ part = "nested" /\ Nested!Next /\ UNCHANGED <<part, v9, v10>>

Spec == Init /\ [][Next]_vars

----------------------------------------------------------------------------
ASSUME Assumptions ==
    /\ Cols!ByteAssumption /\ Interval!MergeAssumption /\ Config!ConfigAssumption
    /\ Tree!BTreeAssumption /\ Enum!BTreeAssumption /\ Lexer!LexerAssumption
    /\ Tables!TablesAssumption /\ Quoted!TablesAssumption /\ Nested!TablesAssumption

(* query.go: whichever scan and combination algorithm is chosen, the answer *)
(* is what the query means, except that no row is unequal to a string that  *)
(* was never inserted.  A scan panics for a negative value in a grouping by *)
(* slice, and for nothing else.                                             *)
AnswerMeans == part = "query" => Query!AnswerMeans /\ Query!QueryAnswered

(* row.go and dimension_table.go: every string has one place in a dimension *)
(* table, and a stored row deserializes to the row map it came from.        *)
(* gumtool migrate.go and merge.go: what makeConversionFunc accepts, every  *)
(* row survives, and a converted row keeps its values, but for integers     *)
(* that float64 does not represent.                                         *)
RowsKeepMeaning ==
    /\ part = "rows" => Codec!TypeOK /\ Codec!RowMeans
    /\ part = "convert" => Convert!ValuesKept /\ Convert!NoRowError

(* interval.go: a flush loses, repeats and miscounts no row; a merge leaves *)
(* one row for each key, in order, in segments that are filled to           *)
(* SegmentSize and counted; appendRow panics when a key's count leaves the  *)
(* range of a count, and only then.                                         *)
MergeExact ==
    part = "interval" => /\ Interval!RowsConserved
                         /\ Interval!SegmentsSorted
                         /\ Interval!SegmentsFit
                         /\ Interval!CountRepresentable

(* btree.go: Set, Delete and Clear do what they do to a map and Get finds   *)
(* it, in a balanced tree whose data pages are linked in order.  Next goes  *)
(* up, and misses no key that was there all the time, although the tree     *)
(* changes between two calls.                                               *)
TreeIsMap ==
    /\ part = "tree" => Tree!IsMap /\ Tree!GetFinds /\ Tree!Balanced /\ Tree!Linked
    /\ part = "enumerate" => Enum!IsMap /\ Enum!NextAscends /\ Enum!NextComplete

(* config.go: no field of a loaded configuration was left at a default, its *)
(* schema is one that the database can use, and the database runs with the  *)
(* sizes and times of the document as far as they fit an int, and with as   *)
(* many scans as there are CPUs.                                            *)
ConfigUsable == part = "config" => Config!NoSilentDefault /\ Config!UsableSchema /\ Config!SettingsApplied

=============================================================================
