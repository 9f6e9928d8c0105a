----------------------------- MODULE ConfigLoad -----------------------------
(***************************************************************************)
(* From a parsed TOML document to the settings of a running database:          *)
(* Decode fills the Config struct (BurntSushi/toml/decode.go), walking over the  *)
(* tables in the order of Go's map iteration; checkUndefinedFields and            *)
(* makeSchema (internal/config) accept or refuse it; Initialize fills in           *)
(* defaults (gumshoe/schema.go).                                              *)
(*                                                                         *)
(* A key is the field it matches and whether it does so exactly or only up to     *)
(* case.  listen_addr stands for both addresses.  Sizes and durations are scaled:  *)
(* IntBits for 64, Day, Minute, Second and MinSegment for theirs.                 *)
(***************************************************************************)
EXTENDS Integers, Sequences, FiniteSets, Functions

CONSTANTS
    Documents,      \* the documents to load
    IntBits, Day, Minute, Second, MinSegment,
    NumCPU

ConfigAssumption == {IntBits, Day, Minute, Second, MinSegment, NumCPU} \subseteq Nat \ {0}

VARIABLES
    doc,       \* the document: a function from keys to data
    walk,      \* the tables that are walked, the innermost last, each with the keys left
    config,    \* the Config, a value for each field
    status,    \* "decoding", "failed", "panicked" or "loaded"
    db         \* the settings of the database

vars == <<doc, walk, config, status, db>>

kinds ==
    [listen_addr |-> "string", open_file_limit |-> "int", database_dir |-> "string",
     flush_interval |-> "text", query_parallelism |-> "int", retention_days |-> "int",
     schema |-> "struct", segment_size |-> "string", interval_duration |-> "text",
     timestamp_column |-> "array", dimension_columns |-> "slice", metric_columns |-> "slice"]
schemaFields == {"segment_size", "interval_duration", "timestamp_column", "dimension_columns", "metric_columns"}
fieldsOf == [top |-> DOMAIN kinds \ schemaFields, schema |-> schemaFields]

NoColumn == [name |-> "", typ |-> "", isString |-> FALSE]
NilSlice == [isNil |-> TRUE, elems |-> <<>>]
zero(f) == CASE kinds[f] \in {"int", "text"} -> 0 [] kinds[f] = "slice" -> NilSlice
             [] kinds[f] = "array" -> NoColumn [] OTHER -> ""
NoDB == [retention |-> 0, parallelism |-> 0, segmentSize |-> 0]

Init ==
    /\ doc \in Documents
    /\ walk = <<[ctx |-> "top", table |-> doc, left |-> DOMAIN doc]>>
    /\ config = [f \in DOMAIN kinds |-> zero(f)]
    /\ status = "decoding"
    /\ db = NoDB

-----------------------------------------------------------------------------
(* unify for each kind of field: the new value, an error, or a panic. *)
Ok(v) == [res |-> "ok", val |-> v]
Err == [res |-> "failed"]
Panic == [res |-> "panicked"]

unifyString(d) == IF d.typ = "string" THEN Ok(d.val) ELSE Err
unifyInt(d) == IF d.typ = "integer" THEN Ok(d.val) ELSE Err

(* Duration.UnmarshalText: numbers arrive as text without a unit, which only zero may be. *)
UnmarshalText(d) == CASE d.typ = "string" -> IF d.val = -1 THEN Err ELSE Ok(d.val)
                      [] d.typ = "integer" -> IF d.val = 0 THEN Ok(0) ELSE Err
                      [] OTHER -> Err
unifyText(d) == IF d.typ \in {"string", "integer", "bool"} THEN UnmarshalText(d) ELSE Err

unifyArray(d) == IF d.typ = "array" /\ d.len = 2 THEN Ok(d.val) ELSE Err

(* A slice is made when it is nil; one that is not keeps its length. *)
unifySliceArray(d, elems) ==
    CASE \E i \in DOMAIN d.val : i <= Len(elems) /\ unifyArray(d.val[i]) = Err -> Err
      [] Len(d.val) > Len(elems) -> Panic
      [] OTHER -> Ok([isNil |-> FALSE,
                      elems |-> [i \in DOMAIN elems |-> IF i <= Len(d.val) THEN d.val[i].val ELSE elems[i]]])
unifySlice(d, rv) ==
    IF d.typ # "slice" THEN Err
    ELSE unifySliceArray(d, IF rv.isNil THEN [i \in DOMAIN d.val |-> NoColumn] ELSE rv.elems)

unify(f, d) ==
    CASE kinds[f] = "string" -> unifyString(d)
      [] kinds[f] = "int" -> unifyInt(d)
      [] kinds[f] = "text" -> unifyText(d)
      [] kinds[f] = "array" -> unifyArray(d)
      [] kinds[f] = "slice" -> unifySlice(d, config[f])

ends(why) == status' = why /\ UNCHANGED <<doc, walk, config, db>>
top == walk[Len(walk)]
visited(k) == [walk EXCEPT ![Len(walk)].left = @ \ {k}]

(* One key of the walk of unifyStruct: a table of its own for the schema. *)
unifyStruct(k) ==
    LET d == top.table[k]
        r == unify(k.field, d)
    IN  /\ status = "decoding" /\ k \in top.left
        /\ CASE k.field \notin fieldsOf[top.ctx] ->
                  walk' = visited(k) /\ UNCHANGED <<doc, config, status, db>>
             [] k.field = "schema" ->
                  IF d.typ # "table" THEN ends("failed")
                  ELSE /\ walk' = Append(visited(k), [ctx |-> "schema", table |-> d.val, left |-> DOMAIN d.val])
                       /\ UNCHANGED <<doc, config, status, db>>
             [] OTHER ->
                  IF r.res # "ok" THEN ends(r.res)
                  ELSE /\ config' = [config EXCEPT ![k.field] = r.val]
                       /\ walk' = visited(k)
                       /\ UNCHANGED <<doc, status, db>>

schemaDecoded ==
    /\ status = "decoding" /\ Len(walk) > 1 /\ top.left = {}
    /\ walk' = SubSeq(walk, 1, Len(walk) - 1)
    /\ UNCHANGED <<doc, config, status, db>>

-----------------------------------------------------------------------------
(* checkUndefinedFields: the exact keys of all fields, nested ones included. *)
exact(f) == [field |-> f, exact |-> TRUE]
IsDefined(f) ==
    IF f \in fieldsOf.top THEN exact(f) \in DOMAIN doc
    ELSE /\ exact("schema") \in DOMAIN doc
         /\ exact(f) \in DOMAIN doc[exact("schema")].val
nestedTOMLFieldsTop == fieldsOf.top      \* mutant: only the fields at the top
nestedTOMLFields == DOMAIN kinds
checkUndefinedFields == \A f \in nestedTOMLFields : IsDefined(f)

(* makeSchema. *)
signed(n) == ((n + 2 ^ (IntBits - 1)) % 2 ^ IntBits) - 2 ^ (IntBits - 1)
ParseBytes(size) ==      \* -1 for an error
    IF size.mult = 0 \/ size.n * size.mult >= 2 ^ IntBits THEN -1 ELSE size.n * size.mult

TypeNames == {"uint8", "int8", "uint16", "int16", "uint32", "int32", "uint64", "int64", "float32", "float64"}
unsigned == {"uint8", "uint16", "uint32"}

dimensionOk(c) == c.typ \in TypeNames /\ (c.isString => c.typ \in unsigned)
metricOk(c) == c.typ \in TypeNames /\ ~c.isString

duplicates ==
    LET cols == <<config.timestamp_column>> \o config.dimension_columns.elems \o config.metric_columns.elems
    IN  \E i, j \in DOMAIN cols : i # j /\ cols[i].name = cols[j].name

makeSchemaOk ==
    /\ config.database_dir # ""
    /\ ParseBytes(config.segment_size) # -1
    /\ config.timestamp_column.typ = "uint32" /\ ~config.timestamp_column.isString
    /\ \A c \in Range(config.dimension_columns.elems) : dimensionOk(c)
    /\ config.metric_columns.elems # <<>>
    /\ \A c \in Range(config.metric_columns.elems) : metricOk(c)
    /\ ~duplicates
    /\ config.flush_interval >= Second
    /\ config.query_parallelism >= 1
    /\ config.retention_days >= 1
    /\ ParseBytes(config.segment_size) >= MinSegment
    /\ config.interval_duration >= Minute

makeSchema ==
    [retention |-> signed(config.retention_days * Day),
     parallelism |-> 0,      \* RunConfig's field is not set
     segmentSize |-> signed(ParseBytes(config.segment_size))]

fillDefaults(schema) ==
    [schema EXCEPT !.retention = IF @ <= 0 THEN signed(7 * Day) ELSE @,
                   !.parallelism = IF @ = 0 THEN NumCPU ELSE @]

LoadTOMLConfig ==
    /\ status = "decoding" /\ Len(walk) = 1 /\ top.left = {}
    /\ IF checkUndefinedFields /\ makeSchemaOk
       THEN status' = "loaded" /\ db' = fillDefaults(makeSchema)
       ELSE status' = "failed" /\ UNCHANGED db
    /\ UNCHANGED <<doc, walk, config>>

Next ==
    \/ \E k \in top.left : unifyStruct(k)
    \/ schemaDecoded
    \/ LoadTOMLConfig

Spec == Init /\ [][Next]_vars

-----------------------------------------------------------------------------
Columns == <<config.timestamp_column>> \o config.dimension_columns.elems \o config.metric_columns.elems

(* config.go: "All struct fields with a toml tag are required": what is loaded has no     *)
(* field left at its zero value, and every value is one that the document gives for it,     *)
(* in whatever order the tables were walked.                                          *)
NoSilentDefault ==
    status = "loaded" => \A f \in DOMAIN kinds \ {"schema"} :
        \E t \in {doc} \cup {doc[k].val : k \in {x \in DOMAIN doc : x.field = "schema"}} :
            \E k \in DOMAIN t : k.field = f /\ (kinds[f] # "slice" => config[f] = t[k].val)

(* A schema that is loaded satisfies what the database takes for granted: rows can be       *)
(* told apart by column name, timestamps fit, strings have unsigned ids and there is          *)
(* something to count.                                                                *)
UsableSchema ==
    status = "loaded" =>
        /\ Cardinality({Columns[i].name : i \in DOMAIN Columns}) = Len(Columns)
        /\ \A i \in DOMAIN Columns : Columns[i].typ \in TypeNames /\ (Columns[i].isString => Columns[i].typ \in unsigned)
        /\ config.timestamp_column.typ = "uint32"
        /\ config.metric_columns.elems # <<>>

(* What the database runs with.  config.toml says of segment_size "DB segments are no          *)
(* larger than this" and of retention_days "Delete data older than this": both are the        *)
(* document's unless they exceed the int that they are converted to; then a segment size       *)
(* is negative, and the retention is positive but too short.  The scans of a query are as      *)
(* many as there are CPUs: makeSchema checks query_parallelism and does not pass it on, where  *)
(* config.toml says "Run this many interval scans in parallel."                                *)
fits(n) == n < 2 ^ (IntBits - 1)
SettingsApplied ==
    status = "loaded" =>
        LET size == ParseBytes(config.segment_size)
            retention == config.retention_days * Day
        IN  /\ IF fits(size) THEN db.segmentSize = size /\ size >= MinSegment ELSE db.segmentSize < 0
            /\ IF fits(retention) THEN db.retention = retention ELSE 0 < db.retention /\ db.retention < retention
            /\ db.parallelism = NumCPU
=============================================================================
