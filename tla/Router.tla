------------------------------- MODULE Router ------------------------------
(* The router: it spreads inserted rows over the shards, sends a query to   *)
(* all of them, and merges their answers as they stream in                  *)
(* (src/router/router.go, and internal's wait.Group).                       *)
(*                                                                          *)
(* Requests share no state in the router, so one is handled at a time.  A   *)
(* row is [at, dim, metric]; JSON numbers are numbers of halves, which the  *)
(* router decodes into float64s.  A shard holds a bag of rows, as a         *)
(* sequence.                                                                *)
EXTENDS ParseQuery, ColumnTypes, FiniteSetsExt

CONSTANTS Shards,           (* the number of shards                         *)
          Crc(_, _),        (* the checksum of a timestamp and a dimension  *)
          InsertRequests,   (* sequences of rows                            *)
          QueryRequests,    (* JSON queries                                 *)
          Columns,          (* name -> timestamp, dimension, string, metric *)
          ColType,          (* name -> its type                             *)
          Mantissa,         (* 53: the bits of a float64's significand      *)
          None,
          MaxInserts        (* bound: insert requests                       *)

RouterAssumption == {Shards, Mantissa} \subseteq Nat \ {0} /\ MaxInserts \in Nat

Shard == 0..(Shards - 1)

VARIABLES stored,           (* the rows of every shard                      *)
          req,              (* the request being handled, or None           *)
          query,            (* the parsed query                             *)
          pc,               (* the goroutine of every shard                 *)
          input,            (* what is left of its shard's answer           *)
          cur,              (* the row it is merging, and what it read      *)
          err,              (* the wait group's first error                 *)
          mu, rowMu,        (* who holds the locks                          *)
          resultMap,        (* group -> row                                 *)
          values,           (* dimension values received so far             *)
          status,           (* the loop over the shards of HandleStatusz    *)
          answer,           (* the response to the last request             *)
          inserts           (* how many insert requests there were          *)

vars == <<stored, req, query, pc, input, cur, err, mu, rowMu, resultMap, values, status, answer, inserts>>

NoRequest == [kind |-> "none"]

(* LastUpdated and OldestInterval of the shards asked so far.               *)
NoStatus == [asked |-> 0, last |-> None, oldest |-> None, failed |-> FALSE]

Init ==
    /\ stored = [s \in Shard |-> <<>>]
    /\ req = NoRequest /\ query = None /\ answer = [code |-> "none"] /\ inserts = 0
    /\ values = {} /\ status = NoStatus
    /\ pc = [s \in Shard |-> "off"] /\ input = [s \in Shard |-> <<>>] /\ cur = [s \in Shard |-> None]
    /\ err = FALSE /\ mu = None /\ rowMu = <<>> /\ resultMap = <<>>

validColumnName(name) == name \in DOMAIN Columns

-----------------------------------------------------------------------------
(* Insertion.                                                               *)

Hash(row) == Crc(row.at, row.dim) % Shards

shardedRows(rows) == [s \in Shard |-> SelectSeq(rows, LAMBDA row : Hash(row) = s)]

(* HandleInsert up to wg.Wait.  A row with an unknown column is refused     *)
(* before anything is sent.                                                 *)
HandleInsert(rows) ==
    /\ req = NoRequest /\ inserts < MaxInserts
    /\ inserts' = inserts + 1
    /\ IF \A i \in DOMAIN rows : rows[i].cols \subseteq DOMAIN Columns
       THEN /\ req' = [kind |-> "insert"] /\ answer' = [code |-> "none"]
            /\ pc' = [s \in Shard |-> "send"]
            /\ input' = shardedRows(rows)
            /\ err' = FALSE
       ELSE answer' = [code |-> "refused"] /\ UNCHANGED <<req, pc, input, err>>
    /\ UNCHANGED <<stored, query, cur, mu, rowMu, resultMap, values, status>>

(* wait.Group keeps the first error and waits for the others all the same.  *)
Fail(s) == err' = TRUE /\ pc' = [pc EXCEPT ![s] = "done"]

(* A shard stores its rows and says so, or the answer is lost; or it stores *)
(* nothing.                                                                 *)
InsertOnShard(s) ==
    /\ req.kind = "insert" /\ pc[s] = "send"
    /\ \/ /\ stored' = [stored EXCEPT ![s] = @ \o input[s]]
          /\ \/ pc' = [pc EXCEPT ![s] = "done"] /\ UNCHANGED err
             \/ Fail(s)
       \/ Fail(s) /\ UNCHANGED stored
    /\ UNCHANGED <<req, query, input, cur, mu, rowMu, resultMap, answer, inserts, values, status>>

AllDone == \A s \in Shard : pc[s] = "done"

(* The handler returns, and what it had allocated is garbage.               *)
Return ==
    /\ pc' = [s \in Shard |-> "off"] /\ req' = NoRequest
    /\ input' = [s \in Shard |-> <<>>] /\ cur' = [s \in Shard |-> None]
    /\ err' = FALSE /\ rowMu' = <<>> /\ resultMap' = <<>> /\ values' = {} /\ status' = NoStatus
    /\ UNCHANGED <<stored, query, mu, inserts>>

InsertDone ==
    /\ req.kind = "insert" /\ AllDone
    /\ Return
    /\ answer' = [code |-> IF err THEN "error" ELSE "ok"]

-----------------------------------------------------------------------------
(* Queries.                                                                 *)

Grouped == query.groupings # <<>>

(* What the router refuses itself.                                          *)
Refused(q) ==
    \/ \E a \in ToSet(q.aggregates) : a.type = "average" \/ ~validColumnName(a.column)
    \/ \E c \in ToSet(q.groupings) \cup ToSet(q.filters) : ~validColumnName(c.column)

(* convertColumnToIntegral panics for a grouping on a metric: net/http      *)
(* recovers and closes the connection.                                      *)
Panics(q) == q.groupings # <<>> /\ Columns[q.groupings[1].column] = "metric"

HandleQuery(j) ==
    /\ req = NoRequest
    /\ IF ParseError(j) \/ Refused(ParseJSONQuery(j)) \/ Panics(ParseJSONQuery(j))
       THEN /\ answer' = [code |-> IF ParseError(j) \/ Refused(ParseJSONQuery(j)) THEN "refused" ELSE "closed"]
            /\ UNCHANGED <<req, query, pc, err, resultMap, rowMu>>
       ELSE /\ req' = [kind |-> "query", body |-> MarshalQuery(ParseJSONQuery(j))]
            /\ query' = ParseJSONQuery(j) /\ answer' = [code |-> "none"]
            /\ pc' = [s \in Shard |-> "post"]
            /\ err' = FALSE /\ resultMap' = <<>> /\ rowMu' = <<>>
    /\ UNCHANGED <<stored, input, cur, mu, inserts, values, status>>

(* What a shard answers: it parses the query it was sent, and sends a row   *)
(* for every group, or one row when there is no grouping.                   *)
ShardRow(s, q, group) ==
    LET rows == SelectSeq(stored[s], LAMBDA row : group = None \/ row[q.groupings[1].column] = group)
    IN  [group |-> group, rowCount |-> 2 * Len(rows),
         sums |-> [i \in DOMAIN q.aggregates |->
                      2 * FoldLeft(LAMBDA sum, row : sum + row[q.aggregates[i].column], 0, rows)]]

ShardAnswers(s, q) ==
    LET groups == {stored[s][i][q.groupings[1].column] : i \in DOMAIN stored[s]}
    IN  IF q.groupings = <<>> THEN {<<ShardRow(s, q, None)>>}
        ELSE {[i \in DOMAIN order |-> ShardRow(s, q, order[i])] : order \in SetToSeqs(groups)}

PostQuery(s) ==
    /\ req.kind = "query" /\ pc[s] = "post"
    /\ \/ /\ input' \in {[input EXCEPT ![s] = rows] : rows \in ShardAnswers(s, ParseJSONQuery(req.body))}
          /\ pc' = [pc EXCEPT ![s] = "decode"] /\ UNCHANGED err
       \/ Fail(s) /\ UNCHANGED input
    /\ UNCHANGED <<stored, req, query, cur, mu, rowMu, resultMap, answer, inserts, values, status>>

(* A string dimension is not a number; its type is that of its indices.     *)
convertColumnToIntegral(name) == Columns[name] # "string" /\ ~Float(ColType[name])

(* A float64 as JSON decodes it.                                            *)
Number(v) == [kind |-> "float64", v |-> RoundToBits(Mantissa, v)]

Decoded(row) ==
    [group |-> IF row.group = None THEN None ELSE Number(2 * row.group), rowCount |-> Number(row.rowCount),
     sums |-> [i \in DOMAIN row.sums |-> Number(row.sums[i])]]

(* int64 of a float64, which an amd64 build makes the least one out of range. *)
Int64(float) ==
    LET n == Trunc(float.v)
        limit == Modulus("int64") \div 2
    IN  IF -limit <= n /\ n < limit THEN n ELSE -limit

Key(row) ==
    IF Grouped /\ convertColumnToIntegral(query.groupings[1].column) THEN [int64 |-> Int64(row.group)]
    ELSE [value |-> row.group]

(* The next row of the stream, its end, or a broken connection.             *)
DecodeRow(s) ==
    /\ pc[s] = "decode"
    /\ \/ /\ input[s] # <<>>
          /\ cur' = [cur EXCEPT ![s] = [row |-> Decoded(Head(input[s])), read |-> None]]
          /\ input' = [input EXCEPT ![s] = Tail(@)]
          /\ pc' = [pc EXCEPT ![s] = "lock"] /\ UNCHANGED err
       \/ input[s] = <<>> /\ pc' = [pc EXCEPT ![s] = "done"] /\ UNCHANGED <<cur, input, err>>
       \/ Fail(s) /\ UNCHANGED <<cur, input>>
    /\ UNCHANGED <<stored, req, query, mu, rowMu, resultMap, answer, inserts, values, status>>

Put(f, k, v) == [x \in DOMAIN f \cup {k} |-> IF x = k THEN v ELSE f[x]]

(* mu.Lock: the first row of a group is put in the map at once.             *)
LockMap(s) ==
    LET key == Key(cur[s].row)
    IN  /\ pc[s] = "lock" /\ mu = None
        /\ IF key \notin DOMAIN resultMap
           THEN /\ resultMap' = Put(resultMap, key, cur[s].row)
                /\ rowMu' = Put(rowMu, key, None)
                /\ pc' = [pc EXCEPT ![s] = "decode"] /\ UNCHANGED mu
           ELSE /\ mu' = s
                /\ pc' = [pc EXCEPT ![s] = "lockRow"] /\ UNCHANGED <<resultMap, rowMu>>
        /\ UNCHANGED <<stored, req, query, input, cur, err, answer, inserts, values, status>>

(* The row's lock is taken before mu is released; without a grouping the    *)
(* rows are merged under mu itself.                                         *)
LockRowUnlocked(s) ==
    /\ pc[s] = "lockRow"
    /\ mu' = None
    /\ pc' = [pc EXCEPT ![s] = "read"]
    /\ UNCHANGED <<stored, req, query, input, cur, err, rowMu, resultMap, answer, inserts, values, status>>

LockRow(s) ==
    LET key == Key(cur[s].row)
    IN  /\ pc[s] = "lockRow"
        /\ IF Grouped
           THEN rowMu[key] = None /\ rowMu' = [rowMu EXCEPT ![key] = s] /\ mu' = None
           ELSE UNCHANGED <<rowMu, mu>>
        /\ pc' = [pc EXCEPT ![s] = "read"]
        /\ UNCHANGED <<stored, req, query, input, cur, err, resultMap, answer, inserts, values, status>>

(* mergeRows is not atomic: it reads row1 and then writes it.               *)
ReadRow(s) ==
    /\ pc[s] = "read"
    /\ cur' = [cur EXCEPT ![s].read = resultMap[Key(cur[s].row)]]
    /\ pc' = [pc EXCEPT ![s] = "write"]
    /\ UNCHANGED <<stored, req, query, input, err, mu, rowMu, resultMap, answer, inserts, values, status>>

(* An integer column is summed in int64 and a float column in float64.      *)
sumColumn(val1, val2, type) ==
    IF Float(type) THEN Number(val1.v + val2.v)
    ELSE [kind |-> "int64",
          v |-> sumUntyped("int64", IF val1.kind = "int64" THEN val1.v ELSE Int64(val1), Int64(val2))]

mergeRows(row1, row2) ==
    [row1 EXCEPT
        !.sums = [i \in DOMAIN @ |-> sumColumn(@[i], row2.sums[i], ColType[query.aggregates[i].column])],
        !.rowCount = sumColumn(@, row2.rowCount, "int64")]

WriteRow(s) ==
    LET key == Key(cur[s].row)
    IN  /\ pc[s] = "write"
        /\ resultMap' = [resultMap EXCEPT ![key] = mergeRows(cur[s].read, cur[s].row)]
        /\ rowMu' = [rowMu EXCEPT ![key] = None]
        /\ mu' = IF Grouped THEN mu ELSE None
        /\ pc' = [pc EXCEPT ![s] = "decode"]
        /\ UNCHANGED <<stored, req, query, input, cur, err, answer, inserts, values, status>>

(* wg.Wait returned: the error, or the flattened results.                   *)
QueryDone ==
    /\ req.kind = "query" /\ AllDone
    /\ Return
    /\ answer' = (IF err THEN [code |-> "error"]
                  ELSE [code |-> "results", rows |-> {resultMap[k] : k \in DOMAIN resultMap}])

-----------------------------------------------------------------------------
(* The values of a dimension, and the status, of all shards.                *)

HandleSingleDimension ==
    /\ req = NoRequest
    /\ req' = [kind |-> "dimension"] /\ answer' = [code |-> "none"]
    /\ pc' = [s \in Shard |-> "get"] /\ err' = FALSE /\ values' = {}
    /\ UNCHANGED <<stored, query, input, cur, mu, rowMu, resultMap, status, inserts>>

Dims(s) == {stored[s][i].dim : i \in DOMAIN stored[s]}

GetDimension(s) ==
    /\ pc[s] = "get"
    /\ \/ values' = values \cup Dims(s) /\ pc' = [pc EXCEPT ![s] = "done"] /\ UNCHANGED err
       \/ Fail(s) /\ UNCHANGED values
    /\ UNCHANGED <<stored, req, query, input, cur, mu, rowMu, resultMap, status, answer, inserts>>

DimensionDone ==
    /\ req.kind = "dimension" /\ AllDone
    /\ Return
    /\ answer' = (IF err THEN [code |-> "error"] ELSE [code |-> "values", values |-> values])

HandleStatusz ==
    /\ req = NoRequest
    /\ req' = [kind |-> "status"] /\ answer' = [code |-> "none"] /\ status' = NoStatus
    /\ UNCHANGED <<stored, query, pc, input, cur, err, mu, rowMu, resultMap, values, inserts>>

Times(s) == {stored[s][i].at : i \in DOMAIN stored[s]}

Later(old, new) == IF old = None \/ (new # None /\ new > old) THEN new ELSE old

Earlier(old, new) == IF old = None \/ (new # None /\ new < old) THEN new ELSE old

(* One shard after the other; one that does not answer is passed over.      *)
AskStatus ==
    LET times == Times(status.asked)
        last == IF times = {} THEN None ELSE Max(times)
        oldest == IF times = {} THEN None ELSE Min(times)
    IN  /\ req.kind = "status" /\ status.asked < Shards
        /\ \/ status' = [status EXCEPT !.asked = @ + 1, !.last = Later(@, last),
                                        !.oldest = Earlier(@, oldest)]
           \/ status' = [status EXCEPT !.asked = @ + 1, !.failed = TRUE]
        /\ UNCHANGED <<stored, req, query, pc, input, cur, err, mu, rowMu, resultMap, values, answer, inserts>>

StatusDone ==
    /\ req.kind = "status" /\ status.asked = Shards
    /\ Return
    /\ answer' = (IF status.failed THEN [code |-> "error"]
                  ELSE [code |-> "status", last |-> status.last, oldest |-> status.oldest])

-----------------------------------------------------------------------------
Next ==
    \/ HandleSingleDimension \/ DimensionDone
    \/ HandleStatusz \/ AskStatus \/ StatusDone
    \/ \E rows \in InsertRequests : HandleInsert(rows)
    \/ InsertDone
    \/ \E j \in QueryRequests : HandleQuery(j)
    \/ QueryDone
    \/ \E s \in Shard : \/ InsertOnShard(s) \/ PostQuery(s) \/ DecodeRow(s) \/ GetDimension(s)
                        \/ LockMap(s) \/ LockRow(s) \/ ReadRow(s) \/ WriteRow(s)

Spec == Init /\ [][Next]_vars

-----------------------------------------------------------------------------
AllRows == FlattenSeq([i \in 1..Shards |-> stored[i - 1]])

Value(number) == IF number.kind = "int64" THEN 2 * number.v ELSE number.v

Sum(rows, column) == FoldLeft(LAMBDA sum, row : sum + row[column], 0, rows)

(* The rows of a shard, or of all of them, in the group that a row of the   *)
(* answer is for: those whose value decodes to the row's.                   *)
InGroup(rows, group) ==
    SelectSeq(rows, LAMBDA row : group = None \/ Number(2 * row[query.groupings[1].column]) = group)

(* What the router is sent for a group, and the sum itself, survive decoding*)
(* and int64: all are below 2^63, and float64s.                             *)
Small(n) == n < Modulus("int64") \div 2
Decodable(group, column) ==
    /\ Small(Sum(InGroup(AllRows, group), column))
    /\ \A s \in Shard : \A r \in ToSet(InGroup(stored[s], group)) :
          LET sent == IF Grouped THEN SelectSeq(stored[s], LAMBDA x : x[query.groupings[1].column] = r[query.groupings[1].column])
                      ELSE stored[s]
          IN  Number(2 * Sum(sent, column)).v = 2 * Sum(sent, column)

(* How far the decoding of the rows of a group can move their sum: half of  *)
(* the gap between float64s below 2^64, for each row that was sent.         *)
MaxError(group) == Len(InGroup(AllRows, group)) * 2 ^ (8 * ByteBits - Mantissa)

(* A query's answer is that of a single database with the rows of all       *)
(* shards: one row for each group, with the sums and the count over every   *)
(* shard, whatever the order in which the shards' rows arrived.  That holds *)
(* for numbers that a float64 holds, up to 2^53; beyond, groups that decode *)
(* to one float64 are one group, a sum is only near, and a sum of 2^63 or   *)
(* more is lost (router.md: results are "aggregated properly no matter      *)
(* which shards return which data").                                        *)
MergedExactly ==
    answer.code = "results" =>
        LET groups == IF Grouped THEN {Number(2 * r[query.groupings[1].column]) : r \in ToSet(AllRows)} ELSE {None}
        IN  /\ {row.group : row \in answer.rows} = groups
            /\ \A row1, row2 \in answer.rows : row1.group = row2.group => row1 = row2
            /\ \A row \in answer.rows :
                  /\ Value(row.rowCount) = 2 * Len(InGroup(AllRows, row.group))
                  /\ \A i \in DOMAIN row.sums :
                        LET column == query.aggregates[i].column
                            sum == Sum(InGroup(AllRows, row.group), column)
                        IN  /\ Decodable(row.group, column) => Value(row.sums[i]) = 2 * sum
                            /\ Small(sum) => Abs(Value(row.sums[i]) - 2 * sum) <= MaxError(row.group)

(* A request is being handled.                                              *)
Busy == req # NoRequest

(* The shards are asked what the client asked: the query survives the       *)
(* router's parsing and marshalling.                                        *)
QueryForwarded == req.kind = "query" => ~ParseError(req.body) /\ ParseJSONQuery(req.body) = query

(* An insertion is reported as done only when every shard stored its rows,  *)
(* and no goroutine is left behind a response.                              *)
InsertReported ==
    req.kind = "insert" /\ req' = NoRequest /\ answer'.code = "ok" =>
        \A s \in Shard : IsSuffix(input[s], stored[s])

(* /dimension_tables and /statusz answer for all shards: every value, the   *)
(* newest row and the oldest interval of any of them.                       *)
StatusExact ==
    LET times == UNION {Times(s) : s \in Shard}
    IN  /\ answer.code = "values" => answer.values = UNION {Dims(s) : s \in Shard}
        /\ answer.code = "status" =>
              /\ answer.last = (IF times = {} THEN None ELSE Max(times))
              /\ answer.oldest = (IF times = {} THEN None ELSE Min(times))
=============================================================================
