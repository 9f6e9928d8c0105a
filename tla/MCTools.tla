------------------------------- MODULE MCTools -------------------------------
(* The router, gumtool, the database directory and the statsd client: each  *)
(* component by itself.  A behaviour runs one component, part, on the       *)
(* variables v1 to v14; components instantiated twice differ in how they    *)
(* start.                                                                   *)
EXTENDS Integers, Sequences

CONSTANTS Absent, None, w1, w2, s1, s2

Workers == {w1, w2}

VARIABLES part,   \* the component that this behaviour runs
          v1, v2, v3, v4, v5, v6, v7, v8, v9, v10, v11, v12, v13, v14   \* its variables

vars == <<part, v1, v2, v3, v4, v5, v6, v7, v8, v9, v10, v11, v12, v13, v14>>

----------------------------------------------------------------------------
(* The router: three shards, rows of one group on each of them.  A 64-bit   *)
(* integer has 16 bits and a float64's significand 13: one insertion has    *)
(* dimensions, and another metrics, that need more.                         *)
Shards == 3

Crc(at, dim) == at + dim

Kinds == [at |-> "timestamp", dim |-> "dimension", metric |-> "metric"]

KindTypes == [at |-> "uint32", dim |-> "uint64", metric |-> "uint64"]

Row(at, dim, metric) == [at |-> at, dim |-> dim, metric |-> metric, cols |-> {"at", "dim", "metric"}]

InsertRequests ==
    {<<Row(1, 0, 1), Row(2, 0, 2), Row(3, 0, 4), Row(1, 0, 5)>>, <<Row(1, 0, 3), Row(1, 1, 5)>>,
     <<Row(1, 0, 2 ^ 13 + 1), Row(2, 0, 2 ^ 14 + 1), Row(3, 0, 1)>>, <<Row(1, 0, 2 ^ 15), Row(2, 0, 4)>>,
     <<Row(1, 2 ^ 13, 1), Row(1, 2 ^ 13 + 1, 2), Row(2, 2 ^ 13 + 2, 4)>>,
     <<[Row(1, 0, 1) EXCEPT !.cols = {"at", "other"}]>>}

Agg(type, name) == [type |-> type, column |-> "metric", name |-> name]

Ask(aggregates, groupings) == [aggregates |-> aggregates, groupings |-> groupings, filters |-> <<>>]

QueryRequests ==
    {Ask(<<Agg("sum", Absent)>>, <<>>),
     Ask(<<Agg(Absent, "total")>>, <<[string |-> "dim"]>>),
     Ask(<<Agg("sum", "")>>, <<[transform |-> "hour", column |-> "at", name |-> Absent]>>),
     Ask(<<Agg("median", "m")>>, <<>>), Ask(<<Agg("average", "m")>>, <<>>),
     Ask(<<Agg("sum", "m")>>, <<[transform |-> "null", column |-> "metric", name |-> "m"]>>),
     [Ask(<<Agg("sum", "m")>>, <<>>) EXCEPT !.filters = <<[type |-> ">", column |-> "unknown", value |-> 1]>>]}

----------------------------------------------------------------------------
(* gumtool balance: sources and destinations that share hosts.              *)
Source(h, ts) == [host |-> h, intervals |-> ts]

Dest(h) == [host |-> h, config |-> "config"]

Sources == <<Source("a", {1, 2, 4}), Source("b", {3, 5}), Source("c", {1, 5, 6})>>

Dests == <<Dest("a"), Dest("d")>>

(* The database directory: two batches of rows with the same value.         *)
Values == [b1 |-> "u", b2 |-> "u", b3 |-> "v"]

(* The statsd client: calls of all kinds; one message is longer than a      *)
(* packet of eight bytes.                                                   *)
Message(id, len, rate, prob) == [id |-> id, len |-> len, rate |-> rate, prob |-> prob]

Messages ==
    {Message(1, 3, 100, FALSE), Message(2, 2, 50, TRUE), Message(3, 9, 100, FALSE),
     Message(4, 1, 0, FALSE), Message(5, 5, 100, TRUE)}

----------------------------------------------------------------------------

Route == INSTANCE Router WITH
    Absent <- Absent, ByteBits <- 2, Mantissa <- 13, Shards <- Shards, Crc <- Crc,
    InsertRequests <- InsertRequests, QueryRequests <- QueryRequests, Columns <- Kinds,
    ColType <- KindTypes, None <- None, MaxInserts <- 1, stored <- v1, req <- v2,
    query <- v3, pc <- v4, input <- v5, cur <- v6, err <- v7, mu <- v8, rowMu <- v9,
    resultMap <- v10, values <- v11, status <- v12, answer <- v13, inserts <- v14

Migrate == INSTANCE MigrateDBs WITH
    Segments <- 5, Worker <- Workers, flushSegments <- 2, None <- None, main <- v1,
    next <- v2, flushSegmentCount <- v3, worker <- v4, task <- v5, shutdown <- v6,
    workerErr <- v7, progress <- v8, inserted <- v9, durable <- v10

Merge == INSTANCE MergeDB WITH
    Segments <- 4, Worker <- Workers, flushSegments <- 2, None <- None, main <- v1,
    sender <- v2, next <- v3, flushSegmentCount <- v4, worker <- v5, task <- v6,
    closed <- v7, quit <- v8, err <- v9, progress <- v10, inserted <- v11, durable <- v12

Balancing == INSTANCE Balance WITH
    sources <- Sources, dests <- Dests, CommandsFail <- TRUE, phase <- v1,
    clientCache <- v2, workDirs <- v3, partials <- v4, archives <- v5, pc <- v6, index <- v7,
    partialsByDest <- v8, shards <- v9

Dir == INSTANCE DatabaseDir WITH
    Process <- {s1, s2}, Batch <- {"b1", "b2", "b3"}, Value <- Values, MaxGen <- 2, MaxCleans <- 1,
    Fresh <- FALSE, Overlap <- FALSE, Nobody <- None, meta <- v1, file <- v2, lock <- v3,
    phase <- v4, table <- v5, mem <- v6, inserted <- v7, durable <- v8, clean <- v9,
    cleans <- v10, raced <- v11

New == INSTANCE DatabaseDir WITH
    Process <- {s1, s2}, Batch <- {"b1", "b2"}, Value <- Values, MaxGen <- 2, MaxCleans <- 1, Fresh <- TRUE,
    Overlap <- FALSE, Nobody <- None, meta <- v1, file <- v2, lock <- v3, phase <- v4,
    table <- v5, mem <- v6, inserted <- v7, durable <- v8, clean <- v9, cleans <- v10,
    raced <- v11

Shared == INSTANCE DatabaseDir WITH
    Process <- {s1, s2}, Batch <- {"b1", "b2"}, Value <- Values, MaxGen <- 2, MaxCleans <- 1, Fresh <- FALSE,
    Overlap <- TRUE, Nobody <- None, meta <- v1, file <- v2, lock <- v3, phase <- v4,
    table <- v5, mem <- v6, inserted <- v7, durable <- v8, clean <- v9, cleans <- v10,
    raced <- v11

Statsd == INSTANCE StatsdClient WITH
    Calls <- Messages, SuffixLen <- 1, queueSize <- 2, maxPacketBytes <- 8, minFlush <- 2,
    MaxAge <- 4, buffered <- TRUE, todo <- v1, accepted <- v2, incoming <- v3, buf <- v4,
    packets <- v5, pc <- v6, closer <- v7, timer <- v8, fired <- v9, age <- v10

Plain == INSTANCE StatsdClient WITH
    Calls <- Messages, SuffixLen <- 1, queueSize <- 2, maxPacketBytes <- 8, minFlush <- 2,
    MaxAge <- 4, buffered <- FALSE, todo <- v1, accepted <- v2, incoming <- v3, buf <- v4,
    packets <- v5, pc <- v6, closer <- v7, timer <- v8, fired <- v9, age <- v10

Lexer == INSTANCE TomlLexer WITH MaxStack <- 3, lx <- v1, rest <- v2, parser <- v3

Init ==
    \/ part = "router" /\ Route!Init
    \/ part = "migrate" /\ Migrate!Init /\ v11 = 0 /\ v12 = 0 /\ v13 = 0 /\ v14 = 0
    \/ part = "merge" /\ Merge!Init /\ v13 = 0 /\ v14 = 0
    \/ part = "balance" /\ Balancing!Init /\ v10 = 0 /\ v11 = 0 /\ v12 = 0 /\ v13 = 0 /\ v14 = 0
    \/ part = "directory" /\ Dir!Init /\ v12 = 0 /\ v13 = 0 /\ v14 = 0
    \/ part = "fresh" /\ New!Init /\ v12 = 0 /\ v13 = 0 /\ v14 = 0
    \/ part = "overlap" /\ Shared!Init /\ v12 = 0 /\ v13 = 0 /\ v14 = 0
    \/ part = "statsd" /\ Statsd!Init /\ v11 = 0 /\ v12 = 0 /\ v13 = 0 /\ v14 = 0
    \/ part = "plain" /\ Plain!Init /\ v11 = 0 /\ v12 = 0 /\ v13 = 0 /\ v14 = 0
    \/ part = "lexer" /\ Lexer!Init /\ v4 = 0 /\ v5 = 0 /\ v6 = 0 /\ v7 = 0 /\ v8 = 0 /\ v9 = 0 /\ v10 = 0 /\ v11 = 0 /\ v12 = 0 /\ v13 = 0 /\ v14 = 0

Next ==
    \/ part = "router" /\ Route!Next /\ UNCHANGED <<part>>
    \/ part = "migrate" /\ Migrate!Next /\ UNCHANGED <<part, v11, v12, v13, v14>>
    \/ part = "merge" /\ Merge!Next /\ UNCHANGED <<part, v13, v14>>
    \/ part = "balance" /\ Balancing!Next /\ UNCHANGED <<part, v10, v11, v12, v13, v14>>
    \/ part = "directory" /\ Dir!Next /\ UNCHANGED <<part, v12, v13, v14>>
    \/ part = "fresh" /\ New!Next /\ UNCHANGED <<part, v12, v13, v14>>
    \/ part = "overlap" /\ Shared!Next /\ UNCHANGED <<part, v12, v13, v14>>
    \/ part = "statsd" /\ Statsd!Next /\ UNCHANGED <<part, v11, v12, v13, v14>>
    \/ part = "plain" /\ Plain!Next /\ UNCHANGED <<part, v11, v12, v13, v14>>
    \/ part = "lexer" /\ Lexer!Next /\ UNCHANGED <<part, v4, v5, v6, v7, v8, v9, v10, v11, v12, v13, v14>>

(* No goroutine is starved, shards answer or their connection breaks,       *)
(* insertions and flushes return, and a document ends: fairness of every    *)
(* goroutine's next step.  It is strong where a lock is taken again and     *)
(* again by others, because sync.Mutex grants it in the end, and for the    *)
(* end of the lexer's input.                                                *)
RouterFairness ==
    /\ WF_(Route!vars)(part = "router" /\ (\/ Route!InsertDone \/ Route!QueryDone \/ Route!DimensionDone
                                           \/ Route!AskStatus \/ Route!StatusDone))
    /\ \A s \in 0..(Shards - 1) :
          SF_(Route!vars)(part = "router" /\ (\/ Route!InsertOnShard(s) \/ Route!PostQuery(s)
                                              \/ Route!DecodeRow(s) \/ Route!GetDimension(s)
                                              \/ Route!LockMap(s) \/ Route!LockRow(s)
                                              \/ Route!ReadRow(s) \/ Route!WriteRow(s)))

MigrateFairness ==
    /\ WF_(Migrate!vars)(part = "migrate" /\ (\/ Migrate!Poll \/ Migrate!FlushSegments
                                              \/ Migrate!WaitWorkers \/ Migrate!FinalFlush
                                              \/ \E w \in Workers : Migrate!ReceiveError(w) \/ Migrate!SendSegment(w)))
    /\ \A w \in Workers : WF_(Migrate!vars)(part = "migrate" /\ (Migrate!MigrateSegment(w) \/ Migrate!Shutdown(w)))

MergeFairness ==
    /\ WF_(Merge!vars)(part = "merge" /\ (\/ Merge!SenderQuits \/ Merge!Poll \/ Merge!FlushSegments
                                          \/ Merge!CloseSegments \/ \E w \in Workers : Merge!SendSegment(w)))
    /\ WF_(Merge!vars)(part = "merge" /\ (Merge!Wait \/ Merge!FinalFlush))
    /\ \A w \in Workers : WF_(Merge!vars)(part = "merge" /\ (Merge!WorkerLeaves(w) \/ Merge!MergeSegment(w)))

Fairness ==
    /\ RouterFairness /\ MigrateFairness /\ MergeFairness
    /\ WF_(Statsd!vars)(part = "statsd" /\ Statsd!CloseIncoming)
    /\ WF_(Statsd!vars)(part = "statsd" /\ Statsd!Sender)
    /\ SF_(Lexer!vars)(part = "lexer" /\ Lexer!EndInput)
    /\ WF_(Lexer!vars)(part = "lexer" /\ (Lexer!nextItem \/ Lexer!TakeItem))

Spec == Init /\ [][Next]_vars /\ Fairness

----------------------------------------------------------------------------
ASSUME Assumptions ==
    /\ Route!RouterAssumption /\ Migrate!MigrateAssumption /\ Merge!MergeDBAssumption
    /\ Balancing!BalanceAssumption /\ Dir!DirAssumption /\ New!DirAssumption /\ Shared!DirAssumption
    /\ Lexer!LexerAssumption

(* router.go: the answer of the shards together is that of one database     *)
(* that was asked what the client asked, as far as float64 holds the        *)
(* numbers; /dimension_tables and /statusz answer for all shards.           *)
RouterExact ==
    part = "router" => /\ Route!MergedExactly
                       /\ Route!QueryForwarded
                       /\ Route!StatusExact

(* migrate.go and merge.go: no worker outlives the program, what it         *)
(* inserted is saved, and segments are merged once; merge reports success   *)
(* only for all of them, and migrate for all but those of workers that      *)
(* failed at the end (src/README.md: "without losing data"; that this is    *)
(* not so is MigrateDBs.NothingLeftBehind).  flushSegments bounds what is   *)
(* not yet flushed.                                                         *)
SegmentsAccounted ==
    (part = "migrate" => Migrate!SegmentsAccounted) /\ (part = "merge" => Merge!SegmentsAccounted)

(* balance.go: every row ends in exactly one destination, and connections   *)
(* are opened before the goroutines use them.                               *)
BalancedExactly == part = "balance" => Balancing!BalancedExactly /\ Balancing!CachesRead

(* db.go and flush.go: what was flushed stays in the files db.json names,   *)
(* whoever started, died and cleaned in between.                            *)
DurableKept == (part = "directory" => Dir!DurableKept) /\ (part = "fresh" => New!DurableKept)

(* db.go and clean.go: when servers and cleans start beside each other, the *)
(* flock keeps what was flushed unless a process locked the directory with  *)
(* a table that db.json had left behind, or beside a clean.                 *)
KeptUnlessRaced == part = "overlap" => Shared!KeptUnlessRaced

(* clean.go and db.go: clean leaves exactly the files db.json names, and a  *)
(* saved database can be opened again.                                      *)
CleanRepairs == part = "directory" => Dir!CleanRepairs /\ Dir!LaunchSucceeds

(* gostc.go: no message is lost, repeated or reordered, none is buffered    *)
(* for longer than minFlush, a packet exceeds maxPacketBytes only by one    *)
(* over-long message (which gostc.go:51-52 does not say), and Close sends   *)
(* what was buffered.                                                       *)
MessagesSent ==
    /\ part = "statsd" => /\ Statsd!Conserved /\ Statsd!CloseSendsAll
                          /\ Statsd!SentInTime /\ Statsd!PacketBounded
    /\ part = "plain" => Plain!CloseSendsAll

(* router.go, HandleInsert: success means that every shard has its rows.    *)
(* balance.go: no merge runs on a partial that is not complete.             *)
NothingPremature ==
    [][/\ part = "router" => Route!InsertReported
       /\ part = "balance" => Balancing!PartialsComplete]_vars

(* The goroutine that is waited for: a handler of the router, the worker    *)
(* pools of migrate and merge, the buffering goroutine of the statsd client *)
(* once Close was called, and the lexer that feeds the parser.              *)
Working ==
    \/ part = "router" /\ Route!Busy
    \/ part = "migrate" /\ ~Migrate!Ended
    \/ part = "merge" /\ ~Merge!Ended
    \/ part = "statsd" /\ Statsd!CloseCalled /\ ~Statsd!Closed
    \/ part = "lexer" /\ ~Lexer!Ended

=============================================================================
