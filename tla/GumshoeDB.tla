----------------------------- MODULE GumshoeDB -----------------------------
(***************************************************************************)
(* The storage engine of one GumshoeDB server process: the inserter        *)
(* goroutine (insert.go, flush.go), the request goroutine and the requests *)
(* it hands snapshots to (db.go, static_table.go, request.go), the files   *)
(* of the database directory, and the server that opens the directory,     *)
(* flushes periodically, and exits when a flush fails (server.go).         *)
(*                                                                         *)
(* Time is counted in intervals (IntervalDuration is one unit), a row is   *)
(* an interval start and the value of one string dimension, and all the    *)
(* segment files of one generation of an interval are one file.  The       *)
(* content of a file maps a dimension index to the number of rows          *)
(* collapsed under it; metrics are summed exactly as counts are.           *)
(***************************************************************************)
EXTENDS Integers, FiniteSets, Sequences, Folds

CONSTANTS
  Starts,      \* interval start times
  Strings,     \* values of the string dimension
  Readers,     \* clients of MakeRequest, one outstanding request each
  MaxIndex,    \* typeMaxes of the dimension's column type
  Retention,   \* schema.Retention, in intervals (FixedRetention is set)
  Faults,      \* the I/O calls that may fail
  MaxClock, MaxGen, MaxRows, MaxMishaps  \* bounds

FaultKinds == {"write", "store", "close", "metadata"}

ASSUME ConstantsAssumption ==
  /\ Starts \subseteq Nat /\ IsFiniteSet(Starts)
  /\ MaxIndex \in Nat /\ Retention \in Nat
  /\ Faults \subseteq FaultKinds
  /\ MaxClock \in Nat /\ MaxGen \in Nat /\ MaxRows \in Nat /\ MaxMishaps \in Nat

VARIABLES
  (* the process *)
  proc,        \* "up", "down", or "fatal" (loadDB called Log.Fatal)
  ins,         \* program counter of the inserter goroutine
  failed,      \* a flush has returned an error; the server is exiting
  (* memTable, owned by the inserter goroutine *)
  mem,         \* rows per interval, by dimension index
  memDims,     \* memTable.DimensionTables: values not yet in the StaticTable
  latest,      \* latestTimestamp
  (* StaticTable, owned by the request goroutine *)
  static,
  mapped,      \* the segments mapped by the process
  wg, oldWg,   \* outstanding requests: on the StaticTable, on the one it replaced
  rd, view,    \* each client's state and the StaticTable of its Response
  (* locals of flush() *)
  staticKeys, memKeys, queued, open, writeErr, newTable, cleanup, oldDim,
  (* the database directory *)
  segs, dimFiles, meta,
  (* environment *)
  clock, mishaps,
  (* history: the rows insertRows stored; those of them a flush made durable *)
  accepted, durable

procVars   == <<proc, ins, failed>>
memVars    == <<mem, memDims, latest>>
readerVars == <<wg, oldWg, rd, view>>
flushVars  == <<staticKeys, memKeys, queued, open, writeErr, newTable, cleanup, oldDim>>
diskVars   == <<segs, dimFiles, meta>>
histVars   == <<accepted, durable>>
vars == <<procVars, memVars, static, mapped, readerVars, flushVars, diskVars,
          clock, mishaps, histVars>>
-----------------------------------------------------------------------------
(* Data *)

Idx   == 0 .. MaxIndex
Gens  == 0 .. MaxGen
NoGen == -1
ZeroTime == -1               \* time.Time{}: before every interval
Rows  == [Idx -> Nat]
NoRows == [i \in Idx |-> 0]
Names == Starts \X Gens      \* SegmentFilename: interval start and generation

Segment == [st: {"none", "torn", "whole"}, rows: Rows]
NoSegment   == [st |-> "none", rows |-> NoRows]
TornSegment == [st |-> "torn", rows |-> NoRows]
DimFile == [st: {"none", "torn", "whole"}, vals: Seq(Strings)]
NoDimFile   == [st |-> "none", vals |-> <<>>]
TornDimFile == [st |-> "torn", vals |-> <<>>]

Table == [ivs: [Starts -> Gens \cup {NoGen}], dims: Seq(Strings), dimGen: Gens]
NewStaticTable == [ivs |-> [t \in Starts |-> NoGen], dims |-> <<>>, dimGen |-> 0]
Metadata == [exists: BOOLEAN, ivs: [Starts -> Gens \cup {NoGen}], dimGen: Gens, dimSize: Nat]
NoMetadata == [exists |-> FALSE, ivs |-> NewStaticTable.ivs, dimGen |-> 0, dimSize |-> 0]

Keys(tb)  == {t \in Starts : tb.ivs[t] # NoGen}
Files(tb) == {<<t, tb.ivs[t]>> : t \in Keys(tb)}

NewMemTable == [t \in Starts |-> NoRows]
MemIntervals == {t \in Starts : mem[t] # NoRows}

intervalStartOutOfRetention(t) == clock - (t + 1) > Retention

\* DimensionTable.ValueToIndex; indexes count from 0
IndexOf(dims, s) == (CHOOSE k \in DOMAIN dims : dims[k] = s) - 1
Holds(dims, s) == \E k \in DOMAIN dims : dims[k] = s

\* The number of rows with value s in the content of an interval
Decode(rows, dims, s) ==
  IF Holds(dims, s) /\ IndexOf(dims, s) \in Idx THEN rows[IndexOf(dims, s)] ELSE 0
-----------------------------------------------------------------------------
(* A process that starts, exits or is killed: everything but the directory. *)

Fresh(tb, maps) ==
  /\ ins' = "idle" /\ failed' = FALSE
  /\ mem' = NewMemTable /\ memDims' = <<>> /\ latest' = ZeroTime
  /\ static' = tb /\ mapped' = maps
  /\ wg' = {} /\ oldWg' = {}
  /\ rd' = [r \in Readers |-> "idle"] /\ view' = [r \in Readers |-> NewStaticTable]
  /\ staticKeys' = {} /\ memKeys' = {} /\ queued' = {} /\ open' = {}
  /\ writeErr' = FALSE /\ newTable' = NewStaticTable
  /\ cleanup' = {} /\ oldDim' = NoGen

NoMaps == [f \in Names |-> NoSegment]

Init ==
  /\ proc = "down" /\ ins = "idle" /\ failed = FALSE
  /\ mem = NewMemTable /\ memDims = <<>> /\ latest = ZeroTime
  /\ static = NewStaticTable /\ mapped = NoMaps
  /\ wg = {} /\ oldWg = {}
  /\ rd = [r \in Readers |-> "idle"] /\ view = [r \in Readers |-> NewStaticTable]
  /\ staticKeys = {} /\ memKeys = {} /\ queued = {} /\ open = {}
  /\ writeErr = FALSE /\ newTable = NewStaticTable
  /\ cleanup = {} /\ oldDim = NoGen
  /\ segs = NoMaps /\ dimFiles = [g \in Gens |-> NoDimFile] /\ meta = NoMetadata
  /\ clock = 0 /\ mishaps = 0
  /\ accepted = [t \in Starts |-> [s \in Strings |-> 0]]
  /\ durable = [t \in Starts |-> [s \in Strings |-> 0]]

-----------------------------------------------------------------------------
(* server.go: loadDB.  OpenDB, and NewDB when there is no db.json. *)

\* DimensionTable.Load: a missing file is an empty table; the size is checked
DimsLoad(m) ==
  /\ dimFiles[m.dimGen].st # "torn"
  /\ Len(dimFiles[m.dimGen].vals) = m.dimSize

\* StaticTable.initialize: every dimension table loads and every segment opens
Loadable(m) == DimsLoad(m) /\ \A f \in Files(m) : segs[f].st # "none"

OpenDB ==
  /\ proc = "down" /\ meta.exists /\ Loadable(meta)
  /\ proc' = "up"
  /\ Fresh([ivs |-> meta.ivs, dims |-> dimFiles[meta.dimGen].vals, dimGen |-> meta.dimGen],
           [f \in Names |-> IF f \in Files(meta) THEN segs[f] ELSE NoSegment])
  /\ UNCHANGED <<diskVars, clock, mishaps, histVars>>

NoDatFiles == \A f \in Names : segs[f].st = "none"

NewDB ==
  /\ proc = "down" /\ ~meta.exists /\ NoDatFiles
  /\ proc' = "up" /\ Fresh(NewStaticTable, NoMaps)
  /\ UNCHANGED <<diskVars, clock, mishaps, histVars>>

LoadDBFatal ==
  /\ proc = "down"
  /\ IF meta.exists THEN ~Loadable(meta) ELSE ~NoDatFiles
  /\ proc' = "fatal"
  /\ UNCHANGED <<ins, failed, memVars, static, mapped, readerVars, flushVars, diskVars,
                 clock, mishaps, histVars>>

\* The server is started again after Log.Fatal
Relaunch ==
  /\ proc = "fatal" /\ proc' = "down"
  /\ UNCHANGED <<ins, failed, memVars, static, mapped, readerVars, flushVars, diskVars,
                 clock, mishaps, histVars>>

\* The process is gone; what no flush made durable is lost with it
Exit ==
  /\ proc' = "down" /\ Fresh(NewStaticTable, NoMaps)
  /\ accepted' = durable
  /\ UNCHANGED <<diskVars, clock, durable>>

Crash == proc = "up" /\ mishaps < MaxMishaps /\ mishaps' = mishaps + 1 /\ Exit

\* Server.Flush: os.Exit(1)
ExitOnFlushError == proc = "up" /\ failed /\ Exit /\ UNCHANGED mishaps

Tick ==
  /\ clock < MaxClock /\ clock' = clock + 1
  /\ UNCHANGED <<procVars, memVars, static, mapped, readerVars, flushVars, diskVars,
                 mishaps, histVars>>
-----------------------------------------------------------------------------
(* insert.go: insertRows, one step per row.  The rows of a batch are        *)
(* chosen as they are reached.                                              *)

InsertedRows ==
  MapThenFoldSet(+, 0, LAMBDA k : accepted[k[1]][k[2]], LAMBDA S : CHOOSE k \in S : TRUE,
                 Starts \X Strings)

HandleInsert ==
  /\ proc = "up" /\ ins = "idle" /\ ins' = "insertRows"
  /\ UNCHANGED <<proc, failed, memVars, static, mapped, readerVars, flushVars, diskVars,
                 clock, mishaps, histVars>>

\* setDimensionValue: GetAndMaybeSet on the memTable unless the StaticTable has s
DimsWith(s) ==
  IF Holds(static.dims, s) \/ Holds(memDims, s) THEN memDims ELSE Append(memDims, s)
dimValueIndexNoOffset(s) ==    \* mutant: the memTable's index is not offset
  IF Holds(static.dims, s) THEN IndexOf(static.dims, s) ELSE IndexOf(DimsWith(s), s)
dimValueIndex(s) ==
  IF Holds(static.dims, s) THEN IndexOf(static.dims, s)
  ELSE Len(static.dims) + IndexOf(DimsWith(s), s)

Later(a, b) == IF a > b THEN a ELSE b

StoreRow(t, s) ==
  /\ proc = "up" /\ ins = "insertRows" /\ InsertedRows < MaxRows
  /\ dimValueIndex(s) \in Idx
  /\ ~intervalStartOutOfRetention(t)
  /\ memDims' = DimsWith(s)
  /\ latest' = Later(latest, t)
  /\ mem' = [mem EXCEPT ![t][dimValueIndex(s)] = @ + 1]
  /\ accepted' = [accepted EXCEPT ![t][s] = @ + 1]
  /\ UNCHANGED <<procVars, static, mapped, readerVars, flushVars, diskVars, clock, mishaps,
                 durable>>

DropRow(t, s) ==
  /\ proc = "up" /\ ins = "insertRows"
  /\ dimValueIndex(s) \in Idx
  /\ intervalStartOutOfRetention(t)
  /\ memDims' = DimsWith(s)
  /\ latest' = Later(latest, t)
  /\ UNCHANGED <<procVars, mem, static, mapped, readerVars, flushVars, diskVars, clock,
                 mishaps, histVars>>

\* serializeRowMap fails, on the dimension's overflow or on a later column: the
\* value stays in the dimension table and the rest of the batch is not inserted
RejectRow(s) ==
  /\ proc = "up" /\ ins = "insertRows" /\ ins' = "idle"
  /\ memDims' = DimsWith(s)
  /\ UNCHANGED <<proc, failed, mem, latest, static, mapped, readerVars, flushVars, diskVars,
                 clock, mishaps, histVars>>

InsertDone ==
  /\ proc = "up" /\ ins = "insertRows" /\ ins' = "idle"
  /\ UNCHANGED <<proc, failed, memVars, static, mapped, readerVars, flushVars, diskVars,
                 clock, mishaps, histVars>>
-----------------------------------------------------------------------------
(* flush.go: flush *)

\* FlushStart and PartitionMem evaluate time.Since separately, so the clock may
\* move between them
FlushStart ==
  /\ proc = "up" /\ ins = "idle" /\ ~failed
  /\ static.dimGen < MaxGen /\ \A t \in Starts : static.ivs[t] < MaxGen
  /\ ins' = "partitionMem"
  /\ staticKeys' = {t \in Keys(static) : ~intervalStartOutOfRetention(t)}
  /\ UNCHANGED <<proc, failed, memVars, static, mapped, readerVars, memKeys, queued, open,
                 writeErr, newTable, cleanup, oldDim, diskVars, clock, mishaps, histVars>>

\* Intervals with nothing new are reused, the others queued for the writers; the
\* outdated and the superseded ones are to be cleaned up
PartitionMem ==
  /\ proc = "up" /\ ins = "partitionMem" /\ ins' = "combine"
  /\ memKeys' = {t \in MemIntervals : ~intervalStartOutOfRetention(t)}
  /\ queued' = memKeys'
  /\ newTable' = [NewStaticTable EXCEPT !.ivs =
       [t \in Starts |-> IF t \in staticKeys \ memKeys' THEN static.ivs[t] ELSE NoGen]]
  /\ cleanup' = {<<t, static.ivs[t]>> : t \in (Keys(static) \ staticKeys)
                                              \cup (staticKeys \cap memKeys')}
  /\ UNCHANGED <<proc, failed, memVars, static, mapped, readerVars, staticKeys, open,
                 writeErr, oldDim, diskVars, clock, mishaps, histVars>>

\* WriteCombinedInterval: the next generation; WriteMemInterval: generation 0
sameGeneration(t) ==           \* mutant: the generation is not incremented
  IF t \in staticKeys THEN static.ivs[t] ELSE 0
newGeneration(t) == IF t \in staticKeys THEN static.ivs[t] + 1 ELSE 0
newRowsUncombined(t) == mem[t]   \* mutant: the static rows are not merged in
newRows(t) ==
  IF t \in staticKeys
  THEN [i \in Idx |-> mem[t][i] + mapped[<<t, static.ivs[t]>>].rows[i]]
  ELSE mem[t]

\* openFreshSegment: O_CREATE|O_TRUNC, which also tears a mapping of the file
OpenSegment(t) ==
  LET f == <<t, newGeneration(t)>> IN
  /\ proc = "up" /\ ins = "combine" /\ t \in queued
  /\ queued' = queued \ {t} /\ open' = open \cup {t}
  /\ segs' = [segs EXCEPT ![f] = TornSegment]
  /\ mapped' = IF segs[f].st # "none" /\ mapped[f].st # "none"
               THEN [mapped EXCEPT ![f] = TornSegment] ELSE mapped
  /\ UNCHANGED <<procVars, memVars, static, readerVars, staticKeys, memKeys, writeErr, newTable,
                 cleanup, oldDim, dimFiles, meta, clock, mishaps, histVars>>

\* the rows are appended, the interval frozen and the response received
FreezeInterval(t) ==
  LET f == <<t, newGeneration(t)>>
      whole == [st |-> "whole", rows |-> newRows(t)] IN
  /\ proc = "up" /\ ins = "combine" /\ t \in open
  /\ open' = open \ {t}
  /\ segs' = [segs EXCEPT ![f] = whole]
  /\ mapped' = [mapped EXCEPT ![f] = whole]
  /\ newTable' = [newTable EXCEPT !.ivs[t] = newGeneration(t)]
  /\ UNCHANGED <<procVars, memVars, static, readerVars, staticKeys, memKeys, queued, writeErr,
                 cleanup, oldDim, dimFiles, meta, clock, mishaps, histVars>>

MayFail(kind) == kind \in Faults /\ mishaps < MaxMishaps /\ mishaps' = mishaps + 1

\* The other writers carry on: the response receiver drains them
WriteIntervalFails(t) ==
  /\ proc = "up" /\ ins = "combine" /\ t \in queued \cup open /\ MayFail("write")
  /\ queued' = queued \ {t} /\ open' = open \ {t} /\ writeErr' = TRUE
  /\ UNCHANGED <<procVars, memVars, static, mapped, readerVars, staticKeys, memKeys, newTable,
                 cleanup, oldDim, diskVars, clock, histVars>>

\* errCh <- err: the memTable stays as it is
FlushFails ==
  /\ ins' = "idle" /\ failed' = TRUE
  /\ staticKeys' = {} /\ memKeys' = {} /\ queued' = {} /\ open' = {}
  /\ writeErr' = FALSE /\ newTable' = NewStaticTable
  /\ cleanup' = {} /\ oldDim' = NoGen
  /\ UNCHANGED <<proc, memVars, static, mapped, readerVars, clock, histVars>>

CombineFails ==
  /\ proc = "up" /\ ins = "combine" /\ queued = {} /\ open = {} /\ writeErr
  /\ FlushFails /\ UNCHANGED <<diskVars, mishaps>>

CombineDone ==
  /\ proc = "up" /\ ins = "combine" /\ queued = {} /\ open = {} /\ ~writeErr
  /\ ins' = "storeDims"
  /\ UNCHANGED <<proc, failed, memVars, static, mapped, readerVars, flushVars, diskVars,
                 clock, mishaps, histVars>>

(* combineDimensionTables *)

combinedDimsSwapped == memDims \o static.dims   \* mutant: appended in the wrong order
combinedDimsStale == static.dims                \* mutant: the new values are left out
combinedDims == static.dims \o memDims

ReuseDims ==
  /\ proc = "up" /\ ins = "storeDims" /\ memDims = <<>>
  /\ ins' = "swap"
  /\ newTable' = [newTable EXCEPT !.dims = static.dims, !.dimGen = static.dimGen]
  /\ UNCHANGED <<proc, failed, memVars, static, mapped, readerVars, staticKeys, memKeys, queued,
                 open, writeErr, cleanup, oldDim, diskVars, clock, mishaps, histVars>>

newDimGeneration == static.dimGen + 1

\* Store: the next generation's file is created or truncated
OpenDimFile ==
  /\ proc = "up" /\ ins = "storeDims" /\ memDims # <<>>
  /\ ins' = "encodeDims"
  /\ newTable' = [newTable EXCEPT !.dims = combinedDims, !.dimGen = newDimGeneration]
  /\ oldDim' = static.dimGen
  /\ dimFiles' = [dimFiles EXCEPT ![newDimGeneration] = TornDimFile]
  /\ UNCHANGED <<proc, failed, memVars, static, mapped, readerVars, staticKeys, memKeys, queued,
                 open, writeErr, cleanup, segs, meta, clock, mishaps, histVars>>

EncodeDims ==
  /\ proc = "up" /\ ins = "encodeDims" /\ ins' = "swap"
  /\ dimFiles' = [dimFiles EXCEPT ![newTable.dimGen] = [st |-> "whole", vals |-> newTable.dims]]
  /\ UNCHANGED <<proc, failed, memVars, static, mapped, readerVars, flushVars, segs, meta,
                 clock, mishaps, histVars>>

\* OpenFile or Encode returns an error
StoreFails ==
  /\ proc = "up" /\ MayFail("store")
  /\ ins = "encodeDims" \/ (ins = "storeDims" /\ memDims # <<>>)
  /\ FlushFails /\ UNCHANGED diskVars

\* The deferred gz.Close, which writes what gzip has buffered, fails: Store
\* drops its error
DimCloseFails ==
  /\ proc = "up" /\ ins = "encodeDims" /\ MayFail("close")
  /\ ins' = "swap"
  /\ UNCHANGED <<proc, failed, memVars, static, mapped, readerVars, flushVars, diskVars,
                 clock, histVars>>

\* The request goroutine receives the FlushInfo and makes the swap
SwapTable ==
  /\ proc = "up" /\ ins = "swap" /\ ins' = "await"
  /\ static' = newTable
  /\ oldWg' = wg /\ wg' = {}
  /\ UNCHANGED <<proc, failed, memVars, mapped, rd, view, flushVars, diskVars, clock, mishaps,
                 histVars>>

\* st.wg.Wait() on the StaticTable that was replaced
allRequestsFinishedSkipped == TRUE                   \* mutant: no wait
allRequestsFinishedBoth == oldWg = {} /\ wg = {}     \* mutant: waits on the new one too
allRequestsFinished == oldWg = {}

RequestsFinished ==
  /\ proc = "up" /\ ins = "await" /\ allRequestsFinished /\ ins' = "metadata"
  /\ UNCHANGED <<proc, failed, memVars, static, mapped, readerVars, flushVars, diskVars,
                 clock, mishaps, histVars>>

\* tempfile and rename; Size is the table's number of values
writeMetadataFile ==
  /\ proc = "up" /\ ins = "metadata" /\ ins' = "removeDims"
  /\ meta' = [exists |-> TRUE, ivs |-> static.ivs, dimGen |-> static.dimGen,
              dimSize |-> Len(static.dims)]
  /\ durable' = accepted
  /\ UNCHANGED <<proc, failed, memVars, static, mapped, readerVars, flushVars, segs, dimFiles,
                 clock, mishaps, accepted>>

\* The StaticTable has been swapped, but the memTable is not replaced
WriteMetadataFails ==
  /\ proc = "up" /\ ins = "metadata" /\ MayFail("metadata")
  /\ FlushFails /\ UNCHANGED diskVars

RemoveOldDims ==
  /\ proc = "up" /\ ins = "removeDims" /\ ins' = "cleanup"
  /\ dimFiles' = [g \in Gens |-> IF g = oldDim THEN NoDimFile ELSE dimFiles[g]]
  /\ UNCHANGED <<proc, failed, memVars, static, mapped, readerVars, flushVars, segs, meta,
                 clock, mishaps, histVars>>

\* cleanUpOldIntervals: unmap, close and delete, one interval after the other
cleanUpOldIntervals(f) ==
  /\ proc = "up" /\ ins = "cleanup" /\ f \in cleanup
  /\ cleanup' = cleanup \ {f}
  /\ mapped' = [mapped EXCEPT ![f] = NoSegment]
  /\ segs' = [segs EXCEPT ![f] = NoSegment]
  /\ UNCHANGED <<procVars, memVars, static, readerVars, staticKeys, memKeys, queued, open,
                 writeErr, newTable, oldDim, dimFiles, meta, clock, mishaps, histVars>>

\* The memTable is replaced and flush returns nil
FlushDone ==
  /\ proc = "up" /\ ins = "cleanup" /\ cleanup = {} /\ ins' = "idle"
  /\ mem' = NewMemTable /\ memDims' = <<>>
  /\ staticKeys' = {} /\ memKeys' = {} /\ newTable' = NewStaticTable /\ oldDim' = NoGen
  /\ UNCHANGED <<proc, failed, latest, static, mapped, readerVars, queued, open, writeErr,
                 cleanup, diskVars, clock, mishaps, histVars>>
-----------------------------------------------------------------------------
(* Requests: HandleRequests, handleRequest, MakeRequest, Response.Done *)

\* The request goroutine: wg.Add(1), before the goroutine that answers starts
HandleRequest(r) ==
  /\ proc = "up" /\ rd[r] = "idle"
  /\ wg' = wg \cup {r}
  /\ rd' = [rd EXCEPT ![r] = "requested"]
  /\ view' = [view EXCEPT ![r] = static]
  /\ UNCHANGED <<procVars, memVars, static, mapped, oldWg, flushVars, diskVars, clock, mishaps,
                 histVars>>

\* req.Resp <- &Response{...}
Respond(r) ==
  /\ proc = "up" /\ rd[r] = "requested"
  /\ rd' = [rd EXCEPT ![r] = "reading"]
  /\ UNCHANGED <<procVars, memVars, static, mapped, wg, oldWg, view, flushVars, diskVars, clock,
                 mishaps, histVars>>

\* The client calls Done; the answering goroutine calls wg.Done
DoneOnNewOnly(r) ==    \* mutant: wg.Done on the current StaticTable
  /\ proc = "up" /\ rd[r] = "reading"
  /\ rd' = [rd EXCEPT ![r] = "idle"]
  /\ view' = [view EXCEPT ![r] = NewStaticTable]
  /\ wg' = wg \ {r} /\ UNCHANGED oldWg
  /\ UNCHANGED <<procVars, memVars, static, mapped, flushVars, diskVars, clock, mishaps,
                 histVars>>
Done(r) ==
  /\ proc = "up" /\ rd[r] = "reading"
  /\ rd' = [rd EXCEPT ![r] = "idle"]
  /\ view' = [view EXCEPT ![r] = NewStaticTable]
  /\ wg' = wg \ {r} /\ oldWg' = oldWg \ {r}
  /\ UNCHANGED <<procVars, memVars, static, mapped, flushVars, diskVars, clock, mishaps,
                 histVars>>
-----------------------------------------------------------------------------
LoadDB == OpenDB \/ NewDB \/ LoadDBFatal

InsertStep ==
  \/ \E t \in Starts, s \in Strings : StoreRow(t, s) \/ DropRow(t, s)
  \/ \E s \in Strings : RejectRow(s)
  \/ InsertDone

\* The steps of flush() after it has started
FlushStep ==
  \/ PartitionMem
  \/ \E t \in Starts : OpenSegment(t) \/ FreezeInterval(t) \/ WriteIntervalFails(t)
  \/ CombineFails \/ CombineDone
  \/ ReuseDims \/ OpenDimFile \/ EncodeDims \/ StoreFails \/ DimCloseFails
  \/ SwapTable \/ RequestsFinished
  \/ writeMetadataFile \/ WriteMetadataFails
  \/ RemoveOldDims
  \/ \E f \in Names : cleanUpOldIntervals(f)
  \/ FlushDone

Next ==
  \/ LoadDB \/ Relaunch \/ Crash \/ ExitOnFlushError \/ Tick
  \/ HandleInsert \/ InsertStep
  \/ FlushStart \/ FlushStep
  \/ \E r \in Readers : HandleRequest(r) \/ Respond(r) \/ Done(r)

Spec == Init /\ [][Next]_vars

(***************************************************************************)
(* The goroutines are scheduled, batches and scans end (every user of      *)
(* MakeRequest defers Done), the timer of RunPeriodicFlushes fires again   *)
(* and again, and the select of HandleInserts chooses at random, so that a *)
(* stream of inserts cannot keep out a waiting flush signal forever.       *)
(***************************************************************************)
Fairness ==
  /\ WF_vars(InsertDone) /\ SF_vars(FlushStart) /\ WF_vars(FlushStep)
  /\ WF_vars(ExitOnFlushError)
  /\ \A r \in Readers : WF_vars(Respond(r) \/ Done(r))

FairSpec == Spec /\ Fairness
-----------------------------------------------------------------------------
Phases == {"idle", "insertRows", "partitionMem", "combine", "storeDims", "encodeDims", "swap",
           "await", "metadata", "removeDims", "cleanup"}

ProcessTypeOK ==
  /\ proc \in {"up", "down", "fatal"} /\ ins \in Phases
  /\ failed \in BOOLEAN
  /\ mem \in [Starts -> Rows] /\ memDims \in Seq(Strings)
  /\ latest \in Starts \cup {ZeroTime}
  /\ static \in Table /\ mapped \in [Names -> Segment]
  /\ wg \subseteq Readers /\ oldWg \subseteq Readers
  /\ rd \in [Readers -> {"idle", "requested", "reading"}] /\ view \in [Readers -> Table]

FlushTypeOK ==
  /\ staticKeys \subseteq Starts /\ memKeys \subseteq Starts
  /\ queued \subseteq Starts /\ open \subseteq Starts /\ writeErr \in BOOLEAN
  /\ newTable \in Table /\ cleanup \subseteq Names /\ oldDim \in Gens \cup {NoGen}

DirectoryTypeOK ==
  /\ segs \in [Names -> Segment] /\ dimFiles \in [Gens -> DimFile] /\ meta \in Metadata
  /\ clock \in Nat /\ mishaps \in Nat
  /\ accepted \in [Starts -> [Strings -> Nat]]
  /\ durable \in [Starts -> [Strings -> Nat]]

(***************************************************************************)
(* Types: latestTimestamp is the start of an interval, not its end; every  *)
(* dimension index stored in a memTable fits the column type; generations  *)
(* stay within their bound.                                                *)
(***************************************************************************)
TypeOK == ProcessTypeOK /\ FlushTypeOK /\ DirectoryTypeOK

InRetention(t) == ~intervalStartOutOfRetention(t)

\* What a query on the StaticTable tb finds, what the memTable adds to the
\* StaticTable, and what the files that db.json names contain
TableRows(tb, t, s) ==
  IF tb.ivs[t] = NoGen THEN 0 ELSE Decode(mapped[<<t, tb.ivs[t]>>].rows, tb.dims, s)
MemRows(t, s) == Decode(mem[t], combinedDims, s)
DiskRows(t, s) ==
  IF meta.ivs[t] = NoGen THEN 0
  ELSE Decode(segs[<<t, meta.ivs[t]>>].rows, dimFiles[meta.dimGen].vals, s)

Swapped == ins \in {"await", "metadata", "removeDims", "cleanup"}

(***************************************************************************)
(* A client that holds a Response never meets a segment that has been      *)
(* unmapped or truncated: flush cleans up an interval only when every      *)
(* request on a StaticTable with that interval is done (flush.go, the wait *)
(* on AllRequestsFinishedChan before cleanUpOldIntervals).                 *)
(***************************************************************************)
SnapshotIntact ==
  \A r \in Readers : rd[r] # "idle" => \A f \in Files(view[r]) : mapped[f].st = "whole"

(***************************************************************************)
(* Repeated scans of one Response return the same rows, whatever is        *)
(* inserted and flushed in the meantime ("StaticTable is an immutable      *)
(* snapshot of the DB's data", static_table.go).                           *)
(***************************************************************************)
RepeatableRead ==
  [][\A r \in Readers : rd[r] # "idle" /\ rd'[r] # "idle" =>
       \A t \in Starts, s \in Strings : TableRows(view[r], t, s)' = TableRows(view[r], t, s)]_vars

(***************************************************************************)
(* Only while a flush waits for them are there requests on a StaticTable   *)
(* other than the current one: HandleRequests adds to the wait group of a  *)
(* StaticTable before it swaps that table out, never after.                *)
(***************************************************************************)
OldTableRetired ==
  \A r \in Readers : rd[r] # "idle" => view[r] = static \/ ins = "await"

(***************************************************************************)
(* Rows decode the same with the dimension tables of a later StaticTable,  *)
(* which is what GetDebugRows uses: DeserializeRow reads db.StaticTable,   *)
(* not the StaticTable of the Response whose rows it decodes.              *)
(***************************************************************************)
DecodesAlike ==
  \A r \in Readers : rd[r] # "idle" =>
    \A k \in DOMAIN view[r].dims :
      k \in DOMAIN static.dims /\ static.dims[k] = view[r].dims[k]

(***************************************************************************)
(* Every dimension index in a segment that can be read has an entry in the *)
(* current dimension table: Values[dimensionIndex] in DeserializeRow is    *)
(* never out of range.                                                     *)
(***************************************************************************)
IndexesDecode ==
  proc = "up" =>
    \A f \in Files(static) \cup UNION {Files(view[r]) : r \in Readers} :
      \A i \in Idx : mapped[f].rows[i] > 0 => i < Len(static.dims)

(***************************************************************************)
(* While the process runs and no flush has failed, the StaticTable and the *)
(* memTable together hold every row insertRows stored whose interval is    *)
(* still in retention, each exactly once, and no interval holds more: no   *)
(* flush, whatever its interleaving with requests and the clock, loses or  *)
(* repeats a row, or moves it to another dimension value.                  *)
(***************************************************************************)
NothingLost ==
  proc = "up" /\ ~failed =>
    \A t \in Starts, s \in Strings :
      LET stored == TableRows(static, t, s) + (IF Swapped THEN 0 ELSE MemRows(t, s))
      IN  /\ stored <= accepted[t][s]
          /\ InRetention(t) => stored = accepted[t][s]

(***************************************************************************)
(* Whenever there is a db.json, all the files it names are there and       *)
(* complete: a server killed at any moment of a flush can open the         *)
(* database again ("the new metadata is written at the end, atomically",   *)
(* flush.go).  This is for Store calls that report their errors.           *)
(***************************************************************************)
MetadataLoadable ==
  meta.exists => DimsLoad(meta) /\ \A f \in Files(meta) : segs[f].st = "whole"

(***************************************************************************)
(* What the files named by db.json contain is what had been inserted when  *)
(* the last successful flush wrote db.json, up to retention, at every      *)
(* moment and so after every crash: "restarting will return us to a        *)
(* consistent state (but missing any data since the previous successful    *)
(* flush)" (server.go).                                                    *)
(***************************************************************************)
DurableOnDisk ==
  \A t \in Starts, s \in Strings :
    /\ DiskRows(t, s) <= durable[t][s]
    /\ InRetention(t) => DiskRows(t, s) = durable[t][s]

(***************************************************************************)
(* Flush returns: it never waits forever, neither for the requests on the  *)
(* old StaticTable, which new requests must not be able to join, nor for   *)
(* the request goroutine.                                                  *)
(***************************************************************************)
FlushReturns == ~(ins \in {"idle", "insertRows"}) ~> ins = "idle"

(***************************************************************************)
(* A row that insertRows stored is made durable by some later flush,       *)
(* unless the process dies first.                                          *)
(***************************************************************************)
EventuallyDurable ==
  \A t \in Starts, s \in Strings : \A n \in 1 .. MaxRows :
    accepted[t][s] >= n ~> (durable[t][s] >= n \/ accepted[t][s] < n)

(***************************************************************************)
(* What server.go says of a server that exits or is killed: "restarting    *)
(* will return us to a consistent state".  loadDB never fails.             *)
(***************************************************************************)
RestartSucceeds == proc # "fatal"

-----------------------------------------------------------------------------
(* Inductive invariants, for the proofs *)

Combining == {"combine", "storeDims", "encodeDims", "swap"}

\* Mapped in full, and complete on disk
Intact(f) == mapped[f].st = "whole" /\ segs[f].st = "whole"

\* flush() has not replaced what db.json describes, and writes db.json before it deletes
MetaCurrent == proc = "up" /\ ~failed /\ ins \notin {"await", "metadata"}

PhaseInv ==
  /\ failed => ins \in {"idle", "insertRows"}
  /\ ins # "combine" => queued = {} /\ open = {}
  /\ queued \cap open = {}

\* A request is on the current table, or flush waits for it and has not yet cleaned up
ReaderInv ==
  \A r \in Readers : rd[r] # "idle" =>
    \/ r \in wg /\ view[r] = static
    \/ /\ r \in oldWg /\ ins = "await"
       /\ Files(view[r]) \subseteq Files(static) \cup cleanup

IntactInv ==
  /\ \A f \in Files(static) : Intact(f)
  /\ \A f \in Files(meta) : segs[f].st = "whole"

\* An interval is written to a name that neither table has, and what is to be
\* cleaned up is what the new table does not take over
CombineInv ==
  ins \in Combining =>
    /\ \A t \in queued \cup open :
         newTable.ivs[t] = NoGen /\ (t \in Keys(static) => t \in staticKeys)
    /\ cleanup \subseteq Files(static) /\ cleanup \cap Files(newTable) = {}
    /\ Files(static) \subseteq Files(newTable) \cup cleanup
    /\ \A f \in Files(newTable) : Intact(f)

CleanupInv ==
  /\ ins = "partitionMem" =>
       \A t \in Keys(static) \ staticKeys : intervalStartOutOfRetention(t)
  /\ ins = "await" => \A f \in cleanup : mapped[f].st = "whole"
  /\ Swapped => cleanup \cap Files(static) = {}

MetaInv ==
  /\ ~meta.exists => meta = NoMetadata
  /\ MetaCurrent => meta.ivs = static.ivs

(***************************************************************************)
(* Why no file in use is truncated or deleted: the inductive invariant     *)
(* behind SnapshotIntact.  The files of the StaticTable and of db.json are *)
(* intact at every step of flush, whatever requests, crashes and errors it *)
(* is interleaved with.                                                    *)
(***************************************************************************)
SegmentInv ==
  PhaseInv /\ ReaderInv /\ IntactInv /\ CombineInv /\ CleanupInv /\ MetaInv

\* The file of table tb's dimension table has its values, or closing it failed
DimsKept(tb) ==
  dimFiles[tb.dimGen].vals = tb.dims \/ dimFiles[tb.dimGen].st = "torn"

\* A dimension table's file is left torn only by the error that Store drops
UntornInv ==
  "close" \notin Faults =>
    /\ dimFiles[static.dimGen].st # "torn" /\ dimFiles[meta.dimGen].st # "torn"
    /\ ins = "swap" => dimFiles[newTable.dimGen].st # "torn"

(***************************************************************************)
(* Why the dimension table that db.json names is the one its segments were *)
(* written with: flush writes a generation no table has, and removes the   *)
(* old one only when db.json names the new one.  Generation 0 is never     *)
(* stored.                                                                 *)
(***************************************************************************)
DimensionInv ==
  /\ dimFiles[0] = NoDimFile
  /\ DimsKept(static)
  /\ meta.exists => DimsLoad(meta) \/ dimFiles[meta.dimGen].st = "torn"
  /\ MetaCurrent => meta.dimGen = static.dimGen
  /\ ins \in {"idle", "insertRows", "partitionMem", "combine", "storeDims"} => oldDim = NoGen
  /\ ins = "encodeDims" => /\ oldDim = static.dimGen /\ newTable.dimGen = static.dimGen + 1
                           /\ dimFiles[newTable.dimGen].st = "torn"
  /\ ins = "swap" => DimsKept(newTable) /\ oldDim # newTable.dimGen
  /\ Swapped => oldDim # static.dimGen
  /\ UntornInv

\* Every value has one place in a dimension table
Distinct(dims) == \A j, k \in DOMAIN dims : dims[j] = dims[k] => j = k

\* The rows have values of the first n places only
Below(rows, n) == \A i \in Idx : rows[i] > 0 => i < n

\* What is mapped is what is on disk
SameOnDisk(tb) == \A f \in Files(tb) : segs[f].rows = mapped[f].rows

\* The memTable adds to the StaticTable
MemCounts == ~failed /\ ~Swapped

\* The memTable's indexes follow those of the StaticTable it was filled beside, and
\* the table that is to replace it has the values of both, in that order
DistinctInv ==
  /\ Distinct(static.dims) /\ \A g \in Gens : Distinct(dimFiles[g].vals)
  /\ MemCounts => Distinct(combinedDims) /\ \A t \in Starts : Below(mem[t], Len(combinedDims))
  /\ ins \in {"encodeDims", "swap"} => newTable.dims = combinedDims

\* No segment has an index that the dimension table beside it does not have
BelowInv ==
  /\ ins \in Combining => \A f \in Files(newTable) : Below(mapped[f].rows, Len(combinedDims))
  /\ ins = "await" => \A f \in cleanup : Below(mapped[f].rows, Len(static.dims))
  /\ \A f \in Files(static) : Below(mapped[f].rows, Len(static.dims))
  /\ \A f \in Files(meta) : Below(segs[f].rows, meta.dimSize)

CopyInv == SameOnDisk(static) /\ (ins \in Combining => SameOnDisk(newTable))

(***************************************************************************)
(* Why every dimension index decodes, and to one value.                    *)
(***************************************************************************)
IndexInv == DistinctInv /\ BelowInv /\ CopyInv /\ DecodesAlike

\* A client without a request has no StaticTable
IdleViews == \A r \in Readers : rd[r] = "idle" => view[r] = NewStaticTable

\* What flush has written of the new table; what it leaves out is out of retention
WrittenInv ==
  ins \in Combining =>
    /\ memKeys \subseteq MemIntervals /\ queued \cup open \subseteq memKeys
    /\ staticKeys \subseteq Keys(static) /\ memKeys \cap Keys(static) \subseteq staticKeys
    /\ \A t \in (Keys(static) \ staticKeys) \cup (MemIntervals \ memKeys) :
         intervalStartOutOfRetention(t)
    /\ \A t \in Starts \ memKeys :
         newTable.ivs[t] = IF t \in staticKeys THEN static.ivs[t] ELSE NoGen
    /\ ~writeErr => \A t \in memKeys \ (queued \cup open) :
         /\ newTable.ivs[t] = newGeneration(t)
         /\ mapped[<<t, newGeneration(t)>>].rows = newRows(t)
    /\ writeErr => ins = "combine"

\* A process that is not running holds nothing
IdleInv ==
  proc # "up" => /\ ins = "idle" /\ ~failed /\ mem = NewMemTable /\ static = NewStaticTable
                 /\ accepted = durable /\ \A r \in Readers : rd[r] = "idle"

(***************************************************************************)
(* Why no row is lost or repeated: the inductive invariant behind          *)
(* NothingLost and DurableOnDisk.                                          *)
(***************************************************************************)
ContentInv ==
  /\ IdleInv /\ WrittenInv
  /\ NothingLost
  /\ dimFiles[meta.dimGen].st # "torn" => DurableOnDisk
=============================================================================
