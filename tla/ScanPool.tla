------------------------------ MODULE ScanPool ------------------------------
(* How queries are executed by the pool of query workers of a DB            *)
(* (src/gumshoe/query.go, request.go, db.go).                               *)
(*                                                                          *)
(* A query holds a snapshot (MakeRequest ... Done).  scan starts a goroutine*)
(* that offers one scanRequest per interval of the snapshot, in map order,  *)
(* on the unbuffered channel scanRequests, and closes the query's partialCh *)
(* once its wait group is at zero.  Every worker takes a request from any   *)
(* query, sends the partial result on that query's unbuffered partialCh,    *)
(* and only then calls wg.Done.  Close flushes, which replaces the snapshot *)
(* and waits for the queries on the old one, and then shuts the goroutines  *)
(* down while queries on the new snapshot may be anywhere.                  *)
EXTENDS Naturals, FiniteSets

CONSTANTS
    Queries,      \* clients, each with at most one query at a time
    Workers,      \* QueryParallelism goroutines running RunQueryWorker
    Intervals,    \* interval start times
    OldIntervals, \* keys of the StaticTable in place when Close is called
    NewIntervals  \* keys of the StaticTable that Close's flush publishes

ASSUME PoolAssumption ==
    /\ IsFiniteSet(Workers)
    /\ OldIntervals \subseteq Intervals
    /\ NewIntervals \subseteq Intervals

VARIABLES
    published,  \* which StaticTable HandleRequests hands out
    handler,    \* the HandleRequests goroutine
    closing,    \* progress of DB.Close
    client,     \* the goroutine in GetQueryResult, by query
    matching,   \* intervals that pass the query's timestamp filters
    held,       \* the StaticTable of the query's Response
    scanner,    \* the goroutine started by scan, by query
    left,       \* intervals the scanner's loop has still to visit
    sending,    \* the interval of the scanRequest being offered
    wg,         \* the query's wait group counter
    got,        \* how often the partial of each interval was received
    worker      \* what each worker is doing: [pc, query, interval]

clientVars == <<client, matching, held>>
scanVars == <<scanner, left, sending, wg>>
dbVars == <<published, handler, closing>>
vars == <<dbVars, clientVars, scanVars, got, worker>>

Tables == {"old", "new"}

TableIntervals(t) == IF t = "old" THEN OldIntervals ELSE NewIntervals

(* A worker between requests.                                               *)
Selecting == [pc |-> "select"]

Gone == [pc |-> "gone"]

Busy == [pc : {"scan", "finish"}, query : Queries, interval : Intervals]

(* Workers that took a request of q and have not yet called wg.Done.        *)
Holding(q) == {w \in Workers : worker[w].pc \in {"scan", "finish"} /\ worker[w].query = q}

NoPartials == [i \in Intervals |-> 0]

(* The intervals whose partials the query must combine.                     *)
Wanted(q) == TableIntervals(held[q]) \cap matching[q]

Init ==
    /\ published = "old" /\ handler = "running" /\ closing = "open"
    /\ client = [q \in Queries |-> "idle"]
    /\ matching = [q \in Queries |-> {}]
    /\ held = [q \in Queries |-> "none"]
    /\ scanner = [q \in Queries |-> "off"]
    /\ left = [q \in Queries |-> {}]
    /\ sending \in [Queries -> Intervals]
    /\ wg = [q \in Queries |-> 0]
    /\ got = [q \in Queries |-> NoPartials]
    /\ worker = [w \in Workers |-> Selecting]

(* MakeRequest: the client blocks sending on db.requests.                   *)
MakeRequest(q) ==
    /\ client[q] = "idle"
    /\ client' = [client EXCEPT ![q] = "requested"]
    /\ \E filters \in SUBSET Intervals : matching' = [matching EXCEPT ![q] = filters]
    /\ UNCHANGED <<dbVars, held, scanVars, got, worker>>

(* HandleRequests receives the request and answers with the current         *)
(* snapshot; its select may do so even when shutdown is closed.  InvokeQuery*)
(* then runs scan, which starts the goroutine and ranges over partialCh.    *)
HandleRequest(q) ==
    /\ handler = "running" /\ client[q] = "requested"
    /\ client' = [client EXCEPT ![q] = "collecting"]
    /\ held' = [held EXCEPT ![q] = published]
    /\ scanner' = [scanner EXCEPT ![q] = "loop"]
    /\ left' = [left EXCEPT ![q] = TableIntervals(published)]
    /\ got' = [got EXCEPT ![q] = NoPartials]
    /\ UNCHANGED <<dbVars, matching, sending, wg, worker>>

(* One turn of the loop over s.Intervals: an interval that fails a timestamp*)
(* filter is skipped; otherwise the wait group is incremented before the    *)
(* request is offered.                                                      *)
VisitInterval(q, i) ==
    /\ scanner[q] = "loop" /\ i \in left[q]
    /\ left' = [left EXCEPT ![q] = @ \ {i}]
    /\ IF i \in matching[q]
       THEN /\ wg' = [wg EXCEPT ![q] = @ + 1]
            /\ scanner' = [scanner EXCEPT ![q] = "send"]
            /\ sending' = [sending EXCEPT ![q] = i]
       ELSE UNCHANGED <<wg, scanner, sending>>
    /\ UNCHANGED <<dbVars, clientVars, got, worker>>

(* The loop is over: the scanner blocks in wg.Wait.                         *)
EndLoop(q) ==
    /\ scanner[q] = "loop" /\ left[q] = {}
    /\ scanner' = [scanner EXCEPT ![q] = "wait"]
    /\ UNCHANGED <<dbVars, clientVars, left, sending, wg, got, worker>>

(* A pool that called wg.Done before sending the partial: the collector     *)
(* would be told that everything had arrived when it had not.               *)
TakeRequestDoneEarly(q, w) ==
    /\ scanner[q] = "send" /\ worker[w] = Selecting
    /\ worker' = [worker EXCEPT ![w] = [pc |-> "scan", query |-> q, interval |-> sending[q]]]
    /\ scanner' = [scanner EXCEPT ![q] = "loop"]
    /\ wg' = [wg EXCEPT ![q] = @ - 1]
    /\ UNCHANGED <<dbVars, clientVars, left, sending, got>>

(* The rendezvous on db.scanRequests.                                       *)
TakeRequest(q, w) ==
    /\ scanner[q] = "send" /\ worker[w] = Selecting
    /\ worker' = [worker EXCEPT ![w] = [pc |-> "scan", query |-> q, interval |-> sending[q]]]
    /\ scanner' = [scanner EXCEPT ![q] = "loop"]
    /\ UNCHANGED <<dbVars, clientVars, left, sending, wg, got>>

(* The rendezvous on partialCh; the collector appends the partial.          *)
SendPartial(w) ==
    LET q == worker[w].query IN
    /\ worker[w].pc = "scan" /\ client[q] = "collecting"
    /\ got' = [got EXCEPT ![q][worker[w].interval] = @ + 1]
    /\ worker' = [worker EXCEPT ![w].pc = "finish"]
    /\ UNCHANGED <<dbVars, clientVars, scanVars>>

(* r.wg.Done()                                                              *)
FinishRequest(w) ==
    /\ worker[w].pc = "finish"
    /\ wg' = [wg EXCEPT ![worker[w].query] = @ - 1]
    /\ worker' = [worker EXCEPT ![w] = Selecting]
    /\ UNCHANGED <<dbVars, clientVars, scanner, left, sending, got>>

(* A scan that closes partialCh without waiting for the wait group.         *)
ClosePartialsAtOnce(q) ==
    /\ scanner[q] = "wait"
    /\ scanner' = [scanner EXCEPT ![q] = "off"]
    /\ client' = [client EXCEPT ![q] = "combined"]
    /\ UNCHANGED <<dbVars, matching, held, left, sending, wg, got, worker>>

(* wg.Wait returns and partialCh is closed, which ends the collector's      *)
(* range; combineFunc runs on what was received.                            *)
ClosePartials(q) ==
    /\ scanner[q] = "wait" /\ wg[q] = 0
    /\ scanner' = [scanner EXCEPT ![q] = "off"]
    /\ client' = [client EXCEPT ![q] = "combined"]
    /\ UNCHANGED <<dbVars, matching, held, left, sending, wg, got, worker>>

(* The deferred resp.Done() releases the snapshot; the result is returned.  *)
Done(q) ==
    /\ client[q] = "combined"
    /\ client' = [client EXCEPT ![q] = "idle"]
    /\ held' = [held EXCEPT ![q] = "none"]
    /\ UNCHANGED <<dbVars, matching, scanVars, got, worker>>

(* Close calls Flush: HandleRequests swaps the snapshot.                    *)
CloseFlush ==
    /\ closing = "open" /\ handler = "running"
    /\ closing' = "flushing" /\ published' = "new"
    /\ UNCHANGED <<handler, clientVars, scanVars, got, worker>>

(* A flush that waits on a wait group shared with the new snapshot.         *)
CloseShutdownShared ==
    /\ closing = "flushing" /\ \A q \in Queries : held[q] = "none"
    /\ closing' = "shutdown"
    /\ UNCHANGED <<published, handler, clientVars, scanVars, got, worker>>

(* The flush returns once no request holds the old snapshot, and Close      *)
(* closes db.shutdown.                                                      *)
CloseShutdown ==
    /\ closing = "flushing" /\ \A q \in Queries : held[q] # "old"
    /\ closing' = "shutdown"
    /\ UNCHANGED <<published, handler, clientVars, scanVars, got, worker>>

HandlerExit ==
    /\ closing = "shutdown" /\ handler = "running"
    /\ handler' = "gone"
    /\ UNCHANGED <<published, closing, clientVars, scanVars, got, worker>>

(* A worker that also gave up while it held a request.                      *)
WorkerExitAnywhere(w) ==
    /\ closing = "shutdown" /\ worker[w].pc \in {"select", "scan", "finish"}
    /\ worker' = [worker EXCEPT ![w] = Gone]
    /\ wg' = IF worker[w].pc = "select" THEN wg
             ELSE [wg EXCEPT ![worker[w].query] = @ - 1]
    /\ UNCHANGED <<dbVars, clientVars, scanner, left, sending, got>>

(* The select of RunQueryWorker sees the closed shutdown channel, which it  *)
(* looks at only between requests.                                          *)
WorkerExit(w) ==
    /\ closing = "shutdown" /\ worker[w] = Selecting
    /\ worker' = [worker EXCEPT ![w] = Gone]
    /\ UNCHANGED <<dbVars, clientVars, scanVars, got>>

ScannerStep(q) == EndLoop(q) \/ ClosePartials(q) \/ \E i \in Intervals : VisitInterval(q, i)

WorkerStep(w) == SendPartial(w) \/ FinishRequest(w)

Next ==
    \/ CloseFlush \/ CloseShutdown \/ HandlerExit
    \/ \E q \in Queries : MakeRequest(q) \/ HandleRequest(q) \/ ScannerStep(q) \/ Done(q)
    \/ \E w \in Workers : WorkerStep(w) \/ WorkerExit(w)
    \/ \E q \in Queries, w \in Workers : TakeRequest(q, w)

Spec == Init /\ [][Next]_vars

(* Goroutines that can run keep running.  The senders blocked on an         *)
(* unbuffered channel form a FIFO queue in the Go runtime, so an offered    *)
(* request is taken if workers keep coming back to their select: strong     *)
(* fairness on the rendezvous.  Nothing makes a client start a query or     *)
(* anyone call Close.                                                       *)
FairSpec ==
    /\ Spec
    /\ WF_vars(CloseShutdown) /\ WF_vars(HandlerExit)
    /\ \A q \in Queries : /\ WF_vars(HandleRequest(q))
                          /\ WF_vars(ScannerStep(q))
                          /\ WF_vars(Done(q))
                          /\ SF_vars(\E w \in Workers : TakeRequest(q, w))
    /\ \A w \in Workers : WF_vars(WorkerStep(w)) /\ WF_vars(WorkerExit(w))

----------------------------------------------------------------------------

TypeOK ==
    /\ published \in Tables /\ handler \in {"running", "gone"}
    /\ closing \in {"open", "flushing", "shutdown"}
    /\ client \in [Queries -> {"idle", "requested", "collecting", "combined"}]
    /\ matching \in [Queries -> SUBSET Intervals]
    /\ held \in [Queries -> Tables \cup {"none"}]
    /\ scanner \in [Queries -> {"off", "loop", "send", "wait"}]
    /\ left \in [Queries -> SUBSET Intervals]
    /\ sending \in [Queries -> Intervals]
    /\ wg \in [Queries -> Nat]
    /\ got \in [Queries -> [Intervals -> Nat]]
    /\ worker \in [Workers -> Busy \cup {Selecting, Gone}]

(* A result is combined from the partial of every interval of its snapshot  *)
(* that passes the timestamp filters, each exactly once, whatever the order *)
(* of the workers and even when Close shuts them down in the middle.        *)
WholeResult ==
    \A q \in Queries : client[q] = "combined" =>
        got[q] = [i \in Intervals |-> IF i \in Wanted(q) THEN 1 ELSE 0]

(* partialCh is closed only when no worker can still send on it: a send on a*)
(* closed channel would panic in RunQueryWorker and end the process.        *)
NoSendAfterClose ==
    \A q \in Queries : scanner[q] = "off" => Holding(q) = {}

(* The wait group counts exactly the requests offered or held (query.go:239 *)
(* and 205), so that wg.Wait neither returns early nor blocks for ever.     *)
WaitGroupExact ==
    \A q \in Queries :
        wg[q] = Cardinality(Holding(q)) + (IF scanner[q] = "send" THEN 1 ELSE 0)

(* Where the partial of interval i of query q is.                           *)
At(q, i, pc) == {w \in Workers : worker[w] = [pc |-> pc, query |-> q, interval |-> i]}

(* The inductive invariant behind the two: every wanted interval of a       *)
(* running query is in exactly one place: still to be visited, offered, with*)
(* one worker, or received.                                                 *)
PoolInv ==
    \A q \in Queries :
        /\ scanner[q] = "off" <=> client[q] # "collecting"
        /\ scanner[q] = "wait" => left[q] = {}
        /\ scanner[q] = "send" => sending[q] \in matching[q] \ left[q]
        /\ held[q] = "none" <=> client[q] \in {"idle", "requested"}
        /\ client[q] = "collecting" => left[q] \subseteq TableIntervals(held[q])
        /\ client[q] = "collecting" =>
            \A i \in Intervals :
                LET offered == IF scanner[q] = "send" /\ sending[q] = i THEN 1 ELSE 0
                    visited == i \in Wanted(q) /\ i \notin left[q]
                IN  got[q][i] + offered + Cardinality(At(q, i, "scan"))
                        = IF visited THEN 1 ELSE 0

(* While the pool runs every query returns, although other queries keep     *)
(* competing for the workers.  Close gets past its flush although new       *)
(* queries keep arriving, and after shutdown no worker is left behind       *)
(* blocked on a partialCh.                                                  *)
PoolReturns ==
    /\ \A q \in Queries : client[q] = "requested" ~> (client[q] = "idle" \/ closing = "shutdown")
    /\ closing = "flushing" ~> \A w \in Workers : worker[w] = Gone
=============================================================================
