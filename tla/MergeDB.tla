------------------------------ MODULE MergeDB ------------------------------
(* gumtool merge: mergeDB in src/gumtool/merge.go, with a sender and its    *)
(* workers in one wait.Group.                                               *)
EXTENDS Integers, FiniteSets

CONSTANTS Segments,         (* the number of segments of the database       *)
          Worker,           (* the workers; parallelism is their number     *)
          flushSegments,
          None

MergeDBAssumption == Segments \in Nat /\ flushSegments \in Nat \ {0} /\ None \notin 1..Segments

Segment == 1..Segments

VARIABLES main,             (* mergeDB: in Wait, in the last Flush, or done *)
          sender,           (* where the sending goroutine is               *)
          next,             (* the segment it sends next                    *)
          flushSegmentCount,
          worker, task,     (* where each worker is, and its segment        *)
          closed,           (* the channel of segments is closed            *)
          quit, err,        (* of the wait.Group                            *)
          progress,
          inserted, durable

vars == <<main, sender, next, flushSegmentCount, worker, task, closed, quit, err, progress, inserted, durable>>

Init ==
    /\ main = "wait" /\ sender = (IF Segments = 0 THEN "close" ELSE "poll") /\ next = 1 /\ flushSegmentCount = 0
    /\ worker = [w \in Worker |-> "select"] /\ task = [w \in Worker |-> None]
    /\ closed = FALSE /\ quit = FALSE /\ err = FALSE /\ progress = 0
    /\ inserted = {} /\ durable = {}

(* A function given to Group.Go returns an error: it is kept when it is the *)
(* first, and quit is closed.                                               *)
GroupFail == err' = TRUE /\ quit' = TRUE

AfterSend == IF next' = Segments + 1 THEN "close" ELSE "poll"

SenderQuits ==
    /\ sender \in {"poll", "offer"} /\ quit
    /\ sender' = "done"
    /\ UNCHANGED <<main, next, flushSegmentCount, worker, task, closed, quit, err, progress, inserted, durable>>

Poll ==
    /\ sender = "poll" /\ ~quit
    /\ sender' = "offer"
    /\ UNCHANGED <<main, next, flushSegmentCount, worker, task, closed, quit, err, progress, inserted, durable>>

SendSegment(w) ==
    /\ sender = "offer" /\ worker[w] = "select"
    /\ worker' = [worker EXCEPT ![w] = "insert"]
    /\ task' = [task EXCEPT ![w] = next]
    /\ next' = next + 1
    /\ IF flushSegmentCount + 1 = flushSegments
       THEN flushSegmentCount' = 0 /\ sender' = "flush"
       ELSE flushSegmentCount' = flushSegmentCount + 1 /\ sender' = AfterSend
    /\ UNCHANGED <<main, closed, quit, err, progress, inserted, durable>>

FlushSegments ==
    /\ sender = "flush"
    /\ \/ durable' = inserted /\ sender' = (IF next = Segments + 1 THEN "close" ELSE "poll") /\ UNCHANGED <<quit, err>>
       \/ GroupFail /\ sender' = "done" /\ UNCHANGED durable
    /\ UNCHANGED <<main, next, flushSegmentCount, worker, task, closed, progress, inserted>>

CloseSegments ==
    /\ sender = "close"
    /\ closed' = TRUE /\ sender' = "done"
    /\ UNCHANGED <<main, next, flushSegmentCount, worker, task, quit, err, progress, inserted, durable>>

(* An idle worker leaves when quit or the channel is closed.                *)
WorkerLeaves(w) ==
    /\ worker[w] = "select" /\ (quit \/ closed)
    /\ worker' = [worker EXCEPT ![w] = "done"]
    /\ UNCHANGED <<main, sender, next, flushSegmentCount, task, closed, quit, err, progress, inserted, durable>>

MergeSegment(w) ==
    /\ worker[w] = "insert"
    /\ task' = [task EXCEPT ![w] = None]
    /\ \/ /\ inserted' = inserted \cup {task[w]}
          /\ progress' = progress + 1
          /\ worker' = [worker EXCEPT ![w] = "select"]
          /\ UNCHANGED <<quit, err>>
       \/ /\ GroupFail
          /\ worker' = [worker EXCEPT ![w] = "done"]
          /\ UNCHANGED <<inserted, progress>>
    /\ UNCHANGED <<main, sender, next, flushSegmentCount, closed, durable>>

WaitSender ==
    /\ main = "wait" /\ sender = "done"
    /\ main' = (IF err THEN "error" ELSE "finalFlush")
    /\ UNCHANGED <<sender, next, flushSegmentCount, worker, task, closed, quit, err, progress, inserted, durable>>

Wait ==
    /\ main = "wait" /\ sender = "done" /\ \A w \in Worker : worker[w] = "done"
    /\ main' = (IF err THEN "error" ELSE "finalFlush")
    /\ UNCHANGED <<sender, next, flushSegmentCount, worker, task, closed, quit, err, progress, inserted, durable>>

FinalFlush ==
    /\ main = "finalFlush"
    /\ \/ durable' = inserted /\ main' = "ok"
       \/ main' = "error" /\ UNCHANGED durable
    /\ UNCHANGED <<sender, next, flushSegmentCount, worker, task, closed, quit, err, progress, inserted>>

Returned == main \in {"ok", "error"} /\ UNCHANGED vars

Next ==
    \/ SenderQuits \/ Poll \/ FlushSegments \/ CloseSegments \/ Wait \/ FinalFlush \/ Returned
    \/ \E w \in Worker : SendSegment(w) \/ WorkerLeaves(w) \/ MergeSegment(w)

Spec == Init /\ [][Next]_vars

-----------------------------------------------------------------------------
(* mergeDB reports success only when every segment of the database was      *)
(* inserted and flushed: no worker's error is lost, wherever the sender is. *)
MergeComplete == main = "ok" => durable = Segment /\ progress = Segments

(* mergeDB has returned.                                                    *)
Ended == main \in {"ok", "error"}

(* What is merged is merged once, and no goroutine outlives Wait.           *)
MergeQuiet ==
    /\ \A w \in Worker : task[w] # None => task[w] \notin inserted /\ main = "wait"
    /\ \A v, w \in Worker : v # w /\ task[v] # None => task[v] # task[w]

(* merge.go: what mergeDB accounts for.                                     *)
SegmentsAccounted == MergeComplete /\ MergeQuiet
=============================================================================
