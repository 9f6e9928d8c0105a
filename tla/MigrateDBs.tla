---------------------------- MODULE MigrateDBs -----------------------------
(* gumtool migrate: migrateDBs in src/gumtool/migrate.go sends the segments *)
(* of the old database to workers that insert them in the new one.          *)
EXTENDS Integers, FiniteSets

CONSTANTS Segments,         (* the number of old segments                   *)
          Worker,           (* the workers; parallelism is their number     *)
          flushSegments,
          None

MigrateAssumption ==
    /\ Segments \in Nat /\ flushSegments \in Nat \ {0} /\ None \notin 1..Segments
    /\ IsFiniteSet(Worker)

Segment == 1..Segments

VARIABLES main,             (* where migrateDBs is                          *)
          next,             (* the segment it sends next                    *)
          flushSegmentCount,
          worker,           (* worker -> where it is                        *)
          task,             (* worker -> its segment                        *)
          shutdown,         (* closed                                       *)
          workerErr,
          progress,         (* segments processed                           *)
          inserted,         (* segments whose rows are in the new database  *)
          durable           (* and flushed                                  *)

vars == <<main, next, flushSegmentCount, worker, task, shutdown, workerErr, progress, inserted, durable>>

TypeOK ==
    /\ main \in {"poll", "offer", "flush", "wait", "finalFlush", "ok", "error"}
    /\ next \in 1..(Segments + 1) /\ flushSegmentCount \in 0..(flushSegments - 1)
    /\ worker \in [Worker -> {"select", "insert", "report", "done"}]
    /\ task \in [Worker -> Segment \cup {None}]
    /\ shutdown \in BOOLEAN /\ workerErr \in BOOLEAN /\ progress \in 0..Segments
    /\ durable \subseteq inserted /\ inserted \subseteq Segment

Init ==
    /\ main = (IF Segments = 0 THEN "wait" ELSE "poll") /\ next = 1 /\ flushSegmentCount = 0
    /\ worker = [w \in Worker |-> "select"] /\ task = [w \in Worker |-> None]
    /\ shutdown = (Segments = 0) /\ workerErr = FALSE /\ progress = 0
    /\ inserted = {} /\ durable = {}

-----------------------------------------------------------------------------
(* The sender.                                                              *)

(* Leaving the loop: close(shutdown).                                       *)
BreakOuter(err) == main' = "wait" /\ shutdown' = TRUE /\ workerErr' = err

LoopEnd == IF next = Segments + 1 THEN BreakOuter(FALSE) ELSE main' = "poll" /\ UNCHANGED <<shutdown, workerErr>>


(* The first select only falls through when no worker offers an error.      *)
Poll ==
    /\ main = "poll" /\ \A w \in Worker : worker[w] # "report"
    /\ main' = "offer"
    /\ UNCHANGED <<next, flushSegmentCount, worker, task, shutdown, workerErr, progress, inserted, durable>>

ReceiveError(w) ==
    /\ main \in {"poll", "offer"} /\ worker[w] = "report"
    /\ BreakOuter(TRUE)
    /\ worker' = [worker EXCEPT ![w] = "done"]
    /\ UNCHANGED <<next, flushSegmentCount, task, progress, inserted, durable>>

(* Of the flushSegments segments sent, the last may not be inserted yet.    *)
SendSegment(w) ==
    /\ main = "offer" /\ worker[w] = "select"
    /\ worker' = [worker EXCEPT ![w] = "insert"]
    /\ task' = [task EXCEPT ![w] = next]
    /\ next' = next + 1
    /\ IF flushSegmentCount + 1 = flushSegments
       THEN flushSegmentCount' = 0 /\ main' = "flush" /\ UNCHANGED <<shutdown, workerErr>>
       ELSE flushSegmentCount' = flushSegmentCount + 1
            /\ IF next = Segments THEN BreakOuter(FALSE) ELSE main' = "poll" /\ UNCHANGED <<shutdown, workerErr>>
    /\ UNCHANGED <<progress, inserted, durable>>

FlushSegments ==
    /\ main = "flush"
    /\ \/ durable' = inserted /\ LoopEnd
       \/ BreakOuter(TRUE) /\ UNCHANGED durable
    /\ UNCHANGED <<next, flushSegmentCount, worker, task, progress, inserted>>

(* wg.Wait.                                                                 *)
WaitWorkers ==
    /\ main = "wait" /\ \A w \in Worker : worker[w] = "done"
    /\ main' = (IF workerErr THEN "error" ELSE "finalFlush")
    /\ UNCHANGED <<next, flushSegmentCount, worker, task, shutdown, workerErr, progress, inserted, durable>>

FinalFlush ==
    /\ main = "finalFlush"
    /\ \/ durable' = inserted /\ main' = "ok"
       \/ main' = "error" /\ UNCHANGED durable
    /\ UNCHANGED <<next, flushSegmentCount, worker, task, shutdown, workerErr, progress, inserted>>

-----------------------------------------------------------------------------
(* The workers.                                                             *)

MigrateSegment(w) ==
    /\ worker[w] = "insert"
    /\ \/ /\ inserted' = inserted \cup {task[w]}
          /\ progress' = progress + 1
          /\ worker' = [worker EXCEPT ![w] = "select"]
          /\ task' = [task EXCEPT ![w] = None]
       \/ /\ worker' = [worker EXCEPT ![w] = "report"]
          /\ UNCHANGED <<inserted, progress, task>>
    /\ UNCHANGED <<main, next, flushSegmentCount, shutdown, workerErr, durable>>

(* A worker that waits for a segment, or for its error to be taken, leaves  *)
(* at shutdown.                                                             *)
Shutdown(w) ==
    /\ shutdown /\ worker[w] \in {"select", "report"}
    /\ worker' = [worker EXCEPT ![w] = "done"]
    /\ UNCHANGED <<main, next, flushSegmentCount, task, shutdown, workerErr, progress, inserted, durable>>

Returned == main \in {"ok", "error"} /\ UNCHANGED vars

Next ==
    \/ Poll \/ FlushSegments \/ WaitWorkers \/ FinalFlush \/ Returned
    \/ \E w \in Worker : ReceiveError(w) \/ SendSegment(w) \/ MigrateSegment(w) \/ Shutdown(w)

Spec == Init /\ [][Next]_vars

-----------------------------------------------------------------------------
(* Every worker has left when migrateDBs returns, and nothing it inserted   *)
(* is still to be flushed when it reports success.                          *)
MigrateQuiet ==
    /\ main \in {"finalFlush", "ok"} \/ (main = "error" /\ workerErr) => \A w \in Worker : worker[w] = "done"
    /\ main = "ok" => durable = inserted

(* src/README.md: migrate is used "to modify the schema of gumshoedb        *)
(* without losing data".  When it reports success, every segment of the old *)
(* database is saved in the new one.                                        *)
NothingLeftBehind == main = "ok" => durable = Segment

(* That is too much: the segments that are missing when it reports success  *)
(* are exactly those whose worker failed when every segment had been handed *)
(* out and nobody received errors any more, at most one for each worker.    *)
MigrateAccounts == main = "ok" => Segment \ durable = {task[w] : w \in Worker} \ {None}

(* migrateDBs has returned.                                                 *)
Ended == main \in {"ok", "error"}

(* The memory table never holds more segments than are sent between two     *)
(* flushes and are in the workers' hands.                                   *)
MemoryBounded ==
    Cardinality(inserted \ durable) <= flushSegments + Cardinality(Worker)

(* migrate.go: what migrateDBs accounts for.                                *)
SegmentsAccounted == MigrateQuiet /\ MigrateAccounts /\ MemoryBounded
=============================================================================
