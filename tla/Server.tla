------------------------------- MODULE Server -------------------------------
(***************************************************************************)
(* The server process (server/server.go): main and its signal goroutine,   *)
(* HandleInsert, the insertion goroutine as one flush or one batch at a    *)
(* time, and RunPeriodicFlushes with its timer and its shutdown case.      *)
(*                                                                         *)
(* The timer fires at any moment after it was set, a flush takes as long   *)
(* as it likes, and the insertion goroutine's select takes a batch or the  *)
(* flush signal when both are there.  GumshoeDB.tla has the inside of a    *)
(* flush; here it is its start and end.                                    *)
(***************************************************************************)
EXTENDS Integers, Sequences, FiniteSets
CONSTANTS
  Clients,        \* each sends one request to /insert
  Batch,          \* [Clients -> Seq([id, good])]: the rows of its request
  Malformed,      \* the clients whose body is not JSON
  MaxSignals      \* SIGINT or SIGTERM is sent at most so often
VARIABLES
  main,      \* the process: "loading", "starting", "serving", then how it ended
  sig,       \* the signal goroutine
  signals,   \* signals sent
  loop,      \* RunPeriodicFlushes
  timer,     \* "running", "fired" (timer.C has the time), or "stopped"
  flushing,  \* the insertion goroutine is in flush
  taken,     \* the rows the flush found in the memtable
  mem,       \* rows in the memtable
  disk,      \* rows in the table the metadata names
  client,    \* [Clients -> where its request is]
  promised   \* rows answered with success when the signal was received, then
             \* when the last flush started
vars == <<main, sig, signals, loop, timer, flushing, taken, mem, disk, client, promised>>
flushVars == <<loop, timer, flushing, taken, mem, disk>>

Alive == main \in {"loading", "starting", "serving"}
Ids(rows) == {rows[i].id : i \in DOMAIN rows}
AllRows == UNION {Ids(Batch[c]) : c \in Clients}

\* every row of every request has an id of its own
ASSUME ServerAssumption ==
  \A c, d \in Clients : c # d => Ids(Batch[c]) \cap Ids(Batch[d]) = {}

\* insertRows returns at the first row it cannot serialise
GoodPrefix(c) ==
  {Batch[c][i].id : i \in {j \in DOMAIN Batch[c] : \A k \in 1..j : Batch[c][k].good}}
AllGood(c) == \A i \in DOMAIN Batch[c] : Batch[c][i].good

\* the rows of the requests that were answered with success
Answered == UNION {GoodPrefix(c) : c \in {d \in Clients : client[d] = "ok"}}

Init ==
  /\ main = "loading" /\ sig = "start" /\ signals = 0
  /\ loop = "off" /\ timer = "stopped" /\ flushing = FALSE /\ taken = {}
  /\ mem = {} /\ disk = {} /\ client = [c \in Clients |-> "idle"]
  /\ promised = {}

\* The process is gone: nobody answers the requests that are still open
EndProcess(how) ==
  /\ main' = how
  /\ client' = [c \in Clients |->
       IF client[c] \in {"waiting", "inserted", "refused"} THEN "lost" ELSE client[c]]
  /\ loop' = "off" /\ flushing' = FALSE /\ taken' = {} /\ mem' = {}
  /\ timer' = "stopped"
-----------------------------------------------------------------------------
(* main and its signal goroutine *)

\* signal.Notify returns, then the goroutine reaches its receive
SigStep ==
  /\ Alive /\ sig \in {"start", "notified"}
  /\ sig' = IF sig = "start" THEN "notified" ELSE "receiving"
  /\ UNCHANGED <<main, signals, client, promised, flushVars>>

\* A signal before Notify has its default effect. After it the runtime sends
\* on the channel without blocking, and the channel has no buffer: only a
\* goroutine that is receiving gets the signal.
Signal ==
  /\ Alive /\ signals < MaxSignals /\ signals' = signals + 1
  /\ \/ /\ sig = "start" /\ EndProcess("killed") /\ UNCHANGED <<sig, disk, promised>>
     \/ /\ sig = "receiving" /\ sig' = "received" /\ promised' = Answered
        /\ UNCHANGED <<main, client, flushVars>>
     \/ /\ sig \in {"notified", "received", "closed"}
        /\ UNCHANGED <<main, sig, client, promised, flushVars>>

\* close(shutdown)
CloseShutdown ==
  /\ Alive /\ sig = "received" /\ sig' = "closed"
  /\ UNCHANGED <<main, signals, client, promised, flushVars>>

\* NewServer: loadDB, then the goroutine of RunPeriodicFlushes and its timer
NewServer ==
  /\ main = "loading" /\ main' = "starting"
  /\ loop' = "select" /\ timer' = "running"
  /\ UNCHANGED <<sig, signals, flushing, taken, mem, disk, client, promised>>

\* The address is bound, or Log.Fatal ends the process
ListenAndServe ==
  /\ main = "starting"
  /\ \/ main' = "serving" /\ UNCHANGED <<flushVars, client>>
     \/ EndProcess("fatal") /\ UNCHANGED disk
  /\ UNCHANGED <<sig, signals, promised>>
-----------------------------------------------------------------------------
(* HandleInsert and the insertion goroutine *)

HandleInsert(c) ==
  /\ main = "serving" /\ client[c] = "idle"
  /\ client' = [client EXCEPT ![c] = IF c \in Malformed THEN "refused" ELSE "waiting"]
  /\ UNCHANGED <<main, sig, signals, promised, flushVars>>

\* a batch goes into the memtable that a flush is saving
InsertDuringFlush(c) ==
  /\ Alive /\ client[c] = "waiting"
  /\ mem' = mem \cup GoodPrefix(c)
  /\ client' = [client EXCEPT ![c] = IF AllGood(c) THEN "inserted" ELSE "refused"]
  /\ UNCHANGED <<main, sig, signals, promised, loop, timer, flushing, taken, disk>>

\* HandleInserts: case insert := <-db.inserts
InsertRows(c) ==
  /\ Alive /\ client[c] = "waiting" /\ ~flushing
  /\ mem' = mem \cup GoodPrefix(c)
  /\ client' = [client EXCEPT ![c] = IF AllGood(c) THEN "inserted" ELSE "refused"]
  /\ UNCHANGED <<main, sig, signals, promised, loop, timer, flushing, taken, disk>>

\* an error of insertRows is not written
AnswerOnlySuccess(c) ==
  /\ Alive /\ client[c] = "inserted" /\ client' = [client EXCEPT ![c] = "ok"]
  /\ UNCHANGED <<main, sig, signals, promised, flushVars>>

Answer(c) ==
  /\ Alive /\ client[c] \in {"inserted", "refused"}
  /\ client' = [client EXCEPT ![c] = IF client[c] = "inserted" THEN "ok" ELSE "error"]
  /\ UNCHANGED <<main, sig, signals, promised, flushVars>>

\* HandleInserts: case errCh := <-db.flushSignals
FlushStart ==
  /\ Alive /\ loop \in {"flush", "lastFlush"} /\ ~flushing
  /\ flushing' = TRUE /\ taken' = mem
  /\ promised' = IF loop = "lastFlush" THEN Answered ELSE promised
  /\ UNCHANGED <<main, sig, signals, loop, timer, mem, disk, client>>
-----------------------------------------------------------------------------
(* RunPeriodicFlushes *)

TimerFires ==
  /\ Alive /\ timer = "running" /\ timer' = "fired"
  /\ UNCHANGED <<main, sig, signals, loop, flushing, taken, mem, disk, client, promised>>

\* case <-timer.C
TimerCase ==
  /\ Alive /\ loop = "select" /\ timer = "fired" /\ loop' = "flush" /\ timer' = "stopped"
  /\ UNCHANGED <<main, sig, signals, flushing, taken, mem, disk, client, promised>>

\* the process exits without the last flush
ShutdownNoFlush ==
  /\ Alive /\ loop = "select" /\ sig = "closed" /\ EndProcess("exit0")
  /\ UNCHANGED <<sig, signals, disk, promised>>

\* case <-shutdown
ShutdownCase ==
  /\ Alive /\ loop = "select" /\ sig = "closed" /\ loop' = "lastFlush"
  /\ UNCHANGED <<main, sig, signals, timer, flushing, taken, mem, disk, client, promised>>

\* the timer is set once, for the first flush
ResetForgotten == UNCHANGED timer

\* timer.Reset, after the flush
Reset == timer' = "running"

\* The flush ends. Server.Flush exits if it failed, and the shutdown case
\* exits after it; between the flush and os.Exit(0) nothing stops a batch.
FlushEnd ==
  /\ Alive /\ flushing
  /\ \/ /\ disk' = disk \cup taken /\ mem' = {} /\ taken' = {} /\ flushing' = FALSE
        /\ IF loop = "flush" THEN loop' = "select" /\ Reset ELSE loop' = "exit" /\ UNCHANGED timer
        /\ UNCHANGED <<main, client>>
     \/ EndProcess("exit1") /\ UNCHANGED disk
  /\ UNCHANGED <<sig, signals, promised>>

OsExit ==
  /\ Alive /\ loop = "exit" /\ EndProcess("exit0")
  /\ UNCHANGED <<sig, signals, disk, promised>>

Next ==
  \/ SigStep \/ Signal \/ CloseShutdown \/ NewServer \/ ListenAndServe
  \/ \E c \in Clients : HandleInsert(c) \/ InsertRows(c) \/ Answer(c)
  \/ FlushStart \/ FlushEnd \/ TimerFires \/ TimerCase \/ ShutdownCase \/ OsExit

Spec == Init /\ [][Next]_vars

(***************************************************************************)
(* Goroutines are scheduled, a flush ends, a timer fires; both selects     *)
(* choose at random among their ready cases, so that neither the timer nor *)
(* a stream of batches keeps out the shutdown or the flush for ever.       *)
(***************************************************************************)
Fairness ==
  /\ WF_vars(SigStep) /\ WF_vars(CloseShutdown) /\ WF_vars(NewServer) /\ WF_vars(ListenAndServe)
  /\ SF_vars(FlushStart) /\ SF_vars(ShutdownCase) /\ WF_vars(TimerCase) /\ WF_vars(OsExit)
  /\ WF_vars(FlushEnd) /\ WF_vars(TimerFires)
  /\ \A c \in Clients : SF_vars(InsertRows(c)) /\ WF_vars(Answer(c))

FairSpec == Spec /\ Fairness
-----------------------------------------------------------------------------
TypeOK ==
  /\ main \in {"loading", "starting", "serving", "killed", "fatal", "exit0", "exit1"}
  /\ sig \in {"start", "notified", "receiving", "received", "closed"} /\ signals \in 0..MaxSignals
  /\ loop \in {"off", "select", "flush", "lastFlush", "exit"}
  /\ timer \in {"running", "fired", "stopped"} /\ flushing \in BOOLEAN
  /\ mem \subseteq AllRows /\ disk \subseteq AllRows /\ taken \subseteq mem
  /\ promised \subseteq AllRows
  /\ client \in [Clients -> {"idle", "waiting", "inserted", "refused", "ok", "error", "lost"}]

(***************************************************************************)
(* While the process lives, the database holds of every request that went  *)
(* through insertRows the rows before the first bad one and no others, in  *)
(* memory or on disk, whatever flushes came in between ("It returns (and   *)
(* stops) on the first error encountered", DB.Insert).                     *)
(***************************************************************************)
InsertKept ==
  Alive => \A c \in Clients :
    Ids(Batch[c]) \cap (mem \cup disk) =
      IF client[c] \in {"idle", "waiting"} \/ c \in Malformed THEN {} ELSE GoodPrefix(c)

(***************************************************************************)
(* An orderly exit has saved every row whose insert was answered with      *)
(* success before the signal was received or before the last flush         *)
(* started, that of RunPeriodicFlushes' shutdown case, whatever flush was  *)
(* under way when the signal came.  A batch that is answered later is not  *)
(* promised: nothing stops it, and os.Exit(0) loses it.                    *)
(***************************************************************************)
ExitSavesAnswered == main = "exit0" => promised \subseteq disk

(***************************************************************************)
(* RunPeriodicFlushes goes on flushing: every row in memory reaches the    *)
(* disk unless the process ends, although the flush competes with batches  *)
(* in one select and with the shutdown in another.  The code sets no bound *)
(* on the wait.                                                            *)
(***************************************************************************)
SavedInTheEnd == \A r \in AllRows : (r \in mem) ~> (r \in disk \/ ~Alive)

(***************************************************************************)
(* A received signal ends the process, whatever flushes and requests are   *)
(* under way, and every insert request is answered or the process ends.    *)
(***************************************************************************)
AnswersAndStops ==
  /\ (sig = "received") ~> ~Alive
  /\ \A c \in Clients : (client[c] = "waiting") ~> (client[c] \in {"ok", "error", "lost"})
=============================================================================
