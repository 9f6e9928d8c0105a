---------------------------- MODULE ServerProofs ----------------------------
(***************************************************************************)
(* What the server saves, for any number of clients and batches, any       *)
(* number of signals, and flushes of any length at any moment.             *)
(***************************************************************************)
EXTENDS Server, TLAPS

USE DEF Alive, flushVars

(* A flush saves what it found and nothing was added meanwhile; the last    *)
(* flush begins only after the signal goroutine closed shutdown, and no     *)
(* flush before the database is loaded.                                     *)
FlushInv ==
  /\ loop \in {"off", "select", "flush", "lastFlush", "exit"}
  /\ flushing => taken = mem /\ loop \in {"flush", "lastFlush"}
  /\ loop \in {"lastFlush", "exit"} => sig = "closed"
  /\ main = "loading" => loop = "off"

(* What every request has in the database, and where a request can be.      *)
RowsInv ==
  /\ client \in [Clients -> {"idle", "waiting", "inserted", "refused", "ok", "error", "lost"}]
  /\ \A c \in Malformed \cap Clients : client[c] \notin {"waiting", "inserted", "ok"}
  /\ InsertKept

(* The promised rows reach the disk no later than the last flush ends.      *)
PromiseInv ==
  /\ Alive => promised \subseteq mem \cup disk
  /\ loop = "exit" => promised \subseteq disk
  /\ ExitSavesAnswered

IInv == FlushInv /\ RowsInv /\ PromiseInv

LEMMA PrefixOfBatch ==
  ASSUME NEW c \in Clients
  PROVE  GoodPrefix(c) \subseteq Ids(Batch[c])
BY Zenon DEF GoodPrefix, Ids

LEMMA InitIInv == Init => IInv
<1> SUFFICES ASSUME Init PROVE IInv
  BY Zenon
<1>1. FlushInv
  BY Zenon DEF Init, FlushInv
<1>2. RowsInv
  BY Zenon DEF Init, RowsInv, InsertKept
<1>3. PromiseInv
  BY Zenon DEF Init, PromiseInv, ExitSavesAnswered
<1> QED BY <1>1, <1>2, <1>3, Zenon DEF IInv

(* The end of the process keeps all but what it must have saved.            *)
LEMMA EndKeeps ==
  ASSUME IInv, Alive, NEW how \in {"killed", "fatal", "exit0", "exit1"}, EndProcess(how),
         UNCHANGED <<disk, promised>>, how = "exit0" => promised \subseteq disk
  PROVE  IInv'
<1>1. main' = how /\ ~Alive'
  BY Zenon DEF EndProcess
<1>2. FlushInv'
  BY Zenon DEF FlushInv, EndProcess
<1>3. RowsInv'
  BY <1>1, Zenon DEF IInv, RowsInv, InsertKept, EndProcess
<1>4. PromiseInv'
  BY <1>1, Zenon DEF PromiseInv, ExitSavesAnswered, EndProcess
<1> QED BY <1>2, <1>3, <1>4, Zenon DEF IInv

(* Steps of the signal goroutine, of the timer and of the loop that leave   *)
(* the rows alone.                                                          *)
LEMMA QuietKeeps ==
  ASSUME IInv, UNCHANGED <<main, flushing, taken, mem, disk, client, promised>>,
         loop' = loop \/ (Alive /\ loop = "select" /\ loop' \in {"flush", "lastFlush"}),
         loop' \in {"lastFlush", "exit"} => sig' = "closed"
  PROVE  IInv'
<1>1. FlushInv'
  BY Zenon DEF IInv, FlushInv
<1>2. RowsInv'
  BY Zenon DEF IInv, RowsInv, InsertKept
<1>3. PromiseInv'
  BY Zenon DEF IInv, PromiseInv, ExitSavesAnswered
<1> QED BY <1>1, <1>2, <1>3, Zenon DEF IInv

(* The rows that were answered with success are in the database.            *)
LEMMA AnsweredKept ==
  ASSUME IInv, Alive
  PROVE  Answered \subseteq mem \cup disk
<1>1. ASSUME NEW c \in Clients, client[c] = "ok" PROVE GoodPrefix(c) \subseteq mem \cup disk
  BY <1>1, Zenon DEF IInv, RowsInv, InsertKept
<1> QED BY <1>1, Zenon DEF Answered

(* The first promise is made before shutdown is closed.                     *)
LEMMA SignalKeeps ==
  ASSUME IInv, Signal
  PROVE  IInv'
<1>1. CASE sig = "start" /\ EndProcess("killed") /\ UNCHANGED <<sig, disk, promised>>
  BY <1>1, EndKeeps, Zenon DEF Signal
<1>2. CASE /\ sig = "receiving" /\ sig' = "received"
           /\ promised' = Answered /\ UNCHANGED <<main, client, flushVars>>
  <2>1. Alive /\ Alive'
    BY <1>2, Zenon DEF Signal
  <2>2. loop \notin {"lastFlush", "exit"}
    BY <1>2, Zenon DEF IInv, FlushInv
  <2>4. promised' \subseteq mem \cup disk
    BY <1>2, <2>1, AnsweredKept, Zenon
  <2>5. PromiseInv'
    BY <1>2, <2>1, <2>2, <2>4, Zenon DEF PromiseInv, ExitSavesAnswered
  <2>6. FlushInv'
    BY <1>2, <2>2, Zenon DEF IInv, FlushInv
  <2>7. RowsInv'
    BY <1>2, Zenon DEF IInv, RowsInv, InsertKept
  <2> QED BY <2>5, <2>6, <2>7, Zenon DEF IInv
<1>3. CASE /\ sig \in {"notified", "received", "closed"}
           /\ UNCHANGED <<main, sig, client, promised, flushVars>>
  BY <1>3, QuietKeeps, Zenon DEF IInv, FlushInv
<1> QED BY <1>1, <1>2, <1>3, Zenon DEF Signal

LEMMA StartKeeps ==
  ASSUME IInv, NewServer \/ ListenAndServe
  PROVE  IInv'
<1>1. CASE NewServer
  <2>1. Alive /\ Alive' /\ loop = "off" /\ loop' = "select" /\ ~flushing /\ main' = "starting"
    BY <1>1, Zenon DEF NewServer, IInv, FlushInv
  <2>2. UNCHANGED <<sig, flushing, taken, mem, disk, client, promised>>
    BY <1>1, Zenon DEF NewServer
  <2>3. FlushInv'
    BY <2>1, <2>2, Zenon DEF IInv, FlushInv
  <2>4. RowsInv'
    BY <2>1, <2>2, Zenon DEF IInv, RowsInv, InsertKept
  <2>5. PromiseInv'
    BY <2>1, <2>2, Zenon DEF IInv, PromiseInv, ExitSavesAnswered
  <2> QED BY <2>3, <2>4, <2>5, Zenon DEF IInv
<1>2. CASE main = "starting" /\ main' = "serving" /\ UNCHANGED <<sig, flushVars, client, promised>>
  <2>1. FlushInv'
    BY <1>2, Zenon DEF IInv, FlushInv
  <2>2. RowsInv'
    BY <1>2, Zenon DEF IInv, RowsInv, InsertKept
  <2>3. PromiseInv'
    BY <1>2, Zenon DEF IInv, PromiseInv, ExitSavesAnswered
  <2> QED BY <2>1, <2>2, <2>3, Zenon DEF IInv
<1>3. CASE main = "starting" /\ EndProcess("fatal") /\ UNCHANGED <<disk, promised>>
  BY <1>3, EndKeeps, Zenon
<1> QED BY <1>1, <1>2, <1>3, Zenon DEF ListenAndServe

(* A request moves on without touching the tables.                          *)
LEMMA RequestKeeps ==
  ASSUME IInv, NEW c \in Clients, HandleInsert(c) \/ Answer(c)
  PROVE  IInv'
<1>1. UNCHANGED <<main, sig, promised, flushVars>>
  BY Zenon DEF HandleInsert, Answer
<1>2. PICK k \in {"waiting", "refused", "ok", "error"} :
        /\ client' = [client EXCEPT ![c] = k]
        /\ \/ client[c] = "idle" /\ k = (IF c \in Malformed THEN "refused" ELSE "waiting")
           \/ client[c] = "inserted" /\ k = "ok"
           \/ client[c] = "refused" /\ k = "error"
  BY Zenon DEF HandleInsert, Answer
<1>3. \A d \in Clients : client'[d] = IF d = c THEN k ELSE client[d]
  BY <1>2, Zenon DEF IInv, RowsInv
<1>4. InsertKept'
  BY <1>1, <1>2, <1>3, Zenon DEF IInv, RowsInv, InsertKept
<1>5. RowsInv'
  BY <1>2, <1>3, <1>4, Zenon DEF IInv, RowsInv
<1>6. FlushInv'
  BY <1>1, Zenon DEF IInv, FlushInv
<1>7. PromiseInv'
  BY <1>1, Zenon DEF IInv, PromiseInv, ExitSavesAnswered
<1> QED BY <1>5, <1>6, <1>7, Zenon DEF IInv

(* A batch adds rows of its own request only, and never during a flush.     *)
LEMMA InsertRowsKeeps ==
  ASSUME IInv, NEW c \in Clients, InsertRows(c)
  PROVE  IInv'
<1>1. /\ UNCHANGED <<main, sig, promised, loop, flushing, taken, disk>>
      /\ Alive /\ ~flushing /\ client[c] = "waiting" /\ mem' = mem \cup GoodPrefix(c)
  BY Zenon DEF InsertRows
<1>2. PICK k \in {"inserted", "refused"} : client' = [client EXCEPT ![c] = k]
  BY Zenon DEF InsertRows
<1>3. /\ \A d \in Clients : client'[d] = IF d = c THEN k ELSE client[d]
      /\ c \notin Malformed
  BY <1>1, <1>2, Zenon DEF IInv, RowsInv
<1>4. ASSUME NEW d \in Clients, d # c
      PROVE  Ids(Batch[d]) \cap (mem \cup disk)' = Ids(Batch[d]) \cap (mem \cup disk)
  <2>1. Ids(Batch[d]) \cap GoodPrefix(c) = {}
    BY <1>4, PrefixOfBatch, ServerAssumption, Zenon
  <2> QED BY <1>1, <2>1, Zenon
<1>5. Ids(Batch[c]) \cap (mem \cup disk)' = GoodPrefix(c)
  <2>1. Ids(Batch[c]) \cap (mem \cup disk) = {}
    BY <1>1, Zenon DEF IInv, RowsInv, InsertKept
  <2> QED BY <1>1, <2>1, PrefixOfBatch, Zenon
<1>6. InsertKept'
  <2> SUFFICES ASSUME NEW d \in Clients
               PROVE  Ids(Batch[d]) \cap (mem \cup disk)' =
                        IF client'[d] \in {"idle", "waiting"} \/ d \in Malformed THEN {} ELSE GoodPrefix(d)
    BY Zenon DEF InsertKept
  <2>1. CASE d = c
    BY <1>2, <1>3, <1>5, <2>1, Zenon
  <2>2. CASE d # c
    BY <1>1, <1>3, <1>4, <2>2, Zenon DEF IInv, RowsInv, InsertKept
  <2> QED BY <2>1, <2>2, Zenon
<1>7. RowsInv'
  BY <1>2, <1>3, <1>6, Zenon DEF IInv, RowsInv
<1>8. FlushInv'
  BY <1>1, Zenon DEF IInv, FlushInv
<1>9. PromiseInv'
  BY <1>1, Zenon DEF IInv, PromiseInv, ExitSavesAnswered
<1> QED BY <1>7, <1>8, <1>9, Zenon DEF IInv

(* The last flush begins with every answered row in the database.           *)
LEMMA FlushStartKeeps ==
  ASSUME IInv, FlushStart
  PROVE  IInv'
<1>1. /\ Alive /\ Alive' /\ loop \in {"flush", "lastFlush"} /\ flushing' /\ taken' = mem
      /\ promised' \in {Answered, promised}
      /\ UNCHANGED <<main, sig, loop, mem, disk, client>>
  BY Zenon DEF FlushStart
<1>2. FlushInv'
  BY <1>1, Zenon DEF IInv, FlushInv
<1>3. RowsInv'
  BY <1>1, Zenon DEF IInv, RowsInv, InsertKept
<1>4. promised' \subseteq mem \cup disk
  BY <1>1, AnsweredKept, Zenon DEF IInv, PromiseInv
<1>5. PromiseInv'
  BY <1>1, <1>4, Zenon DEF PromiseInv, ExitSavesAnswered
<1> QED BY <1>2, <1>3, <1>5, Zenon DEF IInv

(* A flush moves every row of the memtable to disk, or ends the process.    *)
LEMMA FlushEndKeeps ==
  ASSUME IInv, FlushEnd
  PROVE  IInv'
<1>1. /\ Alive /\ taken = mem /\ loop \in {"flush", "lastFlush"}
      /\ UNCHANGED <<sig, promised>>
  BY Zenon DEF FlushEnd, IInv, FlushInv
<1>2. CASE EndProcess("exit1") /\ UNCHANGED disk
  BY <1>1, <1>2, EndKeeps, Zenon
<1>3. CASE /\ disk' = disk \cup taken /\ mem' = {} /\ ~flushing'
           /\ IF loop = "flush" THEN loop' = "select" ELSE loop' = "exit"
           /\ UNCHANGED <<main, client>>
  <2>1. (mem \cup disk)' = mem \cup disk
    BY <1>1, <1>3, Zenon
  <2>2. FlushInv'
    BY <1>1, <1>3, Zenon DEF IInv, FlushInv
  <2>3. RowsInv'
    BY <1>1, <1>3, <2>1, Zenon DEF IInv, RowsInv, InsertKept
  <2>4. PromiseInv'
    BY <1>1, <1>3, <2>1, Zenon DEF IInv, PromiseInv, ExitSavesAnswered
  <2> QED BY <2>2, <2>3, <2>4, Zenon DEF IInv
<1> QED BY <1>2, <1>3, Zenon DEF FlushEnd

LEMMA OsExitKeeps ==
  ASSUME IInv, OsExit
  PROVE  IInv'
BY EndKeeps, Zenon DEF OsExit, IInv, PromiseInv

LEMMA NextIInv == IInv /\ [Next]_vars => IInv'
<1> SUFFICES ASSUME IInv, [Next]_vars PROVE IInv'
  BY Zenon
<1>1. CASE SigStep \/ CloseShutdown \/ UNCHANGED vars
  BY <1>1, QuietKeeps, Zenon DEF SigStep, CloseShutdown, vars, IInv, FlushInv
<1>2. CASE TimerFires \/ TimerCase \/ ShutdownCase
  BY <1>2, QuietKeeps, Zenon DEF TimerFires, TimerCase, ShutdownCase, IInv, FlushInv
<1>3. ASSUME NEW c \in Clients, InsertRows(c) \/ Answer(c) \/ HandleInsert(c) PROVE IInv'
  BY <1>3, InsertRowsKeeps, RequestKeeps, Zenon
<1>4. CASE NewServer \/ ListenAndServe
  BY <1>4, StartKeeps, Zenon
<1>5. CASE FlushStart \/ FlushEnd \/ OsExit \/ Signal
  BY <1>5, FlushStartKeeps, FlushEndKeeps, OsExitKeeps, SignalKeeps, Zenon
<1> QED BY <1>1, <1>2, <1>3, <1>4, <1>5, Zenon DEF Next

LEMMA IInvInvariant == Spec => []IInv
BY InitIInv, NextIInv, PTL DEF Spec

(* An orderly exit has saved every row whose insert had been answered with  *)
(* success when the signal was received or when the last flush started      *)
(* (RunPeriodicFlushes flushes before os.Exit(0)), for any clients, batches *)
(* and timing.                                                              *)
THEOREM ExitSavesAnsweredInvariant == Spec => []ExitSavesAnswered
<1>1. IInv => ExitSavesAnswered
  BY Zenon DEF IInv, PromiseInv
<1> QED BY <1>1, IInvInvariant, PTL

(* While the process lives the database holds exactly the rows before the   *)
(* first bad one of every request that went through insertRows.             *)
THEOREM InsertKeptInvariant == Spec => []InsertKept
<1>1. IInv => InsertKept
  BY Zenon DEF IInv, RowsInv
<1> QED BY <1>1, IInvInvariant, PTL
=============================================================================
