----------------------------- MODULE ToolProofs -----------------------------
(***************************************************************************)
(* gumtool's commands, for any number of segments and workers, and for any *)
(* sources and destinations.                                               *)
(***************************************************************************)
EXTENDS MigrateDBs, Sequences, FiniteSetTheorems, TLAPS

-----------------------------------------------------------------------------
(* gumtool merge (MergeDB.tla).                                             *)

VARIABLES sender, closed, quit, err

Merge == INSTANCE MergeDB

(* The goroutines: what one that has left tells of the others.              *)
MergeControl ==
  /\ main \in {"wait", "finalFlush", "ok", "error"} /\ next \in 1..(Segments + 1)
  /\ sender \in {"poll", "offer", "flush", "close", "done"}
  /\ worker \in [Worker -> {"select", "insert", "done"}]
  /\ quit <=> err
  /\ sender \in {"poll", "offer"} => next <= Segments
  /\ sender = "close" \/ closed => next = Segments + 1
  /\ sender = "done" => err \/ closed
  /\ main # "wait" => sender = "done" /\ \A w \in Worker : worker[w] = "done"
  /\ main \in {"finalFlush", "ok"} => ~err

(* Every segment sent is inserted, in the hands of one worker, or lost with *)
(* an error.                                                                *)
MergeSegments ==
  /\ task \in [Worker -> Merge!Segment \cup {None}]
  /\ \A w \in Worker : IF worker[w] = "insert" THEN task[w] \in 1..(next - 1) \ inserted ELSE task[w] = None
  /\ \A v, w \in Worker : v # w /\ task[v] # None => task[v] # task[w]
  /\ inserted \subseteq 1..(next - 1)
  /\ ~err => \A s \in 1..(next - 1) : s \in inserted \/ \E w \in Worker : task[w] = s

MergeSaved ==
  /\ IsFiniteSet(inserted) /\ progress = Cardinality(inserted)
  /\ main = "ok" => durable = inserted

MergeInv == MergeControl /\ MergeSegments /\ MergeSaved

LEMMA MergeInitInv ==
  ASSUME Merge!MergeDBAssumption, Merge!Init
  PROVE  MergeInv
<1>1. MergeControl
  BY DEF Merge!MergeDBAssumption, Merge!Init, MergeControl
<1>2. MergeSegments
  BY DEF Merge!MergeDBAssumption, Merge!Init, MergeSegments
<1>3. MergeSaved
  BY FS_EmptySet, Zenon DEF Merge!Init, MergeSaved
<1> QED BY <1>1, <1>2, <1>3, Zenon DEF MergeInv

LEMMA MergeControlKept ==
  ASSUME Merge!MergeDBAssumption, MergeControl, [Merge!Next]_(Merge!vars)
  PROVE  MergeControl'
<1>1. CASE Merge!SenderQuits
  BY <1>1, Zenon DEF Merge!SenderQuits, MergeControl
<1>2. CASE Merge!Poll
  BY <1>2, Zenon DEF Merge!Poll, MergeControl
<1>3. CASE Merge!FlushSegments
  BY <1>3 DEF Merge!MergeDBAssumption, Merge!FlushSegments, Merge!GroupFail, MergeControl
<1>4. CASE Merge!CloseSegments
  BY <1>4, Zenon DEF Merge!CloseSegments, MergeControl
<1>5. CASE Merge!Wait
  BY <1>5, Zenon DEF Merge!Wait, MergeControl
<1>6. CASE Merge!FinalFlush
  BY <1>6, Zenon DEF Merge!FinalFlush, MergeControl
<1>7. CASE Merge!Returned \/ UNCHANGED Merge!vars
  BY <1>7 DEF Merge!Returned, Merge!vars, MergeControl
<1>8. ASSUME NEW w \in Worker, Merge!SendSegment(w)
      PROVE  MergeControl'
  BY <1>8 DEF Merge!MergeDBAssumption, Merge!SendSegment, Merge!AfterSend, MergeControl
<1>9. ASSUME NEW w \in Worker, Merge!WorkerLeaves(w)
      PROVE  MergeControl'
  BY <1>9, Zenon DEF Merge!WorkerLeaves, MergeControl
<1>10. ASSUME NEW w \in Worker, Merge!MergeSegment(w)
       PROVE  MergeControl'
  BY <1>10 DEF Merge!MergeSegment, Merge!GroupFail, MergeControl
<1> QED BY <1>1, <1>2, <1>3, <1>4, <1>5, <1>6, <1>7, <1>8, <1>9, <1>10, Zenon DEF Merge!Next

LEMMA MergeSegmentsKept ==
  ASSUME Merge!MergeDBAssumption, MergeControl, MergeSegments, [Merge!Next]_(Merge!vars)
  PROVE  MergeSegments'
<1>1. CASE next' = next /\ worker' = worker /\ task' = task /\ inserted' = inserted /\ (err' = err \/ err' = TRUE)
  BY <1>1, Zenon DEF MergeSegments
<1>2. ASSUME NEW w \in Worker, Merge!SendSegment(w)
      PROVE  MergeSegments'
  <2>1. /\ worker' = [worker EXCEPT ![w] = "insert"] /\ task' = [task EXCEPT ![w] = next]
        /\ next' = next + 1 /\ UNCHANGED <<err, inserted>> /\ task[w] = None
        /\ next \in Merge!Segment
    BY <1>2 DEF Merge!SendSegment, Merge!MergeDBAssumption, MergeControl, MergeSegments, Merge!Segment
  <2>2. task' \in [Worker -> Merge!Segment \cup {None}]
    BY <2>1, Zenon DEF MergeSegments
  <2>3. \A v \in Worker : IF worker'[v] = "insert" THEN task'[v] \in 1..(next' - 1) \ inserted' ELSE task'[v] = None
    BY <2>1 DEF MergeControl, MergeSegments, Merge!Segment, Merge!MergeDBAssumption
  <2>4. \A u, v \in Worker : u # v /\ task'[u] # None => task'[u] # task'[v]
    BY <2>1 DEF MergeControl, MergeSegments, Merge!Segment, Merge!MergeDBAssumption
  <2>5. inserted' \subseteq 1..(next' - 1)
    BY <2>1 DEF MergeSegments, MergeControl, Merge!MergeDBAssumption
  <2>6. ~err' => \A s \in 1..(next' - 1) : s \in inserted' \/ \E v \in Worker : task'[v] = s
    BY <2>1 DEF MergeSegments, MergeControl, Merge!MergeDBAssumption, Merge!Segment
  <2> QED BY <2>2, <2>3, <2>4, <2>5, <2>6, Zenon DEF MergeSegments
<1>3. ASSUME NEW w \in Worker, Merge!WorkerLeaves(w)
      PROVE  MergeSegments'
  BY <1>3, Zenon DEF Merge!WorkerLeaves, MergeControl, MergeSegments
<1>4. ASSUME NEW w \in Worker, Merge!MergeSegment(w)
      PROVE  MergeSegments'
  <2>1. /\ task' = [task EXCEPT ![w] = None] /\ UNCHANGED next /\ worker[w] = "insert" /\ worker'[w] # "insert"
        /\ \A v \in Worker \ {w} : worker'[v] = worker[v]
        /\ (inserted' = inserted \cup {task[w]} /\ UNCHANGED err) \/ (inserted' = inserted /\ err')
    BY <1>4, Zenon DEF Merge!MergeSegment, Merge!GroupFail, MergeControl
  <2>2. task' \in [Worker -> Merge!Segment \cup {None}]
    BY <2>1, Zenon DEF MergeSegments
  <2>0. /\ task'[w] = None /\ \A v \in Worker \ {w} : task'[v] = task[v]
        /\ task[w] \in 1..(next - 1) \ inserted /\ task[w] # None
    BY <2>1 DEF MergeControl, MergeSegments, Merge!MergeDBAssumption
  <2>3. \A v \in Worker : IF worker'[v] = "insert" THEN task'[v] \in 1..(next' - 1) \ inserted' ELSE task'[v] = None
    <3>1. ASSUME NEW v \in Worker \ {w}, worker[v] = "insert"
          PROVE  task[v] \in 1..(next - 1) \ inserted /\ task[v] # task[w]
      BY <2>0, <3>1, Zenon DEF MergeSegments
    <3> QED BY <2>0, <2>1, <3>1 DEF MergeSegments
  <2>4. \A u, v \in Worker : u # v /\ task'[u] # None => task'[u] # task'[v]
    BY <2>1, Zenon DEF MergeSegments
  <2>5. inserted' \subseteq 1..(next' - 1)
    BY <2>1, Zenon DEF MergeSegments
  <2>6. ~err' => \A s \in 1..(next' - 1) : s \in inserted' \/ \E v \in Worker : task'[v] = s
    <3>1. ASSUME ~err', NEW s \in 1..(next - 1)
          PROVE  s \in inserted' \/ \E v \in Worker : task'[v] = s
      <4>1. ~err /\ inserted' = inserted \cup {task[w]}
        BY <2>1, <3>1
      <4>2. s \in inserted \/ \E v \in Worker : task[v] = s
        BY <3>1, <4>1, Zenon DEF MergeSegments
      <4> QED BY <2>0, <4>1, <4>2, Zenon
    <3> QED BY <2>1, <3>1, Zenon
  <2> QED BY <2>2, <2>3, <2>4, <2>5, <2>6, Zenon DEF MergeSegments
<1>5. CASE Merge!SenderQuits \/ Merge!Poll \/ Merge!FlushSegments \/ Merge!CloseSegments \/ Merge!Wait
           \/ Merge!FinalFlush \/ Merge!Returned \/ UNCHANGED Merge!vars
  <2>1. next' = next /\ worker' = worker /\ task' = task /\ inserted' = inserted /\ (err' = err \/ err' = TRUE)
    <3>1. CASE Merge!FlushSegments
      BY <3>1, Zenon DEF Merge!FlushSegments, Merge!GroupFail
    <3> QED BY <1>5, <3>1, Zenon DEF Merge!SenderQuits, Merge!Poll, Merge!CloseSegments, Merge!Wait,
               Merge!FinalFlush, Merge!Returned, Merge!vars
  <2> QED BY <1>1, <2>1, Zenon
<1> QED BY <1>2, <1>3, <1>4, <1>5, Zenon DEF Merge!Next

LEMMA MergeSavedKept ==
  ASSUME MergeControl, MergeSegments, MergeSaved, [Merge!Next]_(Merge!vars)
  PROVE  MergeSaved'
<1>1. ASSUME NEW w \in Worker, Merge!MergeSegment(w)
      PROVE  MergeSaved'
  <2>1. main = "wait" /\ main' = main /\ task[w] \notin inserted
    BY <1>1, Zenon DEF Merge!MergeSegment, MergeControl, MergeSegments
  <2>2. \/ inserted' = inserted \cup {task[w]} /\ progress' = progress + 1
        \/ UNCHANGED <<inserted, progress>>
    BY <1>1, Zenon DEF Merge!MergeSegment
  <2>3. IsFiniteSet(inserted \cup {task[w]}) /\ Cardinality(inserted \cup {task[w]}) = Cardinality(inserted) + 1
    BY <2>1, FS_AddElement, Zenon DEF MergeSaved
  <2> QED BY <2>1, <2>2, <2>3, Zenon DEF MergeSaved
<1>2. CASE Merge!FinalFlush
  BY <1>2, Zenon DEF Merge!FinalFlush, MergeSaved
<1>3. CASE Merge!FlushSegments \/ Merge!Wait
  BY <1>3, Zenon DEF Merge!FlushSegments, Merge!Wait, MergeSaved, MergeControl
<1>4. CASE Merge!SenderQuits \/ Merge!Poll \/ Merge!CloseSegments \/ Merge!Returned \/ UNCHANGED Merge!vars
           \/ \E w \in Worker : Merge!SendSegment(w) \/ Merge!WorkerLeaves(w)
  BY <1>4, Zenon DEF Merge!SenderQuits, Merge!Poll, Merge!CloseSegments, Merge!Returned, Merge!vars,
     Merge!SendSegment, Merge!WorkerLeaves, MergeSaved
<1> QED BY <1>1, <1>2, <1>3, <1>4, Zenon DEF Merge!Next

LEMMA MergeInvariant ==
  ASSUME Merge!MergeDBAssumption
  PROVE  Merge!Spec => []MergeInv
<1>1. Merge!Init => MergeInv
  BY MergeInitInv, Zenon
<1>2. MergeInv /\ [Merge!Next]_(Merge!vars) => MergeInv'
  BY MergeControlKept, MergeSegmentsKept, MergeSavedKept, Zenon DEF MergeInv
<1> QED BY <1>1, <1>2, PTL DEF Merge!Spec

(* merge.go: mergeDB reports success only when every segment was inserted   *)
(* once and flushed, wherever the sender and the workers were when one of   *)
(* them failed, and no worker inserts after Wait has returned.              *)
THEOREM MergeAccounts ==
  ASSUME Merge!MergeDBAssumption
  PROVE  Merge!Spec => []Merge!SegmentsAccounted
<1>1. ASSUME MergeInv
      PROVE  Merge!SegmentsAccounted
  <2>1. Merge!MergeQuiet
    BY <1>1, Zenon DEF MergeInv, MergeControl, MergeSegments, Merge!MergeQuiet
  <2>2. ASSUME main = "ok"
        PROVE  durable = Merge!Segment /\ progress = Segments
    <3>1. ~err /\ closed /\ \A w \in Worker : worker[w] = "done"
      BY <1>1, <2>2, Zenon DEF MergeInv, MergeControl
    <3>2. next - 1 = Segments
      BY <1>1, <3>1 DEF MergeInv, MergeControl, Merge!MergeDBAssumption
    <3>3. \A w \in Worker : task[w] = None
      BY <1>1, <3>1, Zenon DEF MergeInv, MergeSegments
    <3>4. inserted = 1..Segments
      BY <1>1, <3>1, <3>2, <3>3, Zenon DEF MergeInv, MergeSegments, Merge!MergeDBAssumption
    <3>5. Cardinality(1..Segments) = Segments
      BY FS_Interval DEF Merge!MergeDBAssumption
    <3> QED BY <1>1, <2>2, <3>4, <3>5, Zenon DEF MergeInv, MergeSaved, Merge!Segment
  <2> QED BY <2>1, <2>2, Zenon DEF Merge!SegmentsAccounted, Merge!MergeComplete
<1> QED BY <1>1, MergeInvariant, PTL

-----------------------------------------------------------------------------
(* gumtool migrate (MigrateDBs.tla).                                        *)

Busy == {w \in Worker : worker[w] = "insert"}

MigrateControl ==
  /\ main \in {"poll", "offer"} => next <= Segments /\ ~shutdown
  /\ main \notin {"poll", "offer", "flush"} /\ ~workerErr => next = Segments + 1
  /\ main \in {"finalFlush", "ok"} => ~workerErr
  /\ main \in {"finalFlush", "ok"} \/ (main = "error" /\ workerErr) => \A w \in Worker : worker[w] = "done"
  /\ \A w \in Worker : worker[w] = "done" => shutdown
  /\ shutdown => main \notin {"poll", "offer", "flush"}
  /\ main \notin {"wait", "error"} => ~workerErr
  /\ main = "ok" => durable = inserted

MigrateSegments ==
  /\ \A w \in Worker : /\ worker[w] \in {"insert", "report"} => task[w] # None
                       /\ worker[w] = "select" => task[w] = None
                       /\ task[w] # None => task[w] \in 1..(next - 1) \ inserted
  /\ \A v, w \in Worker : v # w /\ task[v] # None => task[v] # task[w]
  /\ inserted \subseteq 1..(next - 1)
  /\ \A s \in 1..(next - 1) : s \in inserted \/ \E w \in Worker : task[w] = s
  /\ progress = Cardinality(inserted)

Room == IF main \in {"poll", "offer"} THEN flushSegmentCount ELSE flushSegments

MigrateMemory == Cardinality(inserted \ durable) + Cardinality(Busy) <= Room + Cardinality(Worker)

MigrateInv == TypeOK /\ MigrateControl /\ MigrateSegments /\ MigrateMemory

(* The sets that are counted are finite.                                    *)
LEMMA MigrateFinite ==
  ASSUME MigrateAssumption, TypeOK
  PROVE  /\ IsFiniteSet(inserted) /\ Cardinality(inserted) \in Nat
         /\ \A x \in Segment \ inserted : /\ Cardinality(inserted \cup {x}) = Cardinality(inserted) + 1
                                                /\ Cardinality(inserted) + 1 <= Segments
         /\ IsFiniteSet(inserted \ durable) /\ Cardinality(inserted \ durable) \in Nat
         /\ IsFiniteSet(Busy) /\ Cardinality(Busy) \in Nat
         /\ Cardinality(Worker) \in Nat /\ Cardinality(Busy) <= Cardinality(Worker)
<1>1. IsFiniteSet(Segment) /\ Cardinality(Segment) = Segments /\ IsFiniteSet(Worker)
  BY FS_Interval DEF Segment, MigrateAssumption
<1>2. inserted \in SUBSET Segment /\ inserted \ durable \in SUBSET Segment
  BY Zenon DEF TypeOK
<1>3. Busy \in SUBSET Worker
  BY Zenon DEF Busy
<1>4. IsFiniteSet(inserted) /\ IsFiniteSet(inserted \ durable) /\ IsFiniteSet(Busy)
  BY <1>1, <1>2, <1>3, FS_Subset, Zenon
<1>5. Cardinality(Busy) <= Cardinality(Worker)
  BY <1>1, <1>3, FS_Subset, Zenon
<1>6. ASSUME NEW x \in Segment \ inserted
      PROVE  Cardinality(inserted \cup {x}) = Cardinality(inserted) + 1 /\ Cardinality(inserted \cup {x}) <= Segments
  <2>1. inserted \cup {x} \in SUBSET Segment
    BY <1>2, Zenon
  <2>2. Cardinality(inserted \cup {x}) <= Segments
    BY <1>1, <2>1, FS_Subset, Zenon
  <2> QED BY <1>4, <2>2, FS_AddElement, Zenon
<1> QED BY <1>1, <1>4, <1>5, <1>6, FS_CardinalityType, Zenon

LEMMA MigrateInitInv ==
  ASSUME MigrateAssumption, Init
  PROVE  MigrateInv
<1>1. TypeOK
  <2>1. shutdown \in BOOLEAN /\ workerErr \in BOOLEAN
    BY Zenon DEF Init
  <2>2. /\ main \in {"poll", "offer", "flush", "wait", "finalFlush", "ok", "error"}
        /\ next \in 1..(Segments + 1) /\ flushSegmentCount \in 0..(flushSegments - 1) /\ progress \in 0..Segments
    BY DEF Init, MigrateAssumption
  <2>3. /\ worker \in [Worker -> {"select", "insert", "report", "done"}]
        /\ task \in [Worker -> Segment \cup {None}]
        /\ durable \subseteq inserted /\ inserted \subseteq Segment
    BY Zenon DEF Init
  <2> QED BY <2>1, <2>2, <2>3, Zenon DEF TypeOK
<1>2. MigrateControl
  <2>1. workerErr = FALSE /\ (main = "poll" => next <= Segments) /\ (main = "wait" => next = Segments + 1)
        /\ main \in {"poll", "wait"} /\ \A w \in Worker : worker[w] = "select"
    BY DEF MigrateAssumption, Init
  <2>2. shutdown => main = "wait"
    BY Zenon DEF Init
  <2>3. main = "poll" => ~shutdown
    BY <2>2, Zenon
  <2> QED BY <2>1, <2>2, <2>3, Zenon DEF MigrateControl
<1>3. MigrateSegments
  BY FS_EmptySet DEF MigrateAssumption, Init, MigrateSegments
<1>4. MigrateMemory
  <2>1. inserted \ durable = {} /\ Busy = {}
    BY Zenon DEF Init, Busy
  <2>2. Cardinality(Worker) \in Nat
    BY FS_CardinalityType, Zenon DEF MigrateAssumption
  <2>3. Room \in Nat
    BY Zenon DEF MigrateAssumption, Init, Room
  <2> QED BY <2>1, <2>2, <2>3, FS_EmptySet DEF MigrateMemory
<1> QED BY <1>1, <1>2, <1>3, <1>4, Zenon DEF MigrateInv

LEMMA MigrateTypeKept ==
  ASSUME MigrateAssumption, MigrateInv, [Next]_vars
  PROVE  TypeOK'
<1>1. CASE Poll
  BY <1>1, Zenon DEF MigrateInv, TypeOK, Poll
<1>2. CASE FlushSegments
  BY <1>2, Zenon DEF MigrateInv, TypeOK, FlushSegments, LoopEnd, BreakOuter
<1>3. CASE WaitWorkers \/ FinalFlush
  BY <1>3, Zenon DEF MigrateInv, TypeOK, WaitWorkers, FinalFlush
<1>4. CASE Returned \/ UNCHANGED vars
  BY <1>4, Zenon DEF MigrateInv, TypeOK, Returned, vars
<1>5. ASSUME NEW w \in Worker, ReceiveError(w)
      PROVE  TypeOK'
  BY <1>5, Zenon DEF MigrateInv, TypeOK, ReceiveError, BreakOuter
<1>6. ASSUME NEW w \in Worker, SendSegment(w)
      PROVE  TypeOK'
  <2>1. next' \in 1..(Segments + 1) /\ flushSegmentCount' \in 0..(flushSegments - 1) /\ next \in Segment
    <3>1. next <= Segments /\ next \in 1..(Segments + 1) /\ flushSegmentCount \in 0..(flushSegments - 1)
      BY <1>6, Zenon DEF MigrateInv, MigrateControl, TypeOK, SendSegment
    <3>2. next' = next + 1 /\ (flushSegmentCount' = 0 \/ (flushSegmentCount' = flushSegmentCount + 1
                                                         /\ flushSegmentCount + 1 # flushSegments))
      BY <1>6, Zenon DEF SendSegment
    <3> QED BY <3>1, <3>2 DEF Segment, MigrateAssumption
  <2>2. /\ worker' \in [Worker -> {"select", "insert", "report", "done"}]
        /\ task' \in [Worker -> Segment \cup {None}]
    BY <1>6, <2>1, Zenon DEF MigrateInv, TypeOK, SendSegment
  <2>3. main' \in {"poll", "flush", "wait"} /\ UNCHANGED <<progress, inserted, durable>>
    BY <1>6, Zenon DEF SendSegment, BreakOuter
  <2>4. shutdown' \in BOOLEAN /\ workerErr' \in BOOLEAN
    BY <1>6, Zenon DEF MigrateInv, TypeOK, SendSegment, BreakOuter
  <2> QED BY <2>1, <2>2, <2>3, <2>4, Zenon DEF MigrateInv, TypeOK
<1>7. ASSUME NEW w \in Worker, MigrateSegment(w)
      PROVE  TypeOK'
  <2>1. task[w] \in Segment \ inserted
    BY <1>7 DEF MigrateInv, MigrateSegments, TypeOK, MigrateSegment
  <2>2. Cardinality(inserted) + 1 <= Segments /\ Cardinality(inserted) \in Nat
    BY <2>1, MigrateFinite, Zenon DEF MigrateInv
  <2>3. progress = Cardinality(inserted) /\ inserted \subseteq Segment /\ durable \subseteq inserted
    BY Zenon DEF MigrateInv, MigrateSegments, TypeOK
  <2>4. progress' \in 0..Segments /\ inserted' \subseteq Segment /\ durable' \subseteq inserted'
    BY <1>7, <2>1, <2>2, <2>3 DEF MigrateSegment, MigrateAssumption
  <2>5. worker' \in [Worker -> {"select", "insert", "report", "done"}] /\ task' \in [Worker -> Segment \cup {None}]
    BY <1>7, Zenon DEF MigrateInv, TypeOK, MigrateSegment
  <2>6. UNCHANGED <<main, next, flushSegmentCount, shutdown, workerErr>>
    BY <1>7, Zenon DEF MigrateSegment
  <2> QED BY <2>4, <2>5, <2>6, Zenon DEF MigrateInv, TypeOK
<1>8. ASSUME NEW w \in Worker, Shutdown(w)
      PROVE  TypeOK'
  BY <1>8, Zenon DEF MigrateInv, TypeOK, Shutdown
<1> QED BY <1>1, <1>2, <1>3, <1>4, <1>5, <1>6, <1>7, <1>8, Zenon DEF Next

LEMMA MigrateControlKept ==
  ASSUME MigrateAssumption, MigrateInv, [Next]_vars
  PROVE  MigrateControl'
<1> USE DEF MigrateInv
<1>1. CASE Poll
  BY <1>1, Zenon DEF MigrateControl, Poll
<1>2. CASE FlushSegments
  BY <1>2 DEF MigrateControl, TypeOK, FlushSegments, LoopEnd, BreakOuter,
     MigrateAssumption
<1>3. CASE WaitWorkers
  BY <1>3, Zenon DEF MigrateControl, WaitWorkers
<1>4. CASE FinalFlush
  BY <1>4, Zenon DEF MigrateControl, FinalFlush
<1>5. CASE Returned \/ UNCHANGED vars
  BY <1>5 DEF MigrateControl, Returned, vars
<1>6. ASSUME NEW w \in Worker, ReceiveError(w)
      PROVE  MigrateControl'
  BY <1>6, Zenon DEF MigrateControl, TypeOK, ReceiveError, BreakOuter
<1>7. ASSUME NEW w \in Worker, SendSegment(w)
      PROVE  MigrateControl'
  BY <1>7 DEF MigrateControl, TypeOK, SendSegment, BreakOuter, MigrateAssumption
<1>8. ASSUME NEW w \in Worker, MigrateSegment(w)
      PROVE  MigrateControl'
  BY <1>8, Zenon DEF MigrateControl, TypeOK, MigrateSegment
<1>9. ASSUME NEW w \in Worker, Shutdown(w)
      PROVE  MigrateControl'
  BY <1>9, Zenon DEF MigrateControl, TypeOK, Shutdown
<1> QED BY <1>1, <1>2, <1>3, <1>4, <1>5, <1>6, <1>7, <1>8, <1>9, Zenon DEF Next

LEMMA MigrateSegmentsKept ==
  ASSUME MigrateAssumption, MigrateInv, [Next]_vars
  PROVE  MigrateSegments'
<1> USE DEF MigrateInv
<1>1. CASE UNCHANGED <<next, task, inserted, progress>>
           /\ \A w \in Worker : worker'[w] = worker[w] \/ worker'[w] = "done"
  BY <1>1, Zenon DEF MigrateSegments
<1>2. ASSUME NEW w \in Worker, SendSegment(w)
      PROVE  MigrateSegments'
  <2>1. /\ worker'[w] = "insert" /\ task'[w] = next /\ next' = next + 1 /\ UNCHANGED <<inserted, progress>>
        /\ \A v \in Worker \ {w} : worker'[v] = worker[v] /\ task'[v] = task[v]
        /\ task[w] = None /\ next \in Segment /\ next # None
    BY <1>2 DEF TypeOK, SendSegment, MigrateAssumption, MigrateControl, MigrateSegments,
       Segment
  <2>2. \A v \in Worker : /\ worker'[v] \in {"insert", "report"} => task'[v] # None
                          /\ worker'[v] = "select" => task'[v] = None
                          /\ task'[v] # None => task'[v] \in 1..(next' - 1) \ inserted'
    BY <2>1 DEF MigrateSegments, Segment, MigrateAssumption
  <2>3. \A u, v \in Worker : u # v /\ task'[u] # None => task'[u] # task'[v]
    BY <2>1 DEF MigrateSegments, Segment, MigrateAssumption
  <2>4. inserted' \subseteq 1..(next' - 1)
    BY <2>1 DEF MigrateSegments, Segment, MigrateAssumption
  <2>5. \A s \in 1..(next' - 1) : s \in inserted' \/ \E v \in Worker : task'[v] = s
    BY <2>1 DEF MigrateSegments, Segment, MigrateAssumption
  <2> QED BY <2>1, <2>2, <2>3, <2>4, <2>5, Zenon DEF MigrateSegments
<1>3. ASSUME NEW w \in Worker, MigrateSegment(w)
      PROVE  MigrateSegments'
  <2>1. UNCHANGED next /\ worker[w] = "insert" /\ task[w] # None /\ task[w] \notin inserted
        /\ \A v \in Worker \ {w} : worker'[v] = worker[v] /\ task'[v] = task[v]
    BY <1>3 DEF TypeOK, MigrateSegment, MigrateSegments
  <2>2. CASE inserted' = inserted \cup {task[w]} /\ progress' = progress + 1
             /\ worker'[w] = "select" /\ task'[w] = None
    <3>1. progress' = Cardinality(inserted')
      <4>1. IsFiniteSet(inserted)
        BY MigrateFinite, Zenon
      <4> QED BY <2>1, <2>2, <4>1, FS_AddElement, Zenon DEF MigrateSegments
    <3>2. \A v \in Worker : /\ worker'[v] \in {"insert", "report"} => task'[v] # None
                            /\ worker'[v] = "select" => task'[v] = None
                            /\ task'[v] # None => task'[v] \in 1..(next' - 1) \ inserted'
      BY <2>1, <2>2 DEF MigrateSegments
    <3>3. \A u, v \in Worker : u # v /\ task'[u] # None => task'[u] # task'[v]
      BY <2>1, <2>2 DEF MigrateSegments
    <3>4. inserted' \subseteq 1..(next' - 1)
      BY <2>1, <2>2, Zenon DEF MigrateSegments
    <3>5. \A s \in 1..(next' - 1) : s \in inserted' \/ \E v \in Worker : task'[v] = s
      BY <2>1, <2>2 DEF MigrateSegments
    <3> QED BY <3>1, <3>2, <3>3, <3>4, <3>5, Zenon DEF MigrateSegments
  <2>3. CASE UNCHANGED <<inserted, progress, task>> /\ worker'[w] = "report"
    BY <2>1, <2>3 DEF MigrateSegments
  <2> QED BY <1>3, <2>2, <2>3, Zenon DEF TypeOK, MigrateSegment
<1>4. ASSUME NEW w \in Worker, ReceiveError(w) \/ Shutdown(w)
      PROVE  MigrateSegments'
  BY <1>1, <1>4, Zenon DEF TypeOK, ReceiveError, Shutdown
<1>5. CASE Poll \/ FlushSegments \/ WaitWorkers \/ FinalFlush \/ Returned
           \/ UNCHANGED vars
  BY <1>1, <1>5, Zenon DEF Poll, FlushSegments, WaitWorkers, FinalFlush,
     Returned, vars
<1> QED BY <1>2, <1>3, <1>4, <1>5, Zenon DEF Next

(* What a flush has left in memory, with what the workers may still add, is *)
(* within the segments sent since and one for each worker.                  *)
LEMMA MigrateMemoryKept ==
  ASSUME MigrateAssumption, MigrateInv, [Next]_vars
  PROVE  MigrateMemory'
<1> USE DEF MigrateInv
<1>1. /\ IsFiniteSet(inserted \ durable) /\ Cardinality(inserted \ durable) \in Nat
      /\ IsFiniteSet(Busy) /\ Cardinality(Busy) \in Nat
      /\ Cardinality(Worker) \in Nat /\ Cardinality(Busy) <= Cardinality(Worker)
  BY MigrateFinite, Zenon
<1>2. /\ Room \in Nat /\ Room <= flushSegments /\ flushSegments \in Nat
      /\ main \in {"poll", "offer"} => Room <= flushSegments - 1
  BY DEF Room, TypeOK, MigrateAssumption
<1>3. CASE UNCHANGED <<inserted, durable>> /\ Busy' = Busy /\ Room <= Room' /\ Room' \in Nat
  BY <1>1, <1>2, <1>3 DEF MigrateMemory
<1>4. CASE durable' = inserted /\ UNCHANGED <<inserted, worker>> /\ Room' \in Nat
  <2>1. inserted' \ durable' = {} /\ Busy' = Busy
    BY <1>4, Zenon DEF Busy
  <2> QED BY <1>1, <1>4, <2>1, FS_EmptySet DEF MigrateMemory
<1>5. ASSUME NEW w \in Worker, SendSegment(w)
      PROVE  MigrateMemory'
  <2>1. Busy' = Busy \cup {w} /\ w \notin Busy /\ UNCHANGED <<inserted, durable>>
    BY <1>5, Zenon DEF Busy, TypeOK, SendSegment
  <2>2. Room + 1 <= Room' /\ Room' \in Nat
    BY <1>2, <1>5 DEF Room, TypeOK, SendSegment, BreakOuter, MigrateAssumption
  <2>3. Cardinality(Busy') = Cardinality(Busy) + 1
    BY <1>1, <2>1, FS_AddElement, Zenon
  <2> QED BY <1>1, <1>2, <2>1, <2>2, <2>3 DEF MigrateMemory
<1>6. ASSUME NEW w \in Worker, MigrateSegment(w)
      PROVE  MigrateMemory'
  <2>1. Busy' = Busy \ {w} /\ w \in Busy /\ UNCHANGED <<main, flushSegmentCount, durable>>
    BY <1>6, Zenon DEF Busy, TypeOK, MigrateSegment
  <2>2. Room' = Room
    BY <2>1, Zenon DEF Room
  <2>3. Cardinality(Busy') = Cardinality(Busy) - 1
    BY <1>1, <2>1, FS_RemoveElement, Zenon
  <2>4. CASE UNCHANGED inserted
    BY <1>1, <1>2, <2>1, <2>2, <2>3, <2>4 DEF MigrateMemory
  <2>5. CASE inserted' = inserted \cup {task[w]}
    <3>1. task[w] \notin inserted
      BY <1>6, Zenon DEF MigrateSegments, MigrateSegment
    <3>2. inserted' \ durable' = (inserted \ durable) \cup {task[w]} /\ task[w] \notin inserted \ durable
      BY <2>1, <2>5, <3>1, Zenon DEF TypeOK
    <3>3. Cardinality(inserted' \ durable') = Cardinality(inserted \ durable) + 1
      BY <1>1, <3>2, FS_AddElement, Zenon
    <3> QED BY <1>1, <1>2, <2>2, <2>3, <3>3 DEF MigrateMemory
  <2> QED BY <1>6, <2>4, <2>5, Zenon DEF MigrateSegment
<1>7. ASSUME NEW w \in Worker, ReceiveError(w) \/ Shutdown(w)
      PROVE  MigrateMemory'
  <2>1. Busy' = Busy /\ UNCHANGED <<inserted, durable>>
    BY <1>7, Zenon DEF Busy, TypeOK, ReceiveError, Shutdown
  <2>2. Room <= Room' /\ Room' \in Nat
    BY <1>2, <1>7 DEF Room, ReceiveError, Shutdown, BreakOuter
  <2> QED BY <1>3, <2>1, <2>2, Zenon
<1>8. CASE FlushSegments
  <2>1. Room' \in Nat /\ UNCHANGED <<inserted, worker>>
    BY <1>2, <1>8 DEF Room, FlushSegments, TypeOK, MigrateAssumption
  <2>2. durable' = inserted \/ (UNCHANGED durable /\ main' = "wait" /\ main = "flush")
    BY <1>8, Zenon DEF FlushSegments, BreakOuter
  <2>3. CASE UNCHANGED durable /\ main' = "wait" /\ main = "flush"
    BY <1>2, <1>3, <2>1, <2>3, Zenon DEF Room, Busy
  <2> QED BY <1>4, <2>1, <2>2, <2>3, Zenon
<1>9. CASE Poll \/ WaitWorkers \/ Returned \/ UNCHANGED vars
  <2>1. UNCHANGED <<inserted, durable, worker, flushSegmentCount>>
        /\ (main \in {"poll", "offer"} <=> main' \in {"poll", "offer"})
    BY <1>9, Zenon DEF Poll, WaitWorkers, Returned, vars
  <2> QED BY <1>2, <1>3, <2>1 DEF Room, Busy
<1>10. CASE FinalFlush
  <2>1. Room' = Room /\ UNCHANGED <<inserted, worker>> /\ (durable' = inserted \/ UNCHANGED durable)
    BY <1>10, Zenon DEF Room, FinalFlush
  <2> QED BY <1>2, <1>3, <1>4, <2>1 DEF Busy
<1> QED BY <1>5, <1>6, <1>7, <1>8, <1>9, <1>10, Zenon DEF Next

LEMMA MigrateInvariant ==
  ASSUME MigrateAssumption
  PROVE  Spec => []MigrateInv
<1>1. Init => MigrateInv
  BY MigrateInitInv, Zenon
<1>2. MigrateInv /\ [Next]_vars => MigrateInv'
  BY MigrateTypeKept, MigrateControlKept, MigrateSegmentsKept, MigrateMemoryKept, Zenon DEF MigrateInv
<1> QED BY <1>1, <1>2, PTL DEF Spec

(* migrate.go: when migrateDBs reports success every worker has left, all   *)
(* that was inserted is flushed, and a segment is missing exactly when the  *)
(* worker that had it failed after the last was handed out; the memTable    *)
(* never holds more than flushSegments segments and one for each worker.    *)
THEOREM MigrateAccountsAll ==
  ASSUME MigrateAssumption
  PROVE  Spec => []SegmentsAccounted
<1>1. ASSUME MigrateInv
      PROVE  SegmentsAccounted
  <2>1. MigrateQuiet
    BY <1>1, Zenon DEF MigrateInv, MigrateControl, MigrateQuiet
  <2>2. ASSUME main = "ok"
        PROVE  Segment \ durable = {task[w] : w \in Worker} \ {None}
    <3>1. next - 1 = Segments /\ durable = inserted
      BY <1>1, <2>2 DEF MigrateInv, MigrateControl, MigrateAssumption
    <3> QED BY <1>1, <3>1 DEF MigrateInv, MigrateSegments, Segment, MigrateAssumption
  <2>3. MemoryBounded
    <3>1. /\ Cardinality(inserted \ durable) \in Nat /\ Cardinality(Busy) \in Nat /\ Cardinality(Worker) \in Nat
      BY <1>1, MigrateFinite, Zenon DEF MigrateInv
    <3>2. Room <= flushSegments /\ Room \in Nat /\ flushSegments \in Nat
      BY <1>1 DEF MigrateInv, Room, TypeOK, MigrateAssumption
    <3> QED BY <1>1, <3>1, <3>2 DEF MigrateInv, MigrateMemory, MemoryBounded
  <2> QED BY <2>1, <2>2, <2>3, Zenon DEF SegmentsAccounted, MigrateAccounts
<1> QED BY <1>1, MigrateInvariant, PTL

-----------------------------------------------------------------------------
(* gumtool balance (Balance.tla).                                           *)

CONSTANTS sources, dests, CommandsFail
VARIABLES phase, clientCache, workDirs, partials, archives, pc, index, partialsByDest, shards

Bal == INSTANCE Balance

(* The rows of a source that a destination gets, and where they are kept: on *)
(* the host of the source, then on that of the destination.                 *)
Rows(s, d) == Bal!MakePartialDBs(s)[d]
Local(s, d) == <<sources[s].host, Bal!PartialName(s, d)>>
Remote(s, d) == <<dests[d].host, Bal!PartialName(s, d)>>
Away(s, d) == sources[s].host # dests[d].host

(* What PreparePartials of a source has made, copied and sent.              *)
Finished(s, d) == d < index[s] /\ Rows(s, d) # {}
Copying(s, d) == d = index[s] /\ pc[s] = "copy"
Made(s, d) == Finished(s, d) \/ (d = index[s] /\ pc[s] \in {"copy", "send"})

LoadInv ==
  phase \in {"load", "mkdir"} =>
    /\ partials = <<>> /\ archives = <<>> /\ (phase = "mkdir" => Bal!uniqueHosts \subseteq clientCache)
    /\ index = [s \in Bal!Source |-> 1] /\ partialsByDest = [d \in Bal!Dest |-> {}]

PrepareControl ==
  /\ index \in [Bal!Source -> 1..(Len(dests) + 1)]
  /\ pc \in [Bal!Source -> {"mkdir", "copy", "send", "done"}]
  /\ \A s \in Bal!Source :
       /\ pc[s] \in {"copy", "send"} => index[s] \in Bal!Dest /\ Rows(s, index[s]) # {}
       /\ pc[s] = "send" => Away(s, index[s])
       /\ pc[s] = "done" => index[s] = Len(dests) + 1

(* mkdir is what keeps the directories apart.                               *)
NamesApart ==
  \A s, r \in Bal!Source : \A d, c \in Bal!Dest :
    Made(s, d) /\ Made(r, c) /\ Local(s, d) = Local(r, c) => s = r /\ d = c

DirsMade ==
  \A s \in Bal!Source : \A d \in Bal!Dest : Made(s, d) =>
    /\ Local(s, d) \in DOMAIN partials
    /\ Copying(s, d) => partials[Local(s, d)] = {}
    /\ ~Copying(s, d) => partials[Local(s, d)] = Rows(s, d)

ArchivesSent ==
  \A s \in Bal!Source : \A d \in Bal!Dest : Finished(s, d) /\ Away(s, d) =>
    Remote(s, d) \in DOMAIN archives /\ archives[Remote(s, d)] = Rows(s, d)

Entered == partialsByDest = [d \in Bal!Dest |-> {s \in Bal!Source : pc[s] = "done" /\ Rows(s, d) # {}}]

PrepareInv == phase = "prepare" => PrepareControl /\ NamesApart /\ DirsMade /\ ArchivesSent /\ Entered

Wanted(d) == {s \in Bal!Source : Rows(s, d) # {}}
Due(d) == UNION {Rows(s, d) : s \in Bal!Source}

MergeDirsInv ==
  phase = "merge" =>
    /\ pc \in [Bal!Dest -> {"extract", "merge", "done"}]
    /\ partialsByDest = [d \in Bal!Dest |-> Wanted(d)]
    /\ \A d \in Bal!Dest : \A s \in Wanted(d) :
         /\ Local(s, d) \in DOMAIN partials /\ partials[Local(s, d)] = Rows(s, d)
         /\ Away(s, d) => archives[Remote(s, d)] = Rows(s, d)
         /\ Away(s, d) /\ pc[d] # "extract" => Remote(s, d) \in DOMAIN partials /\ partials[Remote(s, d)] = Rows(s, d)

ShardsInv ==
  /\ shards \in [Bal!Dest -> SUBSET Bal!AllRows]
  /\ phase \in {"load", "mkdir", "prepare"} => shards = [d \in Bal!Dest |-> {}]
  /\ phase = "merge" => \A d \in Bal!Dest : pc[d] = "done" => shards[d] = Due(d)
  /\ phase = "done" => \A d \in Bal!Dest : shards[d] = Due(d)
  /\ Bal!CachesRead

BalanceInv == LoadInv /\ PrepareInv /\ MergeDirsInv /\ ShardsInv

LEMMA ElementOf ==
  ASSUME NEW S, NEW q \in Seq(S), NEW n \in DOMAIN q
  PROVE  q[n] \in S
OBVIOUS

LEMMA BalanceSets ==
  ASSUME Bal!BalanceAssumption
  PROVE  /\ Bal!Dest = 1..Len(dests) /\ Len(dests) \in Nat \ {0}
         /\ \A s \in Bal!Source : sources[s].intervals \subseteq Nat
<1>1. dests \in Seq([host: STRING, config: STRING]) /\ sources \in Seq([host: STRING, intervals: SUBSET Nat])
      /\ dests # <<>>
  BY Zenon DEF Bal!BalanceAssumption
<1>2. DOMAIN dests = 1..Len(dests) /\ Len(dests) \in Nat /\ Len(dests) # 0
  BY <1>1
<1>3. \A s \in DOMAIN sources : sources[s] \in [host: STRING, intervals: SUBSET Nat]
  BY <1>1, ElementOf, Zenon
<1> QED BY <1>2, <1>3, Zenon DEF Bal!Dest, Bal!Source

(* A name tells the hosts: the same name means the same directory and the   *)
(* same archive, and what is extracted never replaces what was prepared.    *)
LEMMA Names ==
  ASSUME NEW s \in Bal!Source, NEW d \in Bal!Dest, NEW r \in Bal!Source, NEW c \in Bal!Dest
  PROVE  /\ (Local(s, d) = Local(r, c)) <=> (Bal!PartialName(s, d) = Bal!PartialName(r, c))
         /\ (Remote(s, d) = Remote(r, c)) <=> (Bal!PartialName(s, d) = Bal!PartialName(r, c))
         /\ Away(s, d) => Remote(s, d) # Local(r, c)
<1>1. (Bal!PartialName(s, d) = Bal!PartialName(r, c))
      <=> (sources[s].host = sources[r].host /\ dests[d].host = dests[c].host)
  <2>1. /\ Bal!PartialName(s, d).source = sources[s].host /\ Bal!PartialName(s, d).dest = dests[d].host
        /\ Bal!PartialName(r, c).source = sources[r].host /\ Bal!PartialName(r, c).dest = dests[c].host
    BY SMT DEF Bal!PartialName
  <2>2. (sources[s].host = sources[r].host /\ dests[d].host = dests[c].host)
        => (Bal!PartialName(s, d) = Bal!PartialName(r, c))
    BY Zenon DEF Bal!PartialName
  <2> HIDE DEF Bal!PartialName
  <2> QED BY <2>1, <2>2, Zenon
<1>2. /\ Local(s, d)[1] = sources[s].host /\ Local(s, d)[2] = Bal!PartialName(s, d)
      /\ Local(r, c)[1] = sources[r].host /\ Local(r, c)[2] = Bal!PartialName(r, c)
      /\ Remote(s, d)[1] = dests[d].host /\ Remote(s, d)[2] = Bal!PartialName(s, d)
      /\ Remote(r, c)[1] = dests[c].host /\ Remote(r, c)[2] = Bal!PartialName(r, c)
  BY SMT DEF Local, Remote
<1>3. (Bal!PartialName(s, d) = Bal!PartialName(r, c)) => (Local(s, d) = Local(r, c) /\ Remote(s, d) = Remote(r, c))
  BY <1>1, Zenon DEF Local, Remote
<1> QED BY <1>1, <1>2, <1>3, Zenon DEF Away

LEMMA RowsOf ==
  ASSUME NEW s, NEW d \in Bal!Dest
  PROVE  Rows(s, d) = {<<s, t>> : t \in {i \in sources[s].intervals : Bal!DestOf(i) = d}}
BY Zenon DEF Rows, Bal!MakePartialDBs

LEMMA PutAt ==
  ASSUME NEW f, NEW k, NEW v
  PROVE  /\ DOMAIN Bal!Put(f, k, v) = DOMAIN f \cup {k} /\ Bal!Put(f, k, v)[k] = v
         /\ \A x \in DOMAIN f : x # k => Bal!Put(f, k, v)[x] = f[x]
BY Zenon DEF Bal!Put

LEMMA BalanceInitInv ==
  ASSUME Bal!Init
  PROVE  BalanceInv
BY Zenon DEF Bal!Init, BalanceInv, LoadInv, PrepareInv, MergeDirsInv, ShardsInv, Bal!CachesRead

(* The steps before the goroutines, and the end.                            *)
LEMMA BalanceOutside ==
  ASSUME Bal!BalanceAssumption, BalanceInv,
         Bal!Load \/ Bal!MakeWorkDirs \/ Bal!RemoveWorkDirs \/ Bal!Fatal \/ Bal!Returned \/ UNCHANGED Bal!vars
  PROVE  BalanceInv'
<1>1. CASE Bal!Load
  BY <1>1, Zenon DEF Bal!Load, BalanceInv, LoadInv, PrepareInv, MergeDirsInv, ShardsInv, Bal!CachesRead
<1>2. CASE Bal!MakeWorkDirs
  <2>1. LoadInv' /\ MergeDirsInv' /\ ShardsInv'
    <3>1. phase = "mkdir" /\ phase' = "prepare" /\ UNCHANGED <<clientCache, shards>>
      BY <1>2, Zenon DEF Bal!MakeWorkDirs
    <3>2. LoadInv' /\ MergeDirsInv'
      BY <3>1, Zenon DEF LoadInv, MergeDirsInv
    <3>3. Bal!CachesRead'
      BY <3>1, Zenon DEF BalanceInv, LoadInv, Bal!CachesRead
    <3> QED BY <3>1, <3>2, <3>3, Zenon DEF BalanceInv, ShardsInv
  <2>2. PrepareInv'
    BY <1>2, BalanceSets DEF Bal!MakeWorkDirs, BalanceInv, LoadInv, PrepareInv, PrepareControl, NamesApart,
       DirsMade, ArchivesSent, Entered, Made, Finished
  <2> QED BY <2>1, <2>2, Zenon DEF BalanceInv
<1>3. CASE Bal!RemoveWorkDirs \/ Bal!Fatal
  BY <1>3, Zenon DEF Bal!RemoveWorkDirs, Bal!Fatal, BalanceInv, LoadInv, PrepareInv, MergeDirsInv, ShardsInv, Bal!CachesRead
<1>4. CASE Bal!Returned \/ UNCHANGED Bal!vars
  <2>1. UNCHANGED Bal!vars
    BY <1>4, Zenon DEF Bal!Returned
  <2>2. LoadInv' /\ MergeDirsInv' /\ ShardsInv'
    BY <2>1, Zenon DEF Bal!vars, BalanceInv, LoadInv, MergeDirsInv, ShardsInv, Bal!CachesRead
  <2>3. PrepareControl => PrepareControl'
    BY <2>1, Zenon DEF Bal!vars, PrepareControl
  <2>4. ASSUME NEW s, NEW d
        PROVE  (Made(s, d)' <=> Made(s, d)) /\ (Finished(s, d)' <=> Finished(s, d)) /\ (Copying(s, d)' <=> Copying(s, d))
    BY <2>1, Zenon DEF Bal!vars, Made, Finished, Copying
  <2>5. NamesApart => NamesApart'
    BY <2>4, Zenon DEF NamesApart
  <2>6. DirsMade => DirsMade'
    BY <2>1, <2>4, Zenon DEF Bal!vars, DirsMade
  <2>7. (ArchivesSent => ArchivesSent') /\ (Entered => Entered')
    BY <2>1, <2>4, Zenon DEF Bal!vars, ArchivesSent, Entered
  <2>8. phase' = phase
    BY <2>1, Zenon DEF Bal!vars
  <2> QED BY <2>2, <2>3, <2>4, <2>5, <2>6, <2>7, <2>8, Zenon DEF BalanceInv, PrepareInv
<1> QED BY <1>1, <1>2, <1>3, <1>4, Zenon

(* A step of a goroutine of step 3 leaves the shards and the caches alone.  *)
LEMMA PrepareFrame ==
  ASSUME BalanceInv, phase = "prepare", phase' = phase, UNCHANGED <<clientCache, shards>>
  PROVE  /\ PrepareControl /\ NamesApart /\ DirsMade /\ ArchivesSent /\ Entered
         /\ LoadInv' /\ MergeDirsInv' /\ ShardsInv'
<1>1. PrepareControl /\ NamesApart /\ DirsMade /\ ArchivesSent /\ Entered
  BY Zenon DEF BalanceInv, PrepareInv
<1>2. LoadInv' /\ MergeDirsInv'
  BY Zenon DEF LoadInv, MergeDirsInv
<1>3. Bal!CachesRead'
  BY Zenon DEF BalanceInv, ShardsInv, Bal!CachesRead
<1> QED BY <1>1, <1>2, <1>3, Zenon DEF BalanceInv, ShardsInv

(* A goroutine that does not change what is made changes nothing else.      *)
LEMMA SameMade ==
  ASSUME \A r \in Bal!Source : \A c \in Bal!Dest :
           Made(r, c)' = Made(r, c) /\ Finished(r, c)' = Finished(r, c) /\ Copying(r, c)' = Copying(r, c),
         NamesApart, DirsMade, ArchivesSent, UNCHANGED <<partials, archives>>
  PROVE  NamesApart' /\ DirsMade' /\ ArchivesSent'
<1>1. NamesApart'
  BY DEF NamesApart, Local, Bal!PartialName
<1>2. DirsMade'
  BY DEF DirsMade, Local, Rows, Bal!PartialName
<1>3. ArchivesSent'
  BY Zenon DEF ArchivesSent, Remote, Away, Rows
<1> QED BY <1>1, <1>2, <1>3, Zenon

LEMMA NilPartialKept ==
  ASSUME Bal!BalanceAssumption, BalanceInv, NEW s \in Bal!Source, Bal!NilPartial(s)
  PROVE  BalanceInv'
<1>1. /\ phase = "prepare" /\ phase' = phase /\ UNCHANGED <<clientCache, shards, partials, archives, pc, partialsByDest>>
      /\ pc[s] = "mkdir" /\ index[s] \in Bal!Dest /\ Rows(s, index[s]) = {}
      /\ index' = [index EXCEPT ![s] = @ + 1]
  BY Zenon DEF Bal!NilPartial, Rows
<1>2. /\ PrepareControl /\ NamesApart /\ DirsMade /\ ArchivesSent /\ Entered
      /\ LoadInv' /\ MergeDirsInv' /\ ShardsInv'
  BY <1>1, PrepareFrame, Zenon
<1>3. /\ index'[s] = index[s] + 1 /\ index[s] \in Nat /\ Bal!Dest \subseteq Nat
      /\ \A r \in Bal!Source : r # s => index'[r] = index[r]
  BY <1>1, <1>2, BalanceSets DEF PrepareControl
<1>4. PrepareControl'
  BY <1>1, <1>2, BalanceSets DEF PrepareControl
<1>5. ASSUME NEW r \in Bal!Source, NEW c \in Bal!Dest
      PROVE  Made(r, c)' = Made(r, c) /\ Finished(r, c)' = Finished(r, c) /\ Copying(r, c)' = Copying(r, c)
  BY <1>1, <1>3, <1>5 DEF Made, Finished, Copying
<1>6. NamesApart' /\ DirsMade' /\ ArchivesSent'
  BY <1>1, <1>2, <1>5, SameMade, Zenon
<1>7. Entered'
  BY <1>1, <1>2, Zenon DEF Entered
<1> QED BY <1>2, <1>4, <1>6, <1>7, Zenon DEF BalanceInv, PrepareInv

LEMMA MakePartialDirKept ==
  ASSUME Bal!BalanceAssumption, BalanceInv, NEW s \in Bal!Source, Bal!MakePartialDir(s)
  PROVE  BalanceInv'
<1> DEFINE e == index[s]
<1>1. /\ phase = "prepare" /\ e \in Bal!Dest /\ Rows(s, e) # {} /\ pc[s] = "mkdir"
      /\ IF Local(s, e) \in DOMAIN partials THEN Bal!Fatal
         ELSE /\ partials' = Bal!Put(partials, Local(s, e), {}) /\ pc' = [pc EXCEPT ![s] = "copy"]
              /\ UNCHANGED <<phase, clientCache, workDirs, archives, index, partialsByDest, shards>>
  BY Zenon DEF Bal!MakePartialDir, Bal!PrepareStep, Rows, Local
<1> HIDE DEF e
<1>2. CASE Local(s, e) \in DOMAIN partials
  BY <1>1, <1>2, BalanceOutside, Zenon
<1>3. CASE Local(s, e) \notin DOMAIN partials
  <2>1. /\ partials' = Bal!Put(partials, Local(s, e), {}) /\ pc' = [pc EXCEPT ![s] = "copy"]
        /\ UNCHANGED <<phase, clientCache, archives, index, partialsByDest, shards>>
    BY <1>1, <1>3, Zenon
  <2>2. /\ PrepareControl /\ NamesApart /\ DirsMade /\ ArchivesSent /\ Entered
        /\ LoadInv' /\ MergeDirsInv' /\ ShardsInv'
    BY <1>1, <2>1, PrepareFrame, Zenon
  <2>3. PrepareControl'
    BY <1>1, <2>1, <2>2, Zenon DEF PrepareControl, e, Rows, Away
  <2>4. pc'[s] = "copy" /\ \A r \in Bal!Source : r # s => pc'[r] = pc[r]
    BY <2>1, <2>2, Zenon DEF PrepareControl
  <2>5. ASSUME NEW r \in Bal!Source, NEW c \in Bal!Dest
        PROVE  /\ Made(r, c)' <=> (Made(r, c) \/ (r = s /\ c = e))
               /\ Finished(r, c)' <=> Finished(r, c)
               /\ Copying(r, c)' <=> (Copying(r, c) \/ (r = s /\ c = e))
    BY <1>1, <2>1, <2>4, Zenon DEF Made, Finished, Copying, Rows, e
  <2>6. ~Made(s, e) /\ \A r \in Bal!Source : \A c \in Bal!Dest : Made(r, c) =>
          Local(r, c) # Local(s, e) /\ Local(r, c) \in DOMAIN partials
    <3>1. index[s] \in Nat
      BY <2>2 DEF PrepareControl
    <3> QED BY <1>1, <1>3, <2>2, <3>1, Zenon DEF DirsMade, Made, Finished, e
  <2>7. NamesApart'
    BY <2>5, <2>6, <2>2 DEF NamesApart
  <2>8. DirsMade'
    <3>1. /\ DOMAIN partials' = DOMAIN partials \cup {Local(s, e)} /\ partials'[Local(s, e)] = {}
          /\ \A x \in DOMAIN partials : x # Local(s, e) => partials'[x] = partials[x]
      BY <2>1, Zenon DEF Bal!Put
    <3> QED BY <2>5, <2>6, <2>2, <3>1, Zenon DEF DirsMade
  <2>9. ArchivesSent' /\ Entered'
    <3>1. ArchivesSent'
      BY <2>1, <2>2, <2>5, Zenon DEF ArchivesSent
    <3>2. ASSUME NEW r \in Bal!Source
          PROVE  pc'[r] = "done" <=> pc[r] = "done"
      BY <1>1, <2>4, Zenon
    <3>3. Entered'
      BY <2>1, <2>2, <3>2, Zenon DEF Entered
    <3> QED BY <3>1, <3>3, Zenon
  <2> QED BY <2>2, <2>3, <2>7, <2>8, <2>9, Zenon DEF BalanceInv, PrepareInv
<1> QED BY <1>2, <1>3, Zenon

(* The last command for a partial: cp on one host, scp between two.         *)
LEMMA CopyFilesKept ==
  ASSUME Bal!BalanceAssumption, BalanceInv, NEW s \in Bal!Source, Bal!CopyFiles(s)
  PROVE  BalanceInv'
<1> DEFINE e == index[s]
<1>1. /\ phase = "prepare" /\ e \in Bal!Dest /\ Rows(s, e) # {} /\ pc[s] = "copy"
      /\ partials' = [partials EXCEPT ![Local(s, e)] = @ \cup Rows(s, e)]
      /\ UNCHANGED <<phase, clientCache, archives, partialsByDest, shards>>
      /\ \/ ~Away(s, e) /\ pc' = [pc EXCEPT ![s] = "mkdir"] /\ index' = [index EXCEPT ![s] = e + 1]
         \/ Away(s, e) /\ pc' = [pc EXCEPT ![s] = "send"] /\ UNCHANGED index
  BY Zenon DEF Bal!CopyFiles, Bal!PrepareStep, Rows, Local, Away
<1>2. /\ PrepareControl /\ NamesApart /\ DirsMade /\ ArchivesSent /\ Entered
      /\ LoadInv' /\ MergeDirsInv' /\ ShardsInv'
  BY <1>1, PrepareFrame, Zenon
<1>3. /\ e \in Nat /\ Bal!Dest = 1..Len(dests) /\ Len(dests) \in Nat
      /\ \A r \in Bal!Source : r # s => pc'[r] = pc[r] /\ index'[r] = index[r]
      /\ \/ ~Away(s, e) /\ pc'[s] = "mkdir" /\ index'[s] = e + 1
         \/ Away(s, e) /\ pc'[s] = "send" /\ index'[s] = e
  BY <1>1, <1>2, BalanceSets DEF PrepareControl
<1>4. PrepareControl'
  <2>1. /\ index' \in [Bal!Source -> 1..(Len(dests) + 1)]
        /\ pc' \in [Bal!Source -> {"mkdir", "copy", "send", "done"}]
    BY <1>1, <1>2, <1>3 DEF PrepareControl
  <2>2. ASSUME NEW r \in Bal!Source
        PROVE  /\ pc'[r] \in {"copy", "send"} => index'[r] \in Bal!Dest /\ Rows(r, index'[r]) # {}
               /\ pc'[r] = "send" => Away(r, index'[r])
               /\ pc'[r] = "done" => index'[r] = Len(dests) + 1
    <3>1. CASE r = s
      BY <1>1, <1>3, <3>1, Zenon
    <3>2. CASE r # s
      BY <1>2, <1>3, <3>2, Zenon DEF PrepareControl
    <3> QED BY <3>1, <3>2, Zenon
  <2> QED BY <2>1, <2>2, Zenon DEF PrepareControl, Rows, Away
<1>5. ASSUME NEW r \in Bal!Source, NEW c \in Bal!Dest
      PROVE  /\ Made(r, c)' <=> Made(r, c)
             /\ Finished(r, c)' => Finished(r, c) \/ (r = s /\ c = e /\ ~Away(r, c))
             /\ Copying(r, c)' <=> (Copying(r, c) /\ ~(r = s /\ c = e))
             /\ Copying(s, e) /\ Made(s, e)
  <2>1. Copying(s, e) /\ Made(s, e)
    BY <1>1, <1>3 DEF Made, Copying, Rows
  <2>2. CASE r # s
    BY <1>3, <2>1, <2>2, Zenon DEF Made, Finished, Copying, Rows
  <2>3. CASE r = s
    <3>1. Made(s, c)' <=> Made(s, c)
      BY <1>1, <1>3 DEF Made, Finished, Rows
    <3>2. Finished(s, c)' => Finished(s, c) \/ (c = e /\ ~Away(s, c))
      BY <1>1, <1>3 DEF Finished, Rows
    <3>3. Copying(s, c)' <=> (Copying(s, c) /\ c # e)
      BY <1>1, <1>3 DEF Copying
    <3> QED BY <2>1, <2>3, <3>1, <3>2, <3>3, Zenon
  <2> QED BY <2>2, <2>3, Zenon
<1> HIDE DEF e
<1>6. NamesApart'
  BY <1>2, <1>5, Zenon DEF NamesApart
<1>7. DirsMade'
  <2>1. Local(s, e) \in DOMAIN partials /\ partials[Local(s, e)] = {}
    BY <1>1, <1>2, <1>5, Zenon DEF DirsMade
  <2>2. /\ DOMAIN partials' = DOMAIN partials /\ partials'[Local(s, e)] = Rows(s, e)
        /\ \A x \in DOMAIN partials : x # Local(s, e) => partials'[x] = partials[x]
    BY <1>1, <2>1, Zenon
  <2>3. ASSUME NEW r \in Bal!Source, NEW c \in Bal!Dest, Made(r, c), ~(r = s /\ c = e)
        PROVE  Local(r, c) # Local(s, e)
    BY <1>1, <1>2, <1>5, <2>3, Zenon DEF NamesApart
  <2> QED BY <1>1, <1>2, <1>5, <2>2, <2>3 DEF DirsMade
<1>8. ArchivesSent'
  BY <1>1, <1>2, <1>5, Zenon DEF ArchivesSent
<1>9. Entered'
  BY <1>1, <1>2, <1>3, Zenon DEF Entered
<1> QED BY <1>2, <1>4, <1>6, <1>7, <1>8, <1>9, Zenon DEF BalanceInv, PrepareInv

LEMMA SendArchiveKept ==
  ASSUME Bal!BalanceAssumption, BalanceInv, NEW s \in Bal!Source, Bal!SendArchive(s)
  PROVE  BalanceInv'
<1> DEFINE e == index[s]
<1>1. /\ phase = "prepare" /\ e \in Bal!Dest /\ Rows(s, e) # {} /\ pc[s] = "send"
      /\ archives' = Bal!Put(archives, Remote(s, e), partials[Local(s, e)])
      /\ pc' = [pc EXCEPT ![s] = "mkdir"] /\ index' = [index EXCEPT ![s] = e + 1]
      /\ UNCHANGED <<phase, clientCache, partials, partialsByDest, shards>>
  BY Zenon DEF Bal!SendArchive, Bal!PrepareStep, Rows, Local, Remote
<1>2. /\ PrepareControl /\ NamesApart /\ DirsMade /\ ArchivesSent /\ Entered
      /\ LoadInv' /\ MergeDirsInv' /\ ShardsInv'
  BY <1>1, PrepareFrame, Zenon
<1>3. /\ e \in Nat /\ Bal!Dest = 1..Len(dests) /\ Len(dests) \in Nat
      /\ \A r \in Bal!Source : r # s => pc'[r] = pc[r] /\ index'[r] = index[r]
      /\ pc'[s] = "mkdir" /\ index'[s] = e + 1
  <2>1. /\ \A r \in Bal!Source : r # s => pc'[r] = pc[r] /\ index'[r] = index[r]
        /\ pc'[s] = "mkdir" /\ index'[s] = e + 1
    BY <1>1, <1>2, Zenon DEF PrepareControl
  <2>2. Bal!Dest = 1..Len(dests) /\ Len(dests) \in Nat
    BY BalanceSets
  <2>3. e \in Nat
    BY <1>1, <2>2
  <2> QED BY <2>1, <2>2, <2>3, Zenon
<1>4. PrepareControl'
  <2>1. /\ index' \in [Bal!Source -> 1..(Len(dests) + 1)]
        /\ pc' \in [Bal!Source -> {"mkdir", "copy", "send", "done"}]
    BY <1>1, <1>2, <1>3 DEF PrepareControl
  <2> QED BY <1>1, <1>2, <1>3, <2>1, Zenon DEF PrepareControl, Rows, Away
<1>5. ASSUME NEW r \in Bal!Source, NEW c \in Bal!Dest
      PROVE  /\ Made(r, c)' <=> Made(r, c)
             /\ Finished(r, c)' => Finished(r, c) \/ (r = s /\ c = e)
             /\ Copying(r, c)' <=> Copying(r, c)
             /\ ~Copying(s, e) /\ Made(s, e) /\ ~Finished(s, e)
  BY <1>1, <1>3 DEF Made, Finished, Copying, Rows
<1> HIDE DEF e
<1>6. NamesApart'
  BY <1>2, <1>5, Zenon DEF NamesApart
<1>7. DirsMade'
  BY <1>1, <1>2, <1>5, Zenon DEF DirsMade
<1>8. ArchivesSent'
  <2>1. partials[Local(s, e)] = Rows(s, e)
    BY <1>1, <1>2, <1>5, Zenon DEF DirsMade
  <2>2. /\ DOMAIN archives' = DOMAIN archives \cup {Remote(s, e)} /\ archives'[Remote(s, e)] = Rows(s, e)
        /\ \A x \in DOMAIN archives : x # Remote(s, e) => archives'[x] = archives[x]
    BY <1>1, <2>1, Zenon DEF Bal!Put
  <2>3. ASSUME NEW r \in Bal!Source, NEW c \in Bal!Dest, Finished(r, c)
        PROVE  Remote(r, c) # Remote(s, e)
    <3>1. Made(r, c) /\ ~(r = s /\ c = e)
      BY <1>5, <2>3, Zenon DEF Made
    <3>2. Local(r, c) # Local(s, e)
      BY <1>1, <1>2, <1>5, <3>1, Zenon DEF NamesApart
    <3> QED BY <1>1, <3>2, Names, Zenon
  <2> QED BY <1>2, <1>5, <2>2, <2>3, Zenon DEF ArchivesSent
<1>9. Entered'
  BY <1>1, <1>2, <1>3, Zenon DEF Entered
<1> QED BY <1>2, <1>4, <1>6, <1>7, <1>8, <1>9, Zenon DEF BalanceInv, PrepareInv

LEMMA PreparedKept ==
  ASSUME Bal!BalanceAssumption, BalanceInv, NEW s \in Bal!Source, Bal!Prepared(s)
  PROVE  BalanceInv'
<1>1. /\ phase = "prepare" /\ phase' = phase /\ UNCHANGED <<clientCache, shards, partials, archives, index>>
      /\ pc[s] = "mkdir" /\ index[s] = Len(dests) + 1 /\ pc' = [pc EXCEPT ![s] = "done"]
      /\ partialsByDest' = [d \in Bal!Dest |-> IF Rows(s, d) # {} THEN partialsByDest[d] \cup {s}
                                               ELSE partialsByDest[d]]
  BY Zenon DEF Bal!Prepared, Rows
<1>2. /\ PrepareControl /\ NamesApart /\ DirsMade /\ ArchivesSent /\ Entered
      /\ LoadInv' /\ MergeDirsInv' /\ ShardsInv'
  BY <1>1, PrepareFrame, Zenon
<1>3. pc'[s] = "done" /\ \A r \in Bal!Source : r # s => pc'[r] = pc[r]
  BY <1>1, <1>2, Zenon DEF PrepareControl
<1>4. PrepareControl'
  BY <1>1, <1>2, <1>3, Zenon DEF PrepareControl
<1>5. ASSUME NEW r \in Bal!Source, NEW c \in Bal!Dest
      PROVE  Made(r, c)' = Made(r, c) /\ Finished(r, c)' = Finished(r, c) /\ Copying(r, c)' = Copying(r, c)
  BY <1>1, <1>3, Zenon DEF Made, Finished, Copying
<1>6. NamesApart' /\ DirsMade' /\ ArchivesSent'
  BY <1>1, <1>2, <1>5, SameMade, Zenon
<1>7. Entered'
  <2>1. ASSUME NEW d \in Bal!Dest
        PROVE  partialsByDest'[d] = {r \in Bal!Source : pc'[r] = "done" /\ Rows(r, d) # {}}
    BY <1>1, <1>2, <1>3, Zenon DEF Entered
  <2> QED BY <1>1, <2>1, Zenon DEF Entered, Rows
<1> QED BY <1>2, <1>4, <1>6, <1>7, Zenon DEF BalanceInv, PrepareInv

(* When the WaitGroup lets balance go on, every partial is complete.        *)
LEMMA WaitSourcesKept ==
  ASSUME Bal!BalanceAssumption, BalanceInv, Bal!WaitSources
  PROVE  BalanceInv'
<1>1. /\ phase = "prepare" /\ phase' = "merge" /\ pc' = [d \in Bal!Dest |-> "extract"]
      /\ \A s \in Bal!Source : pc[s] = "done"
      /\ UNCHANGED <<clientCache, partials, archives, index, partialsByDest, shards>>
  BY Zenon DEF Bal!WaitSources
<1>2. PrepareControl /\ NamesApart /\ DirsMade /\ ArchivesSent /\ Entered /\ ShardsInv
  BY <1>1, Zenon DEF BalanceInv, PrepareInv
<1>3. ASSUME NEW s \in Bal!Source, NEW d \in Bal!Dest, Rows(s, d) # {}
      PROVE  Finished(s, d) /\ Made(s, d) /\ ~Copying(s, d)
  BY <1>1, <1>2, <1>3, BalanceSets DEF PrepareControl, Made, Finished, Copying
<1>4. partialsByDest' = [d \in Bal!Dest |-> Wanted(d)]
  BY <1>1, <1>2, Zenon DEF Entered, Wanted
<1>5. MergeDirsInv'
  <2>1. ASSUME NEW d \in Bal!Dest, NEW s \in Wanted(d)
        PROVE  /\ Local(s, d) \in DOMAIN partials /\ partials[Local(s, d)] = Rows(s, d)
               /\ Away(s, d) => archives[Remote(s, d)] = Rows(s, d)
    BY <1>2, <1>3, <2>1, Zenon DEF Wanted, DirsMade, ArchivesSent
  <2> QED BY <1>1, <1>4, <2>1, Zenon DEF MergeDirsInv, Wanted, Local, Remote, Away, Rows
<1>6. LoadInv' /\ PrepareInv'
  BY <1>1, Zenon DEF LoadInv, PrepareInv
<1>7. ShardsInv'
  <2>1. Bal!CachesRead'
    BY <1>1, <1>2, Zenon DEF ShardsInv, Bal!CachesRead
  <2> QED BY <1>1, <1>2, <2>1, Zenon DEF ShardsInv
<1> QED BY <1>5, <1>6, <1>7, Zenon DEF BalanceInv

LEMMA ExtractKept ==
  ASSUME Bal!BalanceAssumption, BalanceInv, NEW d \in Bal!Dest, Bal!Extract(d)
  PROVE  BalanceInv'
<1> DEFINE names == {Remote(s, d) : s \in {r \in Wanted(d) : Away(r, d)}}
<1>1. /\ phase = "merge" /\ pc[d] = "extract" /\ MergeDirsInv /\ ShardsInv
      /\ pc' = [pc EXCEPT ![d] = "merge"]
      /\ UNCHANGED <<phase, clientCache, archives, partialsByDest, shards>>
  BY Zenon DEF Bal!Extract, BalanceInv
<1>2. /\ pc \in [Bal!Dest -> {"extract", "merge", "done"}] /\ partialsByDest = [c \in Bal!Dest |-> Wanted(c)]
      /\ \A c \in Bal!Dest : \A s \in Wanted(c) :
           /\ Local(s, c) \in DOMAIN partials /\ partials[Local(s, c)] = Rows(s, c)
           /\ Away(s, c) => archives[Remote(s, c)] = Rows(s, c)
           /\ Away(s, c) /\ pc[c] # "extract" => Remote(s, c) \in DOMAIN partials /\ partials[Remote(s, c)] = Rows(s, c)
  BY <1>1, Zenon DEF MergeDirsInv
<1>3. partials' = [x \in DOMAIN partials \cup names |-> IF x \in names THEN archives[x] ELSE partials[x]]
  <2>1. partialsByDest[d] = Wanted(d)
    BY <1>2, Zenon
  <2> QED BY <2>1, Zenon DEF Bal!Extract, Remote, Away
<1>4. pc'[d] = "merge" /\ pc' \in [Bal!Dest -> {"extract", "merge", "done"}]
      /\ \A c \in Bal!Dest : c # d => pc'[c] = pc[c]
  BY <1>1, <1>2, Zenon
<1>5. ASSUME NEW c \in Bal!Dest, NEW s \in Wanted(c)
      PROVE  Local(s, c) \in DOMAIN partials' /\ partials'[Local(s, c)] = Rows(s, c)
  <2>1. Local(s, c) \notin names
    BY Names DEF Wanted
  <2> HIDE DEF names
  <2> QED BY <1>2, <1>3, <2>1, Zenon
<1>6. ASSUME NEW c \in Bal!Dest, NEW s \in Wanted(c), Away(s, c), pc'[c] # "extract"
      PROVE  Remote(s, c) \in DOMAIN partials' /\ partials'[Remote(s, c)] = Rows(s, c)
  <2>1. c = d => Remote(s, c) \in names
    BY <1>6, Zenon
  <2> HIDE DEF names
  <2>2. CASE Remote(s, c) \in names
    BY <1>2, <1>3, <1>6, <2>2, Zenon
  <2>3. CASE Remote(s, c) \notin names
    <3>1. pc[c] # "extract"
      BY <1>4, <1>6, <2>1, <2>3, Zenon
    <3> QED BY <1>2, <1>3, <1>6, <2>3, <3>1, Zenon
  <2> QED BY <2>2, <2>3, Zenon
<1>7. MergeDirsInv'
  BY <1>1, <1>2, <1>4, <1>5, <1>6, ZenonT(40) DEF MergeDirsInv, Wanted, Local, Remote, Away, Rows
<1>8. ShardsInv'
  <2>1. Bal!CachesRead'
    BY <1>1, Zenon DEF ShardsInv, Bal!CachesRead
  <2> QED BY <1>1, <1>4, <2>1, Zenon DEF ShardsInv, Due, Rows
<1>9. LoadInv' /\ PrepareInv'
  BY <1>1, Zenon DEF LoadInv, PrepareInv
<1> QED BY <1>7, <1>8, <1>9, Zenon DEF BalanceInv

(* What merge is given is what the sources have for the destination.        *)
LEMMA MergedRows ==
  ASSUME Bal!BalanceAssumption, BalanceInv, NEW d \in Bal!Dest, Bal!MergeDBs(d), partialsByDest[d] # {}
  PROVE  /\ shards' = [shards EXCEPT ![d] = Due(d)] /\ pc' = [pc EXCEPT ![d] = "done"]
         /\ UNCHANGED <<phase, clientCache, partials, archives, partialsByDest>>
<1>1. /\ phase = "merge" /\ pc[d] = "merge" /\ pc' = [pc EXCEPT ![d] = "done"]
      /\ shards' = [shards EXCEPT ![d] = UNION {partials[Remote(s, d)] : s \in partialsByDest[d]}]
      /\ UNCHANGED <<phase, clientCache, partials, archives, partialsByDest>>
  BY Zenon DEF Bal!MergeDBs, Remote
<1>2. /\ partialsByDest[d] = Wanted(d)
      /\ \A s \in Wanted(d) : /\ partials[Local(s, d)] = Rows(s, d)
                              /\ Away(s, d) => partials[Remote(s, d)] = Rows(s, d)
  BY <1>1, Zenon DEF BalanceInv, MergeDirsInv
<1>3. ASSUME NEW s \in Wanted(d)
      PROVE  partials[Remote(s, d)] = Rows(s, d)
  <2>1. ~Away(s, d) => Remote(s, d) = Local(s, d)
    BY Zenon DEF Away, Remote, Local
  <2> QED BY <1>2, <2>1, Zenon
<1>4. UNION {partials[Remote(s, d)] : s \in Wanted(d)} = Due(d)
  BY <1>3, Zenon DEF Due, Wanted
<1> QED BY <1>1, <1>2, <1>4, Zenon

LEMMA DueRows ==
  ASSUME NEW d \in Bal!Dest
  PROVE  Due(d) \subseteq Bal!AllRows
BY RowsOf DEF Due, Bal!AllRows

LEMMA MergeDBsKept ==
  ASSUME Bal!BalanceAssumption, BalanceInv, NEW d \in Bal!Dest, Bal!MergeDBs(d)
  PROVE  BalanceInv'
<1>1. CASE partialsByDest[d] = {}
  BY <1>1, BalanceOutside, Zenon DEF Bal!MergeDBs
<1>2. CASE partialsByDest[d] # {}
  <2>1. /\ shards' = [shards EXCEPT ![d] = Due(d)] /\ pc' = [pc EXCEPT ![d] = "done"]
        /\ UNCHANGED <<phase, clientCache, partials, archives, partialsByDest>>
    BY <1>2, MergedRows, Zenon
  <2>2. phase = "merge" /\ MergeDirsInv /\ ShardsInv /\ pc[d] = "merge"
    BY Zenon DEF Bal!MergeDBs, BalanceInv
  <2>3. /\ pc' \in [Bal!Dest -> {"extract", "merge", "done"}] /\ \A c \in Bal!Dest : c # d => pc'[c] = pc[c]
    BY <2>1, <2>2, Zenon DEF MergeDirsInv
  <2>4. MergeDirsInv'
    BY <2>1, <2>2, <2>3, Zenon DEF MergeDirsInv, Wanted, Local, Remote, Away, Rows
  <2>5. ShardsInv'
    <3>1. Bal!CachesRead'
      BY <2>1, <2>2, Zenon DEF ShardsInv, Bal!CachesRead
    <3>2. shards' \in [Bal!Dest -> SUBSET Bal!AllRows]
      BY <2>1, <2>2, DueRows, Zenon DEF ShardsInv
    <3>3. \A c \in Bal!Dest : pc'[c] = "done" => shards'[c] = Due(c)
      BY <2>1, <2>2, <2>3, Zenon DEF ShardsInv
    <3> QED BY <2>1, <2>2, <3>1, <3>2, <3>3, Zenon DEF ShardsInv, Due, Rows, Bal!AllRows
  <2>6. LoadInv' /\ PrepareInv'
    BY <2>1, <2>2, Zenon DEF LoadInv, PrepareInv
  <2> QED BY <2>4, <2>5, <2>6, Zenon DEF BalanceInv
<1> QED BY <1>1, <1>2, Zenon

LEMMA BalanceStepInv ==
  ASSUME Bal!BalanceAssumption, BalanceInv, [Bal!Next]_(Bal!vars)
  PROVE  BalanceInv'
BY BalanceOutside, NilPartialKept, MakePartialDirKept, CopyFilesKept, SendArchiveKept, PreparedKept, Zenon,
   WaitSourcesKept, ExtractKept, MergeDBsKept DEF Bal!Next, Bal!CommandFails

LEMMA BalanceInvariant ==
  ASSUME Bal!BalanceAssumption
  PROVE  Bal!Spec => []BalanceInv
<1>1. Bal!Init => BalanceInv
  BY BalanceInitInv, Zenon
<1>2. BalanceInv /\ [Bal!Next]_(Bal!vars) => BalanceInv'
  BY BalanceStepInv, Zenon
<1> QED BY <1>1, <1>2, PTL DEF Bal!Spec

(* An interval has one destination.                                         *)
LEMMA DestOfInterval ==
  ASSUME Bal!BalanceAssumption, NEW t \in Nat
  PROVE  Bal!DestOf(t) \in Bal!Dest /\ t % Len(dests) = Bal!DestOf(t) - 1
<1>1. t % Len(dests) \in 0..(Len(dests) - 1)
  BY BalanceSets
<1> QED BY <1>1, BalanceSets DEF Bal!DestOf

(* balance.go: when balance reports success every row of the sources is in  *)
(* the shard of the destination its interval is dealt to and in no other,   *)
(* however many sources and destinations there are, on whatever hosts; and  *)
(* the goroutines find every connection opened.                             *)
THEOREM BalanceExact ==
  ASSUME Bal!BalanceAssumption
  PROVE  Bal!Spec => [](Bal!BalancedExactly /\ Bal!CachesRead)
<1>1. ASSUME BalanceInv
      PROVE  Bal!BalancedExactly /\ Bal!CachesRead
  <2>1. Bal!CachesRead
    BY <1>1, Zenon DEF BalanceInv, ShardsInv
  <2>2. ASSUME phase = "done", NEW d \in Bal!Dest, NEW q
        PROVE  (q \in shards[d]) <=> (\E s \in Bal!Source : \E t \in sources[s].intervals :
                                        q = <<s, t>> /\ Bal!DestOf(t) = d)
    <3>1. shards[d] = Due(d)
      BY <1>1, <2>2, Zenon DEF BalanceInv, ShardsInv
    <3> QED BY <3>1, RowsOf DEF Due
  <2>3. ASSUME phase = "done", NEW d \in Bal!Dest, NEW q \in shards[d]
        PROVE  q[2] \in Nat /\ Bal!DestOf(q[2]) = d
    <3>1. PICK s \in Bal!Source : \E t \in sources[s].intervals : q = <<s, t>> /\ Bal!DestOf(t) = d
      BY <2>2, <2>3, Zenon
    <3> QED BY <3>1, BalanceSets
  <2>4. ASSUME phase = "done"
        PROVE  UNION {shards[d] : d \in Bal!Dest} = Bal!AllRows
    <3>1. ASSUME NEW s \in Bal!Source, NEW t \in sources[s].intervals
          PROVE  Bal!DestOf(t) \in Bal!Dest
      BY BalanceSets, DestOfInterval, Zenon
    <3>2. ASSUME NEW q
          PROVE  (q \in UNION {shards[d] : d \in Bal!Dest})
                 <=> (\E s \in Bal!Source : \E t \in sources[s].intervals : q = <<s, t>>)
      BY <2>2, <2>4, <3>1
    <3>3. ASSUME NEW q
          PROVE  (q \in Bal!AllRows) <=> (\E s \in Bal!Source : \E t \in sources[s].intervals : q = <<s, t>>)
      BY DEF Bal!AllRows
    <3> QED BY <3>2, <3>3, Zenon
  <2>5. ASSUME phase = "done", NEW c \in Bal!Dest, NEW d \in Bal!Dest, c # d, NEW r \in shards[c], NEW q \in shards[d]
        PROVE  r[2] # q[2]
    BY <2>3, <2>5, Zenon
  <2>6. ASSUME phase = "done", NEW d \in Bal!Dest, NEW q \in shards[d]
        PROVE  q[2] % Len(dests) = d - 1
    BY <2>3, <2>6, DestOfInterval, Zenon
  <2> QED BY <2>1, <2>4, <2>5, <2>6, Zenon DEF Bal!BalancedExactly
<1> QED BY <1>1, BalanceInvariant, PTL

(* balance.go: whatever the order of the goroutines and the hosts they work *)
(* on, a destination is merged from complete partials, and from all.        *)
THEOREM PartialsMergedComplete ==
  ASSUME Bal!BalanceAssumption
  PROVE  Bal!Spec => [][Bal!PartialsComplete]_(Bal!vars)
<1>1. ASSUME BalanceInv, [Bal!Next]_(Bal!vars)
      PROVE  [Bal!PartialsComplete]_(Bal!vars)
  <2> SUFFICES ASSUME NEW d \in Bal!Dest, phase = "merge", shards'[d] # shards[d]
               PROVE  shards'[d] = Due(d)
    BY Zenon DEF Bal!PartialsComplete, Due, Rows
  <2>1. PICK c \in Bal!Dest : Bal!MergeDBs(c)
    BY <1>1, Zenon DEF Bal!Next, Bal!vars, Bal!Load, Bal!MakeWorkDirs, Bal!WaitSources, Bal!RemoveWorkDirs, Bal!CommandFails,
       Bal!Fatal, Bal!Returned, Bal!NilPartial, Bal!MakePartialDir, Bal!PrepareStep, Bal!CopyFiles, Bal!SendArchive,
       Bal!Prepared, Bal!Extract
  <2>2. partialsByDest[c] # {}
    BY <2>1, Zenon DEF Bal!MergeDBs, Bal!Fatal
  <2>3. shards' = [shards EXCEPT ![c] = Due(c)]
    BY <1>1, <2>1, <2>2, MergedRows, Zenon
  <2>4. shards \in [Bal!Dest -> SUBSET Bal!AllRows]
    BY <1>1, Zenon DEF BalanceInv, ShardsInv
  <2> QED BY <2>3, <2>4, Zenon
<1> QED BY <1>1, BalanceInvariant, PTL DEF Bal!Spec
=============================================================================
