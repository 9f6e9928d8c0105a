--------------------------- MODULE ScanPoolProofs ---------------------------
(***************************************************************************)
(* The result of a query is whole, and the pool of workers is sound, for   *)
(* any number of queries, workers and intervals.  First how each step      *)
(* changes the number of workers that hold a request of a query, and that  *)
(* still have the partial of an interval.                                  *)
(***************************************************************************)
EXTENDS ScanPool, FiniteSetTheorems, TLAPS

USE DEF clientVars, scanVars, dbVars

LEMMA HoldingFinite ==
  ASSUME NEW q
  PROVE  IsFiniteSet(Holding(q)) /\ Cardinality(Holding(q)) \in Nat
<1>1. Holding(q) \subseteq Workers
  BY Zenon DEF Holding
<1> QED BY <1>1, PoolAssumption, FS_Subset, FS_CardinalityType, Zenon

LEMMA AtFinite ==
  ASSUME NEW q, NEW i, NEW pc
  PROVE  IsFiniteSet(At(q, i, pc)) /\ Cardinality(At(q, i, pc)) \in Nat
<1>1. At(q, i, pc) \subseteq Workers
  BY Zenon DEF At
<1> QED BY <1>1, PoolAssumption, FS_Subset, FS_CardinalityType, Zenon

(* A worker is between requests, gone, or holds a request of some query.    *)
LEMMA WorkerCases ==
  ASSUME TypeOK, NEW w \in Workers
  PROVE  \/ worker[w] = Selecting \/ worker[w] = Gone
         \/ /\ worker[w].pc \in {"scan", "finish"} /\ worker[w].query \in Queries
            /\ worker[w].interval \in Intervals
            /\ worker[w] = [pc |-> worker[w].pc, query |-> worker[w].query,
                            interval |-> worker[w].interval]
BY Zenon DEF TypeOK, Busy

LEMMA IdlePc == Selecting.pc = "select" /\ Gone.pc = "gone"
BY Zenon DEF Selecting, Gone

(* The numbers the invariants talk about.                                   *)
NHolding(q) == Cardinality(Holding(q))

NScan(q, i) == Cardinality(At(q, i, "scan"))

LEMMA CountsAreNat ==
  /\ \A q \in Queries : NHolding(q) \in Nat /\ (NHolding(q) = 0 <=> Holding(q) = {})
  /\ \A q \in Queries, i \in Intervals :
        NScan(q, i) \in Nat /\ (NScan(q, i) = 0 <=> At(q, i, "scan") = {})
BY HoldingFinite, AtFinite, FS_EmptySet, Zenon DEF NHolding, NScan

(* Steps that leave the workers alone leave the counts alone.               *)
LEMMA SameWorkers ==
  ASSUME UNCHANGED worker
  PROVE  /\ \A q \in Queries : NHolding(q)' = NHolding(q) /\ Holding(q)' = Holding(q)
         /\ \A q \in Queries, i \in Intervals : NScan(q, i)' = NScan(q, i)
BY Zenon DEF NHolding, NScan, Holding, At

(* A worker that takes a request is one more that holds one of that query.  *)
LEMMA TakeCounts ==
  ASSUME TypeOK, NEW q \in Queries, NEW w \in Workers, TakeRequest(q, w)
  PROVE  /\ \A p \in Queries : NHolding(p)' = NHolding(p) + (IF p = q THEN 1 ELSE 0)
         /\ \A p \in Queries : p # q => Holding(p)' = Holding(p)
         /\ \A p \in Queries, i \in Intervals :
               NScan(p, i)' = NScan(p, i) + (IF p = q /\ i = sending[q] THEN 1 ELSE 0)
<1>8. PICK j \in Intervals : j = sending[q]
  BY Zenon DEF TypeOK
<1> DEFINE r == [pc |-> "scan", query |-> q, interval |-> j]
<1>1. /\ worker[w] = Selecting /\ worker[w].pc = "select"
      /\ worker'[w] = r /\ r.pc = "scan" /\ r.query = q
      /\ \A v \in Workers : v # w => worker'[v] = worker[v]
  BY <1>8, IdlePc, Zenon DEF TakeRequest, TypeOK
<1>2. Holding(q)' = Holding(q) \cup {w} /\ w \notin Holding(q)
  BY <1>1, Zenon DEF Holding
<1>3. \A p \in Queries : p # q => Holding(p)' = Holding(p)
  BY <1>1, Zenon DEF Holding
<1>4. At(q, j, "scan")' = At(q, j, "scan") \cup {w} /\ w \notin At(q, j, "scan")
  BY <1>1, Zenon DEF At, Selecting, TakeRequest
<1>5. ASSUME NEW p \in Queries, NEW i \in Intervals, ~(p = q /\ i = j)
      PROVE  At(p, i, "scan")' = At(p, i, "scan")
  <2>1. worker'[w] # [pc |-> "scan", query |-> p, interval |-> i]
    BY <1>1, <1>5
  <2>2. worker[w] # [pc |-> "scan", query |-> p, interval |-> i]
    BY <1>1 DEF Selecting
  <2> QED BY <1>1, <2>1, <2>2, Zenon DEF At
<1>6. NHolding(q)' = NHolding(q) + 1
  BY <1>2, HoldingFinite, FS_AddElement, Zenon DEF NHolding
<1>7. NScan(q, j)' = NScan(q, j) + 1
  BY <1>4, AtFinite, FS_AddElement, Zenon DEF NScan
<1>9. \A p \in Queries : NHolding(p)' = NHolding(p) + (IF p = q THEN 1 ELSE 0)
  BY <1>3, <1>6, CountsAreNat DEF NHolding
<1>10. \A p \in Queries, i \in Intervals :
         NScan(p, i)' = NScan(p, i) + (IF p = q /\ i = j THEN 1 ELSE 0)
  <2> TAKE p \in Queries, i \in Intervals
  <2>1. CASE p = q /\ i = j
    BY <2>1, <1>7, Zenon
  <2>2. CASE ~(p = q /\ i = j)
    <3>1. NScan(p, i)' = NScan(p, i)
      BY <2>2, <1>5, Zenon DEF NScan
    <3> QED BY <2>2, <3>1, CountsAreNat
  <2> QED BY <2>1, <2>2, Zenon
<1> QED BY <1>3, <1>8, <1>9, <1>10, Zenon

(* A worker that delivers its partial still holds the request.              *)
LEMMA SendCounts ==
  ASSUME TypeOK, NEW w \in Workers, SendPartial(w)
  PROVE  /\ worker[w].query \in Queries /\ worker[w].interval \in Intervals
         /\ \A p \in Queries : NHolding(p)' = NHolding(p) /\ Holding(p)' = Holding(p)
         /\ w \in Holding(worker[w].query)
         /\ \A p \in Queries, i \in Intervals :
               NScan(p, i)' = NScan(p, i) -
                   (IF p = worker[w].query /\ i = worker[w].interval THEN 1 ELSE 0)
<1>1. PICK q \in Queries, j \in Intervals :
        /\ worker[w].pc = "scan" /\ q = worker[w].query /\ j = worker[w].interval
        /\ worker[w] = [pc |-> "scan", query |-> q, interval |-> j]
  BY WorkerCases, IdlePc, Zenon DEF SendPartial
<1>2. /\ worker'[w].pc = "finish" /\ worker'[w].query = q
      /\ \A v \in Workers : v # w => worker'[v] = worker[v]
  BY <1>1, Zenon DEF SendPartial, TypeOK
<1>3. \A p \in Queries : Holding(p)' = Holding(p)
  <2> TAKE p \in Queries
  <2>1. w \in Holding(p) <=> p = q
    BY <1>1, Zenon DEF Holding
  <2>2. w \in Holding(p)' <=> p = q
    BY <1>2, Zenon DEF Holding
  <2>3. \A v \in Workers : v # w => (v \in Holding(p)' <=> v \in Holding(p))
    BY <1>2, Zenon DEF Holding
  <2>4. Holding(p) \subseteq Workers /\ Holding(p)' \subseteq Workers
    BY Zenon DEF Holding
  <2> QED BY <2>1, <2>2, <2>3, <2>4
<1>8. w \in Holding(q)
  BY <1>1, Zenon DEF Holding
<1>4. At(q, j, "scan")' = At(q, j, "scan") \ {w} /\ w \in At(q, j, "scan")
  BY <1>1, <1>2, Zenon DEF At
<1>5. ASSUME NEW p \in Queries, NEW i \in Intervals, ~(p = q /\ i = j)
      PROVE  At(p, i, "scan")' = At(p, i, "scan")
  <2>1. worker[w] # [pc |-> "scan", query |-> p, interval |-> i]
    BY <1>1, <1>5
  <2>2. worker'[w] # [pc |-> "scan", query |-> p, interval |-> i]
    BY <1>2
  <2> QED BY <1>2, <2>1, <2>2, Zenon DEF At
<1>6. NScan(q, j)' = NScan(q, j) - 1
  BY <1>4, AtFinite, FS_RemoveElement DEF NScan
<1>7. \A p \in Queries, i \in Intervals :
         NScan(p, i)' = NScan(p, i) - (IF p = q /\ i = j THEN 1 ELSE 0)
  <2> TAKE p \in Queries, i \in Intervals
  <2>1. CASE p = q /\ i = j
    BY <2>1, <1>6, Zenon
  <2>2. CASE ~(p = q /\ i = j)
    <3>1. NScan(p, i)' = NScan(p, i)
      BY <2>2, <1>5, Zenon DEF NScan
    <3> QED BY <2>2, <3>1, CountsAreNat
  <2> QED BY <2>1, <2>2, Zenon
<1> QED BY <1>1, <1>3, <1>7, <1>8, Zenon DEF NHolding

(* A worker that calls wg.Done holds nothing any more.                      *)
LEMMA FinishCounts ==
  ASSUME TypeOK, NEW w \in Workers, FinishRequest(w)
  PROVE  /\ worker[w].query \in Queries
         /\ \A p \in Queries : NHolding(p)' = NHolding(p) - (IF p = worker[w].query THEN 1 ELSE 0)
         /\ \A p \in Queries : Holding(p)' \subseteq Holding(p)
         /\ NHolding(worker[w].query) > 0
         /\ \A p \in Queries, i \in Intervals : NScan(p, i)' = NScan(p, i)
<1>1. PICK q \in Queries : q = worker[w].query /\ worker[w].pc = "finish"
  BY WorkerCases, IdlePc, Zenon DEF FinishRequest
<1>2. /\ worker'[w] = Selecting /\ worker'[w].pc = "select"
      /\ \A v \in Workers : v # w => worker'[v] = worker[v]
  BY IdlePc, Zenon DEF FinishRequest, TypeOK
<1>3. Holding(q)' = Holding(q) \ {w} /\ w \in Holding(q)
  BY <1>1, <1>2, Zenon DEF Holding
<1>4. \A p \in Queries : p # q => Holding(p)' = Holding(p)
  BY <1>1, <1>2, Zenon DEF Holding
<1>5. \A p \in Queries, i \in Intervals : At(p, i, "scan")' = At(p, i, "scan")
  <2> TAKE p \in Queries, i \in Intervals
  <2>1. worker[w] # [pc |-> "scan", query |-> p, interval |-> i]
    BY <1>1
  <2>2. worker'[w] # [pc |-> "scan", query |-> p, interval |-> i]
    BY <1>2 DEF Selecting
  <2> QED BY <1>2, <2>1, <2>2, Zenon DEF At
<1>6. NHolding(q)' = NHolding(q) - 1
  BY <1>3, HoldingFinite, FS_RemoveElement, ZenonT(40) DEF NHolding
<1>7. NHolding(q) # 0
  BY <1>1, <1>3, CountsAreNat, Zenon
<1>8. \A p \in Queries : NHolding(p)' = NHolding(p) - (IF p = q THEN 1 ELSE 0)
  BY <1>4, <1>6, CountsAreNat DEF NHolding
<1>9. \A p \in Queries : Holding(p)' \subseteq Holding(p)
  BY <1>3, <1>4, Zenon
<1> QED BY <1>1, <1>5, <1>7, <1>8, <1>9, CountsAreNat DEF NScan

(* A worker leaves only between requests.                                   *)
LEMMA ExitCounts ==
  ASSUME TypeOK, NEW w \in Workers, WorkerExit(w)
  PROVE  /\ \A p \in Queries : NHolding(p)' = NHolding(p) /\ Holding(p)' = Holding(p)
         /\ \A p \in Queries, i \in Intervals : NScan(p, i)' = NScan(p, i)
<1>1. /\ worker[w] = Selecting /\ worker[w].pc = "select"
      /\ worker'[w] = Gone /\ worker'[w].pc = "gone"
      /\ \A v \in Workers : v # w => worker'[v] = worker[v]
  BY IdlePc, Zenon DEF WorkerExit, TypeOK
<1>2. \A p \in Queries : Holding(p)' = Holding(p)
  BY <1>1, Zenon DEF Holding
<1>3. \A p \in Queries, i \in Intervals : At(p, i, "scan")' = At(p, i, "scan")
  BY <1>1 DEF At, Selecting, Gone
<1> QED BY <1>2, <1>3, Zenon DEF NHolding, NScan

(* The invariants need each other: the wait group keeps its type only       *)
(* because it is exact, partialCh is closed safely only because the wait    *)
(* group is exact, and the result is whole only because no worker of the    *)
(* query is left when partialCh is closed.                                  *)
IInv == TypeOK /\ WaitGroupExact /\ NoSendAfterClose /\ PoolInv /\ WholeResult

(* The invariants in terms of the counts.                                   *)
Counted(q) == wg[q] = NHolding(q) + (IF scanner[q] = "send" THEN 1 ELSE 0)

Ordered(q) ==
  /\ scanner[q] = "off" <=> client[q] # "collecting"
  /\ scanner[q] = "wait" => left[q] = {}
  /\ scanner[q] = "send" => sending[q] \in matching[q] \ left[q]
  /\ held[q] = "none" <=> client[q] \in {"idle", "requested"}
  /\ client[q] = "collecting" => left[q] \subseteq TableIntervals(held[q])

Offered(q, i) == IF scanner[q] = "send" /\ sending[q] = i THEN 1 ELSE 0

Visited(q, i) == IF i \in Wanted(q) /\ i \notin left[q] THEN 1 ELSE 0

Placed(q) ==
  client[q] = "collecting" =>
    \A i \in Intervals : got[q][i] + Offered(q, i) + NScan(q, i) = Visited(q, i)

Whole(q) ==
  client[q] = "combined" =>
    got[q] = [i \in Intervals |-> IF i \in Wanted(q) THEN 1 ELSE 0]

QInv(q) == Counted(q) /\ Ordered(q) /\ Placed(q) /\ Whole(q)
           /\ (scanner[q] = "off" => Holding(q) = {})

LEMMA IInvByQuery ==
  /\ IInv <=> TypeOK /\ (\A q \in Queries : QInv(q))
  /\ IInv' <=> TypeOK' /\ (\A q \in Queries : QInv(q)')
BY Zenon DEF IInv, QInv, WaitGroupExact, NoSendAfterClose, PoolInv, WholeResult, Counted, Ordered,
       Placed, Whole, Offered, Visited, NHolding, NScan

(* A step that changes nothing of a query, and none of its counts, keeps    *)
(* what holds of it.                                                        *)
Untouched(q) ==
  /\ client'[q] = client[q] /\ matching'[q] = matching[q] /\ held'[q] = held[q]
  /\ scanner'[q] = scanner[q] /\ left'[q] = left[q] /\ sending'[q] = sending[q]
  /\ wg'[q] = wg[q] /\ got'[q] = got[q]
  /\ NHolding(q)' = NHolding(q) /\ Holding(q)' = Holding(q)
  /\ \A i \in Intervals : NScan(q, i)' = NScan(q, i)

LEMMA UntouchedKeeps ==
  ASSUME NEW q \in Queries, QInv(q), Untouched(q)
  PROVE  QInv(q)'
<1> USE DEF Untouched
<1>1. Wanted(q)' = Wanted(q)
  BY Zenon DEF Wanted, TableIntervals
<1>2. Counted(q)'
  BY Zenon DEF QInv, Counted
<1>3. Ordered(q)'
  BY Zenon DEF QInv, Ordered, TableIntervals
<1>4. Placed(q)'
  BY <1>1, Zenon DEF QInv, Placed, Offered, Visited
<1>5. Whole(q)'
  BY <1>1, Zenon DEF QInv, Whole
<1>6. (scanner[q] = "off" => Holding(q) = {})'
  BY Zenon DEF QInv
<1> QED BY <1>2, <1>3, <1>4, <1>5, <1>6, Zenon DEF QInv

LEMMA InitIInv == Init => IInv
<1> SUFFICES ASSUME Init PROVE IInv
  BY Zenon
<1>1. TypeOK
  BY Zenon DEF Init, TypeOK, Tables, NoPartials
<1>2. \A w \in Workers : worker[w].pc = "select"
  BY IdlePc, Zenon DEF Init
<1>3. \A q \in Queries : Holding(q) = {} /\ NHolding(q) = 0
  BY <1>2, FS_EmptySet, Zenon DEF Holding, NHolding
<1>4. \A q \in Queries : QInv(q)
  BY <1>3 DEF Init, QInv, Counted, Ordered, Placed, Whole
<1> QED BY <1>1, <1>4, IInvByQuery, Zenon

(* Flush, shutdown and the handler's exit touch no query.                   *)
LEMMA CloseKeeps ==
  ASSUME IInv, CloseFlush \/ CloseShutdown \/ HandlerExit \/ UNCHANGED vars
  PROVE  IInv'
<1>1. TypeOK'
  BY Zenon DEF IInv, TypeOK, Tables, CloseFlush, CloseShutdown, HandlerExit, vars
<1>2. UNCHANGED <<clientVars, scanVars, got, worker>>
  BY Zenon DEF CloseFlush, CloseShutdown, HandlerExit, vars
<1>3. \A q \in Queries : Untouched(q)
  BY <1>2, SameWorkers, Zenon DEF Untouched
<1> QED BY <1>1, <1>3, UntouchedKeeps, IInvByQuery, Zenon

LEMMA MakeRequestKeeps ==
  ASSUME IInv, NEW q \in Queries, MakeRequest(q)
  PROVE  IInv'
<1>1. TypeOK'
  BY DEF IInv, TypeOK, MakeRequest
<1>2. \A p \in Queries \ {q} : Untouched(p)
  BY SameWorkers, Zenon DEF MakeRequest, Untouched, IInv, TypeOK
<1>3. /\ client[q] = "idle" /\ client'[q] = "requested"
      /\ QInv(q) /\ UNCHANGED <<scanner, left, sending, wg, held>>
      /\ NHolding(q)' = NHolding(q) /\ Holding(q)' = Holding(q)
  BY SameWorkers, IInvByQuery, Zenon DEF MakeRequest, IInv, TypeOK
<1>4. Ordered(q)'
  BY <1>3, Zenon DEF QInv, Ordered, TableIntervals
<1>5. Counted(q)' /\ Placed(q)' /\ Whole(q)' /\ (scanner[q] = "off" => Holding(q) = {})'
  BY <1>3, Zenon DEF QInv, Counted, Placed, Whole
<1>6. QInv(q)'
  BY <1>4, <1>5, Zenon DEF QInv
<1> QED BY <1>1, <1>2, <1>6, UntouchedKeeps, IInvByQuery, Zenon

(* No worker is left of the client's earlier query, so that the new one     *)
(* starts with nothing offered, held or received.                           *)
LEMMA HandleRequestKeeps ==
  ASSUME IInv, NEW q \in Queries, HandleRequest(q)
  PROVE  IInv'
<1>1. TypeOK'
  BY PoolAssumption, Zenon DEF IInv, TypeOK, Tables, HandleRequest, NoPartials, TableIntervals
<1>2. \A p \in Queries \ {q} : Untouched(p)
  BY SameWorkers, Zenon DEF HandleRequest, Untouched, IInv, TypeOK
<1>3. /\ QInv(q) /\ client[q] = "requested" /\ client'[q] = "collecting"
      /\ held'[q] = published /\ published \in Tables /\ scanner'[q] = "loop"
      /\ left'[q] = TableIntervals(published) /\ got'[q] = NoPartials
      /\ UNCHANGED <<matching, sending, wg>>
      /\ NHolding(q)' = NHolding(q)
      /\ \A i \in Intervals : NScan(q, i)' = NScan(q, i)
  BY SameWorkers, IInvByQuery DEF HandleRequest, IInv, TypeOK
<1>4. scanner[q] = "off" /\ Holding(q) = {}
  BY <1>3, Zenon DEF QInv, Ordered
<1>5. Counted(q)'
  BY <1>3, <1>4, Zenon DEF QInv, Counted
<1>6. Ordered(q)'
  BY <1>3, Zenon DEF Ordered, Tables
<1>7. \A i \in Intervals : NScan(q, i) = 0
  <2> TAKE i \in Intervals
  <2>1. At(q, i, "scan") \subseteq Holding(q)
    BY DEF At, Holding
  <2> QED BY <1>4, <2>1, CountsAreNat, Zenon
<1>8. Wanted(q)' \subseteq left'[q]
  BY <1>3, Zenon DEF Wanted
<1>9. Placed(q)'
  BY <1>3, <1>7, <1>8 DEF Placed, Offered, Visited, NoPartials
<1>10. QInv(q)'
  BY <1>3, <1>5, <1>6, <1>9, Zenon DEF QInv, Whole
<1> QED BY <1>1, <1>2, <1>10, UntouchedKeeps, IInvByQuery, Zenon

(* An interval that passes the filters moves from the ones to be visited to *)
(* the one offered; the others stay where they are.                         *)
LEMMA VisitIntervalKeeps ==
  ASSUME IInv, NEW q \in Queries, NEW i \in Intervals, VisitInterval(q, i)
  PROVE  IInv'
<1>1. TypeOK'
  <2>1. wg[q] + 1 \in Nat /\ wg \in [Queries -> Nat]
    BY DEF IInv, TypeOK
  <2>3. wg' = wg \/ wg' = [wg EXCEPT ![q] = wg[q] + 1]
    BY Zenon DEF VisitInterval
  <2>4. wg' \in [Queries -> Nat]
    BY <2>1, <2>3, Zenon
  <2>5. scanner' \in [Queries -> {"off", "loop", "send", "wait"}]
    <3>1. scanner' = scanner \/ scanner' = [scanner EXCEPT ![q] = "send"]
      BY Zenon DEF VisitInterval
    <3> QED BY <3>1, Zenon DEF IInv, TypeOK
  <2>2. left' \in [Queries -> SUBSET Intervals] /\ sending' \in [Queries -> Intervals]
    BY Zenon DEF IInv, TypeOK, VisitInterval
  <2> QED BY <2>2, <2>4, <2>5, Zenon DEF IInv, TypeOK, VisitInterval
<1>2. \A p \in Queries \ {q} : Untouched(p)
  BY SameWorkers, Zenon DEF VisitInterval, Untouched, IInv, TypeOK
<1>3. /\ QInv(q) /\ scanner[q] = "loop" /\ i \in left[q] /\ left'[q] = left[q] \ {i}
      /\ UNCHANGED <<client, matching, held, got>>
      /\ NHolding(q)' = NHolding(q) /\ NHolding(q) \in Nat
      /\ \A j \in Intervals : NScan(q, j)' = NScan(q, j) /\ NScan(q, j) \in Nat
      /\ \A j \in Intervals : got[q][j] \in Nat
  <2>1. /\ QInv(q) /\ scanner[q] = "loop" /\ i \in left[q] /\ left'[q] = left[q] \ {i}
        /\ UNCHANGED <<client, matching, held, got, worker>>
    BY IInvByQuery, Zenon DEF VisitInterval, IInv, TypeOK
  <2>2. \A j \in Intervals : got[q][j] \in Nat
    BY Zenon DEF IInv, TypeOK
  <2>3. /\ NHolding(q)' = NHolding(q) /\ NHolding(q) \in Nat
        /\ \A j \in Intervals : NScan(q, j)' = NScan(q, j) /\ NScan(q, j) \in Nat
    BY <2>1, SameWorkers, CountsAreNat, Zenon
  <2> QED BY <2>1, <2>2, <2>3, Zenon
<1>4. Wanted(q)' = Wanted(q) /\ Wanted(q) \subseteq matching[q]
  BY <1>3, Zenon DEF Wanted, TableIntervals
<1>5. ASSUME i \in matching[q] PROVE QInv(q)'
  <2>1. scanner'[q] = "send" /\ sending'[q] = i /\ wg'[q] = wg[q] + 1
    BY <1>5 DEF VisitInterval, IInv, TypeOK
  <2>6. Counted(q)
    BY <1>3, Zenon DEF QInv
  <2>7. /\ NHolding(q)' = NHolding(q) /\ NHolding(q) \in Nat
        /\ scanner[q] = "loop"
    BY <1>3, Zenon
  <2>2. Counted(q)'
    BY <2>1, <2>6, <2>7 DEF Counted
  <2>3. Ordered(q)'
    BY <1>3, <1>5, <2>1, Zenon DEF QInv, Ordered
  <2>4. i \in Wanted(q)
    BY <1>3, <1>5, Zenon DEF QInv, Ordered, Wanted
  <2>5. Placed(q)'
    <3> SUFFICES ASSUME client[q] = "collecting", NEW j \in Intervals
                 PROVE  got[q][j] + Offered(q, j)' + NScan(q, j) = Visited(q, j)'
      BY <1>3, Zenon DEF Placed
    <3>1. Offered(q, j) = 0 /\ Offered(q, j)' = (IF j = i THEN 1 ELSE 0)
      BY <1>3, <2>1, Zenon DEF Offered
    <3>2. Visited(q, j)' = IF j = i THEN 1 ELSE Visited(q, j)
      BY <1>3, <1>4, <2>4, Zenon DEF Visited
    <3>3. Visited(q, i) = 0
      BY <1>3, Zenon DEF Visited
    <3>4. got[q][j] + Offered(q, j) + NScan(q, j) = Visited(q, j)
      BY <1>3, Zenon DEF QInv, Placed
    <3>5. got[q][j] \in Nat /\ NScan(q, j) \in Nat
      BY <1>3, Zenon
    <3> QED BY <3>1, <3>2, <3>3, <3>4, <3>5
  <2> QED BY <1>3, <1>4, <2>1, <2>2, <2>3, <2>5, Zenon DEF QInv, Whole, Ordered
<1>6. ASSUME i \notin matching[q] PROVE QInv(q)'
  <2>1. UNCHANGED <<wg, scanner, sending>>
    BY <1>6, Zenon DEF VisitInterval
  <2>2. Placed(q)'
    BY <1>3, <1>4, <1>6, <2>1, Zenon DEF QInv, Placed, Offered, Visited
  <2>3. Ordered(q)' /\ Counted(q)'
    BY <1>3, <2>1, Zenon DEF QInv, Ordered, Counted
  <2> QED BY <1>3, <1>4, <2>1, <2>2, <2>3, Zenon DEF QInv, Whole, Ordered
<1> QED BY <1>1, <1>2, <1>5, <1>6, UntouchedKeeps, IInvByQuery, Zenon

LEMMA EndLoopKeeps ==
  ASSUME IInv, NEW q \in Queries, EndLoop(q)
  PROVE  IInv'
<1>1. TypeOK'
  BY Zenon DEF IInv, TypeOK, EndLoop
<1>2. \A p \in Queries \ {q} : Untouched(p)
  BY SameWorkers, Zenon DEF EndLoop, Untouched, IInv, TypeOK
<1>3. /\ QInv(q) /\ scanner[q] = "loop" /\ scanner'[q] = "wait" /\ left[q] = {}
      /\ UNCHANGED <<client, matching, held, got, left, sending, wg>>
      /\ NHolding(q)' = NHolding(q)
      /\ \A j \in Intervals : NScan(q, j)' = NScan(q, j)
  BY SameWorkers, IInvByQuery DEF EndLoop, IInv, TypeOK
<1>4. Wanted(q)' = Wanted(q)
  BY <1>3, Zenon DEF Wanted, TableIntervals
<1>5. Ordered(q)' /\ Counted(q)'
  BY <1>3, Zenon DEF QInv, Ordered, Counted
<1>6. Placed(q)'
  BY <1>3, <1>4, Zenon DEF QInv, Placed, Offered, Visited
<1>7. QInv(q)'
  BY <1>3, <1>4, <1>5, <1>6, Zenon DEF QInv, Whole
<1> QED BY <1>1, <1>2, <1>7, UntouchedKeeps, IInvByQuery, Zenon

(* wg.Wait returns: no worker holds a request of the query and nothing is   *)
(* left to visit, so that every wanted interval can only be received.       *)
LEMMA ClosePartialsKeeps ==
  ASSUME IInv, NEW q \in Queries, ClosePartials(q)
  PROVE  IInv'
<1>1. TypeOK'
  BY Zenon DEF IInv, TypeOK, ClosePartials
<1>2. \A p \in Queries \ {q} : Untouched(p)
  BY SameWorkers, Zenon DEF ClosePartials, Untouched, IInv, TypeOK
<1>3. /\ QInv(q) /\ scanner[q] = "wait" /\ wg[q] = 0
      /\ scanner'[q] = "off" /\ client'[q] = "combined"
      /\ UNCHANGED <<matching, held, got, left, sending, wg>>
      /\ NHolding(q)' = NHolding(q) /\ Holding(q)' = Holding(q)
      /\ got[q] \in [Intervals -> Nat]
  BY SameWorkers, IInvByQuery DEF ClosePartials, IInv, TypeOK
<1>4. client[q] = "collecting" /\ left[q] = {}
  BY <1>3, Zenon DEF QInv, Ordered
<1>12. Counted(q)
  BY <1>3, Zenon DEF QInv
<1>13. NHolding(q) = 0
  BY <1>3, <1>12, CountsAreNat DEF Counted
<1>5. NHolding(q) = 0 /\ Holding(q) = {}
  BY <1>13, CountsAreNat, Zenon
<1>6. \A i \in Intervals : NScan(q, i) = 0
  <2> TAKE i \in Intervals
  <2>1. At(q, i, "scan") \subseteq Holding(q)
    BY DEF At, Holding
  <2> QED BY <1>5, <2>1, CountsAreNat, Zenon
<1>7. \A i \in Intervals : got[q][i] = IF i \in Wanted(q) THEN 1 ELSE 0
  BY <1>3, <1>4, <1>6 DEF QInv, Placed, Offered, Visited
<1>8. Wanted(q)' = Wanted(q)
  BY <1>3, Zenon DEF Wanted, TableIntervals
<1>9. Whole(q)'
  BY <1>3, <1>7, <1>8, Zenon DEF Whole
<1>10. Ordered(q)' /\ Counted(q)'
  BY <1>3, <1>4, <1>5, Zenon DEF QInv, Ordered, Counted
<1>11. QInv(q)'
  BY <1>3, <1>5, <1>9, <1>10, Zenon DEF QInv, Placed
<1> QED BY <1>1, <1>2, <1>11, UntouchedKeeps, IInvByQuery, Zenon

LEMMA DoneKeeps ==
  ASSUME IInv, NEW q \in Queries, Done(q)
  PROVE  IInv'
<1>1. TypeOK'
  BY Zenon DEF IInv, TypeOK, Done
<1>2. \A p \in Queries \ {q} : Untouched(p)
  BY SameWorkers, Zenon DEF Done, Untouched, IInv, TypeOK
<1>3. /\ QInv(q) /\ client[q] = "combined" /\ client'[q] = "idle" /\ held'[q] = "none"
      /\ UNCHANGED <<scanner, left, sending, wg, matching>>
      /\ NHolding(q)' = NHolding(q) /\ Holding(q)' = Holding(q)
  BY SameWorkers, IInvByQuery DEF Done, IInv, TypeOK
<1>4. Ordered(q)' /\ Counted(q)'
  BY <1>3, Zenon DEF QInv, Ordered, Counted
<1>5. QInv(q)'
  BY <1>3, <1>4, Zenon DEF QInv, Placed, Whole
<1> QED BY <1>1, <1>2, <1>5, UntouchedKeeps, IInvByQuery, Zenon

(* The offered interval moves to the worker that takes it.                  *)
LEMMA TakeRequestKeeps ==
  ASSUME IInv, NEW q \in Queries, NEW w \in Workers, TakeRequest(q, w)
  PROVE  IInv'
<1>1. TypeOK'
  <2>1. worker' \in [Workers -> Busy \cup {Selecting, Gone}]
    BY Zenon DEF IInv, TypeOK, TakeRequest, Busy
  <2> QED BY <2>1, Zenon DEF IInv, TypeOK, TakeRequest
<1>2. TypeOK
  BY Zenon DEF IInv
<1>9. /\ \A p \in Queries : NHolding(p)' = NHolding(p) + (IF p = q THEN 1 ELSE 0)
      /\ \A p \in Queries : p # q => Holding(p)' = Holding(p)
      /\ \A p \in Queries, i \in Intervals :
            NScan(p, i)' = NScan(p, i) + (IF p = q /\ i = sending[q] THEN 1 ELSE 0)
  BY <1>2, TakeCounts, Zenon
<1>3. ASSUME NEW p \in Queries, p # q PROVE Untouched(p)
  <2>1. /\ NHolding(p)' = NHolding(p) /\ Holding(p)' = Holding(p)
        /\ \A i \in Intervals : NScan(p, i)' = NScan(p, i)
    BY <1>3, <1>9, CountsAreNat
  <2> QED BY <1>2, <1>3, <2>1, Zenon DEF TakeRequest, Untouched, TypeOK
<1>4. /\ QInv(q) /\ scanner[q] = "send" /\ scanner'[q] = "loop"
      /\ UNCHANGED <<client, matching, held, got, left, sending, wg>>
      /\ NHolding(q)' = NHolding(q) + 1 /\ NHolding(q) \in Nat
      /\ sending[q] \in Intervals
      /\ \A i \in Intervals : NScan(q, i) \in Nat /\ got[q][i] \in Nat
      /\ \A i \in Intervals : NScan(q, i)' = NScan(q, i) + (IF i = sending[q] THEN 1 ELSE 0)
  BY <1>2, <1>9, CountsAreNat, IInvByQuery DEF TakeRequest, TypeOK
<1>5. Wanted(q)' = Wanted(q)
  BY <1>4, Zenon DEF Wanted, TableIntervals
<1>10. Counted(q) /\ Ordered(q)
  BY <1>4, Zenon DEF QInv
<1>11. Counted(q)'
  <2>1. /\ scanner[q] = "send" /\ scanner'[q] = "loop" /\ wg'[q] = wg[q]
        /\ NHolding(q)' = NHolding(q) + 1 /\ NHolding(q) \in Nat
    BY <1>4, Zenon
  <2> QED BY <1>10, <2>1 DEF Counted
<1>6. Ordered(q)'
  <2>1. /\ scanner[q] = "send" /\ scanner'[q] = "loop"
        /\ UNCHANGED <<client, matching, held, left, sending>>
    BY <1>4, Zenon
  <2> QED BY <1>10, <2>1, Zenon DEF Ordered, TableIntervals
<1>7. Placed(q)'
  BY <1>4, <1>5 DEF QInv, Placed, Offered, Visited
<1>8. QInv(q)'
  BY <1>4, <1>5, <1>6, <1>7, <1>11, Zenon DEF QInv, Whole
<1> QED BY <1>1, <1>3, <1>8, UntouchedKeeps, IInvByQuery, Zenon

(* The partial moves from the worker to the collector.                      *)
LEMMA SendPartialKeeps ==
  ASSUME IInv, NEW w \in Workers, SendPartial(w)
  PROVE  IInv'
<1>1. TypeOK
  BY Zenon DEF IInv
<1>2. PICK q \in Queries, j \in Intervals :
        /\ q = worker[w].query /\ j = worker[w].interval /\ w \in Holding(q)
        /\ \A p \in Queries : NHolding(p)' = NHolding(p) /\ Holding(p)' = Holding(p)
        /\ \A p \in Queries, i \in Intervals :
              NScan(p, i)' = NScan(p, i) - (IF p = q /\ i = j THEN 1 ELSE 0)
  BY <1>1, SendCounts, Zenon
<1>3. /\ client[q] = "collecting" /\ got' = [got EXCEPT ![q][j] = got[q][j] + 1]
      /\ UNCHANGED <<dbVars, clientVars, scanVars>>
  BY <1>2, Zenon DEF SendPartial
<1>4. TypeOK'
  <2>1. got' \in [Queries -> [Intervals -> Nat]]
    BY <1>1, <1>3 DEF TypeOK
  <2>2. worker' \in [Workers -> Busy \cup {Selecting, Gone}]
    <3>1. worker[w] \in Busy
      BY <1>1, IdlePc, Zenon DEF SendPartial, TypeOK
    <3>2. [worker[w] EXCEPT !.pc = "finish"] \in Busy
      BY <3>1, Zenon DEF Busy
    <3> QED BY <1>1, <3>2, Zenon DEF SendPartial, TypeOK
  <2> QED BY <1>1, <1>3, <2>1, <2>2, Zenon DEF TypeOK
<1>5. ASSUME NEW p \in Queries, p # q PROVE Untouched(p)
  <2>1. \A i \in Intervals : NScan(p, i)' = NScan(p, i)
    BY <1>2, <1>5, CountsAreNat
  <2> QED BY <1>1, <1>2, <1>3, <1>5, <2>1, Zenon DEF Untouched, TypeOK
<1>6. /\ QInv(q) /\ \A i \in Intervals : NScan(q, i) \in Nat /\ got[q][i] \in Nat
      /\ \A i \in Intervals : got'[q][i] = got[q][i] + (IF i = j THEN 1 ELSE 0)
  BY <1>1, <1>3, CountsAreNat, IInvByQuery DEF TypeOK
<1>7. Wanted(q)' = Wanted(q)
  BY <1>3, Zenon DEF Wanted, TableIntervals
<1>8. Ordered(q)' /\ Counted(q)'
  BY <1>2, <1>3, <1>6, Zenon DEF QInv, Ordered, Counted, TableIntervals
<1>9. Placed(q)'
  <2> SUFFICES ASSUME client[q] = "collecting", NEW i \in Intervals
               PROVE  got'[q][i] + Offered(q, i)' + NScan(q, i)' = Visited(q, i)'
    BY <1>3, Zenon DEF Placed
  <2>1. Offered(q, i)' = Offered(q, i) /\ Offered(q, i) \in {0, 1}
    BY <1>3, Zenon DEF Offered
  <2>2. Visited(q, i)' = Visited(q, i)
    BY <1>3, <1>7, Zenon DEF Visited
  <2>3. got[q][i] + Offered(q, i) + NScan(q, i) = Visited(q, i)
    BY <1>6, Zenon DEF QInv, Placed
  <2>4. /\ got[q][i] \in Nat /\ NScan(q, i) \in Nat
        /\ got'[q][i] = got[q][i] + (IF i = j THEN 1 ELSE 0)
        /\ NScan(q, i)' = NScan(q, i) - (IF i = j THEN 1 ELSE 0)
    BY <1>2, <1>6
  <2> QED BY <2>1, <2>2, <2>3, <2>4
<1>10. QInv(q)'
  BY <1>2, <1>3, <1>6, <1>8, <1>9, Zenon DEF QInv, Whole
<1> QED BY <1>4, <1>5, <1>10, UntouchedKeeps, IInvByQuery, Zenon

(* wg.Done is called once for every request that is held.                   *)
LEMMA FinishRequestKeeps ==
  ASSUME IInv, NEW w \in Workers, FinishRequest(w)
  PROVE  IInv'
<1>1. TypeOK
  BY Zenon DEF IInv
<1>2. PICK q \in Queries :
        /\ q = worker[w].query /\ NHolding(q) > 0
        /\ \A p \in Queries : NHolding(p)' = NHolding(p) - (IF p = q THEN 1 ELSE 0)
        /\ \A p \in Queries : Holding(p)' \subseteq Holding(p)
        /\ \A p \in Queries, i \in Intervals : NScan(p, i)' = NScan(p, i)
  BY <1>1, FinishCounts, Zenon
<1>3. /\ QInv(q) /\ NHolding(q) \in Nat /\ wg' = [wg EXCEPT ![q] = wg[q] - 1]
      /\ UNCHANGED <<dbVars, clientVars, scanner, left, sending, got>>
  BY <1>2, CountsAreNat, IInvByQuery, Zenon DEF FinishRequest
<1>4. wg[q] > 0 /\ wg[q] \in Nat
  BY <1>1, <1>2, <1>3 DEF QInv, Counted, TypeOK
<1>5. TypeOK'
  <2>1. wg' \in [Queries -> Nat]
    BY <1>1, <1>3, <1>4 DEF TypeOK
  <2>2. worker' \in [Workers -> Busy \cup {Selecting, Gone}]
    BY <1>1, Zenon DEF FinishRequest, TypeOK
  <2> QED BY <1>1, <1>3, <2>1, <2>2, Zenon DEF TypeOK
<1>6. ASSUME NEW p \in Queries PROVE QInv(p)'
  <2>1. QInv(p) /\ NHolding(p) \in Nat
    BY CountsAreNat, IInvByQuery, Zenon
  <2>2. Wanted(p)' = Wanted(p)
    BY <1>3, Zenon DEF Wanted, TableIntervals
  <2>3. Counted(p)'
    BY <1>1, <1>2, <1>3, <1>4, <2>1 DEF QInv, Counted, TypeOK
  <2>4. Ordered(p)'
    BY <1>3, <2>1, Zenon DEF QInv, Ordered, TableIntervals
  <2>5. Placed(p)'
    <3>1. \A i \in Intervals : Offered(p, i)' = Offered(p, i) /\ Visited(p, i)' = Visited(p, i)
      BY <1>3, <2>2, Zenon DEF Offered, Visited
    <3>2. client'[p] = client[p] /\ got'[p] = got[p] /\ \A i \in Intervals : NScan(p, i)' = NScan(p, i)
      BY <1>2, <1>3, Zenon
    <3> QED BY <2>1, <3>1, <3>2, Zenon DEF QInv, Placed
  <2>6. Whole(p)' /\ (scanner[p] = "off" => Holding(p) = {})'
    BY <1>2, <1>3, <2>1, <2>2 DEF QInv, Whole
  <2> QED BY <2>3, <2>4, <2>5, <2>6, Zenon DEF QInv
<1> QED BY <1>5, <1>6, IInvByQuery, Zenon

LEMMA WorkerExitKeeps ==
  ASSUME IInv, NEW w \in Workers, WorkerExit(w)
  PROVE  IInv'
<1>1. TypeOK
  BY Zenon DEF IInv
<1>2. TypeOK'
  BY <1>1, Zenon DEF TypeOK, WorkerExit
<1>3. \A p \in Queries : Untouched(p)
  BY <1>1, ExitCounts, Zenon DEF Untouched, WorkerExit
<1> QED BY <1>2, <1>3, UntouchedKeeps, IInvByQuery, Zenon

LEMMA NextIInv == IInv /\ [Next]_vars => IInv'
<1> SUFFICES ASSUME IInv, [Next]_vars PROVE IInv'
  BY Zenon
<1>1. CASE CloseFlush \/ CloseShutdown \/ HandlerExit \/ UNCHANGED vars
  BY <1>1, CloseKeeps, Zenon
<1>2. ASSUME NEW q \in Queries, MakeRequest(q) \/ HandleRequest(q) \/ ScannerStep(q) \/ Done(q)
      PROVE  IInv'
  BY Zenon, <1>2, MakeRequestKeeps, HandleRequestKeeps, EndLoopKeeps, ClosePartialsKeeps,
     VisitIntervalKeeps, DoneKeeps DEF ScannerStep
<1>3. ASSUME NEW w \in Workers, WorkerStep(w) \/ WorkerExit(w) PROVE IInv'
  BY <1>3, SendPartialKeeps, FinishRequestKeeps, WorkerExitKeeps, Zenon DEF WorkerStep
<1>4. ASSUME NEW q \in Queries, NEW w \in Workers, TakeRequest(q, w) PROVE IInv'
  BY <1>4, TakeRequestKeeps, Zenon
<1> QED BY <1>1, <1>2, <1>3, <1>4, Zenon DEF Next

(* All of the pool's invariants together, for any number of queries,        *)
(* workers and intervals.                                                   *)
THEOREM IInvInvariant == Spec => []IInv
BY InitIInv, NextIInv, PTL DEF Spec

(* A result is combined from the partial of every interval of its snapshot  *)
(* that passes the timestamp filters, each exactly once (query.go, scan).   *)
THEOREM WholeResultInvariant == Spec => []WholeResult
<1>1. IInv => WholeResult
  BY Zenon DEF IInv
<1> QED BY <1>1, IInvInvariant, PTL

(* partialCh is closed only when no worker can still send on it.            *)
THEOREM NoSendAfterCloseInvariant == Spec => []NoSendAfterClose
<1>1. IInv => NoSendAfterClose
  BY Zenon DEF IInv
<1> QED BY <1>1, IInvInvariant, PTL

(* The wait group counts exactly the requests offered or held.              *)
THEOREM WaitGroupExactInvariant == Spec => []WaitGroupExact
<1>1. IInv => WaitGroupExact
  BY Zenon DEF IInv
<1> QED BY <1>1, IInvInvariant, PTL
=============================================================================
