--------------------------- MODULE SnapshotStore ---------------------------
(***************************************************************************)
(* What the storage engine promises its clients, without files, wait       *)
(* groups, generations or dimension tables.  Inserted rows are pending     *)
(* until a flush publishes all of them at once; a request sees the rows    *)
(* published when it was accepted until it is done; what a flush has       *)
(* persisted survives the process, and nothing else does.  Intervals out   *)
(* of retention may lose their pending rows, or all their rows, when rows  *)
(* are published.                                                          *)
(***************************************************************************)
EXTENDS Integers

CONSTANTS Starts, Strings, Readers, Retention

VARIABLES
  pending,     \* rows inserted since the last publication
  published,   \* rows a new request sees
  persisted,   \* rows that survive the process
  reading,     \* the outstanding requests
  snap,        \* the rows each of them sees
  doomed,      \* a flush has failed: the process only answers requests and exits
  clock

vars == <<pending, published, persisted, reading, snap, doomed, clock>>

None == [t \in Starts |-> [s \in Strings |-> 0]]
Expired == {t \in Starts : clock - (t + 1) > Retention}

Init ==
  /\ pending = None /\ published = None /\ persisted = None
  /\ reading = {} /\ snap = [r \in Readers |-> None]
  /\ doomed = FALSE /\ clock = 0

Insert(t, s) ==
  /\ ~doomed /\ t \notin Expired
  /\ pending' = [pending EXCEPT ![t][s] = @ + 1]
  /\ UNCHANGED <<published, persisted, reading, snap, doomed, clock>>

Publish ==
  /\ ~doomed
  /\ \E lost \in SUBSET Expired : \E stale \in SUBSET Expired :
       published' = [t \in Starts |-> [s \in Strings |->
                       (IF t \in lost THEN 0 ELSE published[t][s])
                       + (IF t \in stale THEN 0 ELSE pending[t][s])]]
  /\ pending' = None
  /\ UNCHANGED <<persisted, reading, snap, doomed, clock>>

Persist ==
  /\ ~doomed /\ persisted' = published
  /\ UNCHANGED <<pending, published, reading, snap, doomed, clock>>

FlushFails ==
  /\ ~doomed /\ doomed' = TRUE /\ pending' = None
  /\ UNCHANGED <<published, persisted, reading, snap, clock>>

Begin(r) ==
  /\ r \notin reading /\ reading' = reading \cup {r}
  /\ snap' = [snap EXCEPT ![r] = published]
  /\ UNCHANGED <<pending, published, persisted, doomed, clock>>

End(r) ==
  /\ r \in reading /\ reading' = reading \ {r}
  /\ snap' = [snap EXCEPT ![r] = None]
  /\ UNCHANGED <<pending, published, persisted, doomed, clock>>

Exit ==
  /\ pending' = None /\ published' = persisted
  /\ reading' = {} /\ snap' = [r \in Readers |-> None]
  /\ doomed' = FALSE
  /\ UNCHANGED <<persisted, clock>>

Tick ==
  /\ clock' = clock + 1
  /\ UNCHANGED <<pending, published, persisted, reading, snap, doomed>>

Next ==
  \/ \E t \in Starts, s \in Strings : Insert(t, s)
  \/ Publish \/ Persist \/ FlushFails \/ Exit \/ Tick
  \/ \E r \in Readers : Begin(r) \/ End(r)

Spec == Init /\ [][Next]_vars
=============================================================================
