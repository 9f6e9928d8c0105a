---------------------------- MODULE MCGumshoeDB ----------------------------
(* GumshoeDB for TLC, and the abstract store it implements. *)
EXTENDS GumshoeDB, TLC

\* Strings and clients are only ever compared for equality
Symmetry == Permutations(Strings) \cup Permutations(Readers)

\* What a client of StaticTable tb sees, and what the next process will load
Content(tb) == [t \in Starts |-> [s \in Strings |-> TableRows(tb, t, s)]]
Disk == [t \in Starts |-> [s \in Strings |-> DiskRows(t, s)]]

\* The rows the next flush will publish: none when the process must exit first
Pending ==
  [t \in Starts |-> [s \in Strings |-> IF failed \/ Swapped THEN 0 ELSE MemRows(t, s)]]

\* A process that is down publishes what it would load
Published == IF proc = "up" THEN Content(static) ELSE Disk

Reading == {r \in Readers : rd[r] # "idle"}
Snap == [r \in Readers |-> Content(view[r])]

Store == INSTANCE SnapshotStore WITH
  pending <- Pending, published <- Published, persisted <- Disk,
  reading <- Reading, snap <- Snap, doomed <- failed

(***************************************************************************)
(* Every step of the storage engine is a step of SnapshotStore, or leaves  *)
(* what it promises unchanged: a flush publishes all pending rows at once  *)
(* although it writes many files, requests see frozen snapshots although   *)
(* intervals are rewritten and deleted, and a crash between any two steps  *)
(* leaves exactly what the last flush persisted.                           *)
(***************************************************************************)
ImplementsStore == Store!Spec
=============================================================================
