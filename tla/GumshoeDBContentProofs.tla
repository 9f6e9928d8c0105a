---------------------- MODULE GumshoeDBContentProofs -----------------------
(***************************************************************************)
(* No flush, crash or restart loses, repeats or relabels a row; all the    *)
(* invariants together; and the step by step argument that the storage     *)
(* engine implements SnapshotStore.                                        *)
(***************************************************************************)
EXTENDS MCGumshoeDB, GumshoeDBMetadataProofs

USE DEF procVars, memVars, readerVars, flushVars, diskVars, histVars

(* Counts that agree but at one place, where there is one more.             *)
LEMMA OneMore ==
  ASSUME NEW A, NEW B, NEW f \in [A -> [B -> Nat]], NEW g \in [A -> [B -> Nat]], NEW t \in A, NEW s \in B,
         \A u \in A, v \in B : g[u][v] = f[u][v] + (IF u = t /\ v = s THEN 1 ELSE 0)
  PROVE  g = [f EXCEPT ![t][s] = @ + 1]
<1> DEFINE h == [f EXCEPT ![t][s] = @ + 1]
<1>1. h \in [A -> [B -> Nat]] /\ \A u \in A, v \in B : h[u][v] = f[u][v] + (IF u = t /\ v = s THEN 1 ELSE 0)
  OBVIOUS
<1> HIDE DEF h
<1>2. \A u \in A : g[u] = h[u]
  BY <1>1
<1>3. g = h
  BY <1>1, <1>2
<1> QED BY <1>3, Zenon DEF h

(* Each part of the invariant where a step leaves alone what it is about. *)
LEMMA SameWritten ==
  ASSUME TypeInv, SegmentInv, WrittenInv, clock' \in {clock, clock + 1},
         ins' \in Combining =>
           /\ ins \in Combining /\ newTable'.ivs = newTable.ivs /\ (writeErr' => ins' = "combine")
           /\ UNCHANGED <<mem, static, staticKeys, memKeys, writeErr>>
           /\ queued' \cup open' = queued \cup open
           /\ \A t \in memKeys \ (queued \cup open) :
                mapped'[<<t, newGeneration(t)>>] = mapped[<<t, newGeneration(t)>>]
           /\ \A f \in Files(static) : mapped'[f] = mapped[f]
  PROVE  WrittenInv'
<1> SUFFICES ASSUME ins' \in Combining PROVE WrittenInv'
  BY Zenon DEF WrittenInv
<1>1. /\ MemIntervals' = MemIntervals /\ Keys(static') = Keys(static)
      /\ \A t \in Starts : newGeneration(t)' = newGeneration(t)
  BY Zenon DEF MemIntervals, Keys, newGeneration
<1>2. \A t \in Starts : intervalStartOutOfRetention(t) => intervalStartOutOfRetention(t)'
  BY RetentionShrinks, Zenon DEF InRetention
<1>3. \A t \in Starts : newRows(t)' = newRows(t)
  <2>1. \A t \in staticKeys : <<t, static.ivs[t]>> \in Files(static)
    BY FilesAt, Zenon DEF WrittenInv, Keys
  <2> QED BY <2>1, Zenon DEF newRows
<1>4. memKeys \subseteq Starts
  BY Zenon DEF TypeInv, TypeOK, FlushTypeOK
<1>5. (Keys(static) \ staticKeys) \cup (MemIntervals \ memKeys) \subseteq Starts
  BY Zenon DEF Keys, MemIntervals
<1> QED BY <1>1, <1>2, <1>3, <1>4, <1>5 DEF WrittenInv

LEMMA SameStored ==
  ASSUME TypeInv, NothingLost, UNCHANGED <<static, mem, memDims, accepted>>,
         proc' = "up" => proc = "up", clock' \in {clock, clock + 1}, ~failed' => ~failed /\ (Swapped' <=> Swapped),
         \A f \in Files(static) : mapped'[f] = mapped[f]
  PROVE  NothingLost'
<1> SUFFICES ASSUME proc = "up", ~failed', NEW t \in Starts, NEW s \in Strings
             PROVE  (LET stored == TableRows(static, t, s) + (IF Swapped THEN 0 ELSE MemRows(t, s))
                     IN  /\ stored <= accepted[t][s]
                         /\ InRetention(t) => stored = accepted[t][s])'
  BY Zenon DEF NothingLost
<1>1. TableRows(static, t, s)' = TableRows(static, t, s) /\ MemRows(t, s)' = MemRows(t, s)
  BY StaticRowsKept, MemRowsKept, Zenon
<1>2. InRetention(t)' => InRetention(t)
  BY RetentionShrinks, Zenon
<1> QED BY <1>1, <1>2, Zenon DEF NothingLost

LEMMA SameDurable ==
  ASSUME TypeInv, dimFiles[meta.dimGen].st # "torn" => DurableOnDisk,
         UNCHANGED <<meta, durable>>, clock' \in {clock, clock + 1},
         dimFiles'[meta.dimGen] = dimFiles[meta.dimGen], \A f \in Files(meta) : segs'[f] = segs[f]
  PROVE  (dimFiles[meta.dimGen].st # "torn" => DurableOnDisk)'
<1> SUFFICES ASSUME DurableOnDisk, NEW t \in Starts, NEW s \in Strings
             PROVE  (/\ DiskRows(t, s) <= durable[t][s]
                     /\ InRetention(t) => DiskRows(t, s) = durable[t][s])'
  BY Zenon DEF DurableOnDisk
<1>1. DiskRows(t, s)' = DiskRows(t, s)
  BY DiskRowsKept, Zenon
<1>2. InRetention(t)' => InRetention(t)
  BY RetentionShrinks, Zenon
<1> QED BY <1>1, <1>2, Zenon DEF DurableOnDisk

(* Steps that change no table, no inserted row and no file that db.json names. *)
LEMMA SameContent ==
  ASSUME TypeInv, SegmentInv, ContentInv, UNCHANGED <<static, mem, memDims, meta, histVars>>,
         clock' \in {clock, clock + 1}, proc' = "up" <=> proc = "up",
         proc # "up" => UNCHANGED <<ins, failed, rd>>,
         ~failed' => ~failed /\ (Swapped' <=> Swapped),
         dimFiles'[meta.dimGen] = dimFiles[meta.dimGen], \A f \in Files(meta) : segs'[f] = segs[f],
         \A f \in Files(static) : mapped'[f] = mapped[f],
         ins' \in Combining =>
           /\ ins \in Combining /\ newTable'.ivs = newTable.ivs /\ (writeErr' => ins' = "combine")
           /\ UNCHANGED <<staticKeys, memKeys, writeErr>>
           /\ queued' \cup open' = queued \cup open
           /\ \A t \in memKeys \ (queued \cup open) :
                mapped'[<<t, newGeneration(t)>>] = mapped[<<t, newGeneration(t)>>]
  PROVE  ContentInv'
<1>1. IdleInv'
  BY Zenon DEF ContentInv, IdleInv
<1>2. WrittenInv'
  BY SameWritten, Zenon DEF ContentInv
<1>3. NothingLost'
  BY SameStored, Zenon DEF ContentInv
<1>4. (dimFiles[meta.dimGen].st # "torn" => DurableOnDisk)'
  BY SameDurable, Zenon DEF ContentInv
<1> QED BY <1>1, <1>2, <1>3, <1>4, Zenon DEF ContentInv

LEMMA ContentInit == TypeInv /\ Init => ContentInv
<1> SUFFICES ASSUME TypeInv, Init PROVE ContentInv
  BY Zenon
<1>1. IdleInv
  BY Zenon DEF Init, IdleInv
<1>2. WrittenInv
  BY Zenon DEF Init, WrittenInv, Combining
<1>3. NothingLost
  BY Zenon DEF Init, NothingLost
<1>4. DurableOnDisk
  <2>1. \A t \in Starts, s \in Strings : DiskRows(t, s) = 0
    BY Zenon DEF Init, NoMetadata, NewStaticTable, DiskRows
  <2>2. \A t \in Starts, s \in Strings : durable[t][s] = 0
    BY Zenon DEF Init
  <2> QED BY <2>1, <2>2 DEF DurableOnDisk
<1> QED BY <1>1, <1>2, <1>3, <1>4, Zenon DEF ContentInv

(* A process that has loaded what db.json names holds what was durable. *)
LEMMA LoadedContent ==
  ASSUME TypeInv, ContentInv, proc = "down", proc' = "up", UNCHANGED <<diskVars, histVars, clock>>,
         ins' = "idle", mem' = NewMemTable, dimFiles[meta.dimGen].st # "torn",
         \A t \in Starts, s \in Strings : TableRows(static, t, s)' = DiskRows(t, s)
  PROVE  ContentInv'
<1>1. IdleInv' /\ WrittenInv'
  BY Zenon DEF IdleInv, WrittenInv, Combining
<1>2. DurableOnDisk /\ accepted = durable
  BY Zenon DEF ContentInv, IdleInv
<1>3. DurableOnDisk'
  BY <1>2, SameDurable, Zenon DEF ContentInv
<1>4. NothingLost'
  <2> SUFFICES ASSUME NEW t \in Starts, NEW s \in Strings
               PROVE  (LET stored == TableRows(static, t, s) + (IF Swapped THEN 0 ELSE MemRows(t, s))
                       IN  /\ stored <= accepted[t][s]
                           /\ InRetention(t) => stored = accepted[t][s])'
    BY Zenon DEF NothingLost
  <2>1. MemRows(t, s)' = 0
    BY DecodeNone, Zenon DEF MemRows, NewMemTable
  <2>2. DiskRows(t, s) \in Nat
    BY RowsAreNat, Zenon
  <2>3. InRetention(t)' <=> InRetention(t)
    BY Zenon DEF InRetention, intervalStartOutOfRetention
  <2> QED BY <1>2, <2>1, <2>2, <2>3 DEF DurableOnDisk
<1> QED BY <1>1, <1>3, <1>4, Zenon DEF ContentInv

(* A process begins with what the files that db.json names contain. *)
LEMMA LoadedRows ==
  ASSUME TypeInv, SegmentInv, DimensionInv, OpenDB \/ NewDB
  PROVE  /\ dimFiles[meta.dimGen].st # "torn"
         /\ \A t \in Starts, s \in Strings : TableRows(static, t, s)' = DiskRows(t, s)
<1>1. CASE OpenDB
  <2>1. dimFiles[meta.dimGen].st # "torn"
    BY <1>1, Zenon DEF OpenDB, Loadable, DimsLoad
  <2>2. /\ static'.ivs = meta.ivs /\ static'.dims = dimFiles[meta.dimGen].vals
        /\ \A f \in Files(meta) : mapped'[f] = segs[f]
    BY <1>1, TableTypes, Zenon DEF OpenDB, Fresh
  <2>3. ASSUME NEW t \in Starts, NEW s \in Strings PROVE TableRows(static, t, s)' = DiskRows(t, s)
    <3>1. meta.ivs[t] # NoGen => <<t, meta.ivs[t]>> \in Files(meta)
      BY FilesAt, Zenon
    <3> QED BY <2>2, <3>1, Zenon DEF TableRows, DiskRows
  <2> QED BY <2>1, <2>3, Zenon
<1>2. CASE NewDB
  <2>1. meta = NoMetadata
    BY <1>2, Zenon DEF NewDB, SegmentInv, MetaInv
  <2>2. dimFiles[meta.dimGen].st # "torn"
    BY <2>1 DEF NoMetadata, DimensionInv, NoDimFile
  <2>3. ASSUME NEW t \in Starts, NEW s \in Strings PROVE TableRows(static, t, s)' = DiskRows(t, s)
    BY <1>2, <2>1, Zenon DEF NewDB, Fresh, NoMetadata, NewStaticTable, TableRows, DiskRows
  <2> QED BY <2>2, <2>3, Zenon
<1> QED BY <1>1, <1>2, Zenon

LEMMA LoadDBContent ==
  ASSUME TypeInv, SegmentInv, DimensionInv, ContentInv, OpenDB \/ NewDB
  PROVE  ContentInv'
BY LoadedRows, LoadedContent, Zenon DEF OpenDB, NewDB, Fresh

LEMMA ExitContent ==
  ASSUME TypeInv, SegmentInv, ContentInv, Exit
  PROVE  ContentInv'
<1>1. IdleInv'
  BY Zenon DEF Exit, Fresh, IdleInv
<1>2. WrittenInv' /\ NothingLost'
  BY Zenon DEF Exit, Fresh, WrittenInv, NothingLost, Combining
<1>3. (dimFiles[meta.dimGen].st # "torn" => DurableOnDisk)'
  BY SameDurable, Zenon DEF Exit, ContentInv
<1> QED BY <1>1, <1>2, <1>3, Zenon DEF ContentInv

(* insertRows: the values already counted keep their counts. *)
LEMMA InsertDecodes ==
  ASSUME TypeInv, IndexInv, MemCounts, NEW s \in Strings, memDims' = DimsWith(s), static' = static,
         NEW u \in Starts, NEW v \in Strings
  PROVE  Decode(mem[u], combinedDims', v) = MemRows(u, v)
<1>1. combinedDims' = static.dims \o DimsWith(s)
  BY Zenon DEF combinedDims
<1>2. /\ Distinct(combinedDims') /\ combinedDims \in Seq(Strings)
      /\ combinedDims' = combinedDims \/ combinedDims' = Append(combinedDims, s)
  BY <1>1, NewValue, TableTypes, Zenon
<1>3. mem[u] \in Rows /\ Below(mem[u], Len(combinedDims))
  BY Zenon DEF IndexInv, DistinctInv, TypeInv, TypeOK, ProcessTypeOK
<1>4. CASE combinedDims' = combinedDims
  BY <1>4, Zenon DEF MemRows
<1>5. CASE combinedDims' = Append(combinedDims, s)
  <2>1. combinedDims' = combinedDims \o <<s>> /\ <<s>> \in Seq(Strings)
    BY <1>2, <1>5
  <2> QED BY <1>2, <1>3, <2>1, DecodeExtend, Zenon DEF MemRows
<1> QED BY <1>2, <1>4, <1>5, Zenon

(* insertRows adds one to the count of the row's interval and value. *)
LEMMA StoredRow ==
  ASSUME TypeInv, IndexInv, MemCounts, NEW t \in Starts, NEW s \in Strings, StoreRow(t, s),
         NEW u \in Starts, NEW v \in Strings
  PROVE  MemRows(u, v)' = MemRows(u, v) + (IF u = t /\ v = s THEN 1 ELSE 0)
<1>1. /\ Holds(combinedDims', s) /\ dimValueIndex(s) = IndexOf(combinedDims', s)
      /\ combinedDims' \in Seq(Strings)
  <2>1. combinedDims' = static.dims \o DimsWith(s)
    BY Zenon DEF StoreRow, combinedDims
  <2>2. DimsWith(s) \in Seq(Strings) /\ static.dims \in Seq(Strings)
    BY NewValue, TableTypes, Zenon
  <2>3. /\ Holds(static.dims \o DimsWith(s), s)
        /\ dimValueIndex(s) = IndexOf(static.dims \o DimsWith(s), s)
    BY NewValue, Zenon
  <2>4. static.dims \o DimsWith(s) \in Seq(Strings)
    BY <2>2
  <2> QED BY <2>1, <2>3, <2>4, Zenon
<1>2. Decode(mem[u], combinedDims', v) = MemRows(u, v)
  BY InsertDecodes, Zenon DEF StoreRow
<1>3. mem \in [Starts -> Rows] /\ mem[u] \in Rows
  BY Zenon DEF TypeInv, TypeOK, ProcessTypeOK
<1>4. CASE u = t
  <2>1. mem'[u] = [mem[u] EXCEPT ![dimValueIndex(s)] = @ + 1]
    BY <1>3, <1>4, Zenon DEF StoreRow
  <2>2. Decode([mem[u] EXCEPT ![dimValueIndex(s)] = @ + 1], combinedDims', v)
          = Decode(mem[u], combinedDims', v) + (IF v = s THEN 1 ELSE 0)
    <3> DEFINE c == combinedDims'
    <3>1. Holds(c, s) /\ c \in Seq(Strings) /\ IndexOf(c, s) \in Idx
      BY <1>1, Zenon DEF StoreRow
    <3> HIDE DEF c
    <3>2. Decode([mem[u] EXCEPT ![IndexOf(c, s)] = @ + 1], c, v)
            = Decode(mem[u], c, v) + (IF v = s THEN 1 ELSE 0)
      BY <1>3, <3>1, DecodeAdd, Zenon
    <3> QED BY <1>1, <3>2, Zenon DEF c
  <2> QED BY <1>2, <1>4, <2>1, <2>2, Zenon DEF MemRows
<1>5. CASE u # t
  <2>1. mem'[u] = mem[u]
    BY <1>3, <1>5, Zenon DEF StoreRow
  <2>2. MemRows(u, v)' = MemRows(u, v)
    BY <1>2, <2>1, Zenon DEF MemRows
  <2> QED BY <1>5, <2>2, RowsAreNat
<1> QED BY <1>4, <1>5, Zenon

LEMMA StoreRowContent ==
  ASSUME TypeInv, IndexInv, ContentInv, NEW t \in Starts, NEW s \in Strings, StoreRow(t, s)
  PROVE  NothingLost'
<1> SUFFICES ASSUME ~failed, NEW u \in Starts, NEW v \in Strings
             PROVE  (LET stored == TableRows(static, u, v) + (IF Swapped THEN 0 ELSE MemRows(u, v))
                     IN  /\ stored <= accepted[u][v]
                         /\ InRetention(u) => stored = accepted[u][v])'
  BY Zenon DEF StoreRow, NothingLost
<1> DEFINE one == IF u = t /\ v = s THEN 1 ELSE 0
<1>1. MemCounts /\ ~Swapped /\ ~Swapped' /\ proc = "up"
  BY Zenon DEF StoreRow, MemCounts, Swapped
<1>2. MemRows(u, v)' = MemRows(u, v) + one
  BY <1>1, StoredRow
<1>3. TableRows(static, u, v)' = TableRows(static, u, v)
  BY StaticRowsKept, Zenon DEF StoreRow
<1>4. accepted'[u][v] = accepted[u][v] + one
  BY DEF StoreRow, TypeInv, TypeOK, DirectoryTypeOK
<1>5. InRetention(u)' <=> InRetention(u)
  BY Zenon DEF StoreRow, InRetention, intervalStartOutOfRetention
<1>6. LET stored == TableRows(static, u, v) + MemRows(u, v)
      IN  stored <= accepted[u][v] /\ (InRetention(u) => stored = accepted[u][v])
  BY <1>1, Zenon DEF ContentInv, NothingLost
<1>7. /\ TableRows(static, u, v) \in Nat /\ MemRows(u, v) \in Nat /\ accepted[u][v] \in Nat
      /\ one \in Nat
  BY RowsAreNat, Zenon
<1> HIDE DEF one
<1> QED BY <1>1, <1>2, <1>3, <1>4, <1>5, <1>6, <1>7

LEMMA DropRowContent ==
  ASSUME TypeInv, IndexInv, ContentInv, NEW s \in Strings, memDims' = DimsWith(s),
         ins = "insertRows", ins' \in {"idle", "insertRows"},
         UNCHANGED <<proc, failed, mem, static, mapped, accepted, clock>>
  PROVE  NothingLost'
<1> SUFFICES ASSUME proc = "up", ~failed, NEW u \in Starts, NEW v \in Strings
             PROVE  (LET stored == TableRows(static, u, v) + (IF Swapped THEN 0 ELSE MemRows(u, v))
                     IN  /\ stored <= accepted[u][v]
                         /\ InRetention(u) => stored = accepted[u][v])'
  BY Zenon DEF NothingLost
<1>1. MemCounts /\ ~Swapped /\ ~Swapped'
  BY Zenon DEF MemCounts, Swapped
<1>2. MemRows(u, v)' = MemRows(u, v)
  BY <1>1, InsertDecodes, Zenon DEF MemRows
<1>3. TableRows(static, u, v)' = TableRows(static, u, v)
  BY StaticRowsKept, Zenon
<1>4. InRetention(u)' <=> InRetention(u)
  BY Zenon DEF InRetention, intervalStartOutOfRetention
<1> QED BY <1>1, <1>2, <1>3, <1>4, Zenon DEF ContentInv, NothingLost

(* The rest of the invariant, in the steps that insert. *)
LEMMA InsertContent ==
  ASSUME TypeInv, SegmentInv, IndexInv, ContentInv, InsertStep
  PROVE  ContentInv'
<1>1. /\ proc = "up" /\ proc' = "up" /\ ins' \in {"idle", "insertRows"}
      /\ UNCHANGED <<diskVars, clock, durable>>
  BY Zenon DEF InsertStep, StoreRow, DropRow, RejectRow, InsertDone
<1>2. IdleInv' /\ WrittenInv'
  BY <1>1, Zenon DEF IdleInv, WrittenInv, Combining
<1>3. (dimFiles[meta.dimGen].st # "torn" => DurableOnDisk)'
  BY <1>1, SameDurable, Zenon DEF ContentInv
<1>4. NothingLost'
  <2>1. ASSUME NEW t \in Starts, NEW s \in Strings, StoreRow(t, s) PROVE NothingLost'
    BY <2>1, StoreRowContent, Zenon
  <2>2. ASSUME NEW t \in Starts, NEW s \in Strings, DropRow(t, s) PROVE NothingLost'
    BY <2>2, DropRowContent, Zenon DEF DropRow
  <2>3. ASSUME NEW s \in Strings, RejectRow(s) PROVE NothingLost'
    BY <2>3, DropRowContent, Zenon DEF RejectRow
  <2>4. CASE InsertDone
    BY <2>4, SameStored, Zenon DEF InsertDone, ContentInv, Swapped
  <2> QED BY <2>1, <2>2, <2>3, <2>4, Zenon DEF InsertStep
<1> QED BY <1>2, <1>3, <1>4, Zenon DEF ContentInv

(* What flush is to write. *)
LEMMA PartitionWritten ==
  ASSUME TypeInv, SegmentInv, PartitionMem
  PROVE  WrittenInv'
<1>1. /\ ins' = "combine" /\ memKeys' \subseteq MemIntervals /\ queued' = memKeys' /\ open' = {}
      /\ \A t \in memKeys' : ~intervalStartOutOfRetention(t)
      /\ \A t \in MemIntervals \ memKeys' : intervalStartOutOfRetention(t)
      /\ UNCHANGED <<mem, static, staticKeys, clock>>
  BY Zenon DEF PartitionMem, SegmentInv, PhaseInv
<1>2. staticKeys \subseteq Keys(static)
  BY Zenon DEF PartitionMem, TypeInv, GenRoom, Writing
<1>3. \A t \in Keys(static) \ staticKeys : intervalStartOutOfRetention(t)
  BY Zenon DEF PartitionMem, SegmentInv, CleanupInv
<1>4. \A t \in Starts \ memKeys' :
        newTable'.ivs[t] = IF t \in staticKeys THEN static.ivs[t] ELSE NoGen
  BY Zenon DEF PartitionMem, NewStaticTable
<1>5. memKeys' \cap Keys(static) \subseteq staticKeys
  BY <1>1, <1>3, Zenon
<1>6. MemIntervals' = MemIntervals /\ Keys(static)' = Keys(static)
      /\ \A t \in Starts : intervalStartOutOfRetention(t)' <=> intervalStartOutOfRetention(t)
  BY <1>1, Zenon DEF MemIntervals, Keys, intervalStartOutOfRetention
<1>7. Keys(static) \subseteq Starts /\ MemIntervals \subseteq Starts
  BY Zenon DEF Keys, MemIntervals
<1> QED BY <1>1, <1>2, <1>3, <1>4, <1>5, <1>6, <1>7, Zenon DEF WrittenInv

(* The segments written so far, other than the one that a step writes. *)
LEMMA WrittenKept ==
  ASSUME TypeInv, SegmentInv, NEW t \in Starts, OpenSegment(t) \/ FreezeInterval(t),
         NEW u \in Starts, u # t
  PROVE  mapped'[<<u, newGeneration(u)>>] = mapped[<<u, newGeneration(u)>>]
<1>1. <<t, newGeneration(t)>> # <<u, newGeneration(u)>>
  BY Zenon
<1>2. <<u, newGeneration(u)>> \in Names
  <2>1. static.ivs[u] \in Gens \cup {NoGen} /\ static.ivs[u] < MaxGen
    BY Zenon DEF OpenSegment, FreezeInterval, TypeInv, TypeOK, ProcessTypeOK, GenRoom, Writing, Table
  <2>2. newGeneration(u) \in Gens
    BY <2>1, ConstantsAssumption DEF newGeneration, Gens, NoGen
  <2> QED BY <2>2, Zenon DEF Names
<1> QED BY <1>1, <1>2, Zenon DEF OpenSegment, FreezeInterval, TypeInv, TypeOK, ProcessTypeOK

LEMMA FreezeWritten ==
  ASSUME TypeInv, SegmentInv, WrittenInv, NEW t \in Starts, FreezeInterval(t)
  PROVE  WrittenInv'
<1>1. /\ proc = "up" /\ proc' = "up" /\ ins = "combine" /\ ins' = "combine" /\ t \in open
      /\ open' = open \ {t} /\ [Next]_vars
      /\ UNCHANGED <<mem, static, staticKeys, memKeys, queued, writeErr, clock>>
  BY Zenon DEF FreezeInterval, Next, FlushStep
<1>2. /\ MemIntervals' = MemIntervals /\ Keys(static)' = Keys(static)
      /\ \A u \in Starts : newGeneration(u)' = newGeneration(u)
      /\ \A u \in Starts : intervalStartOutOfRetention(u)' <=> intervalStartOutOfRetention(u)
  BY <1>1, Zenon DEF MemIntervals, Keys, newGeneration, intervalStartOutOfRetention
<1>3. \A u \in Starts : newRows(u)' = newRows(u)
  <2>1. \A f \in Files(static) : mapped'[f] = mapped[f]
    BY <1>1, SegmentsFrozen, Zenon
  <2>2. \A u \in staticKeys : <<u, static.ivs[u]>> \in Files(static)
    BY <1>1, FilesAt, Zenon DEF WrittenInv, Keys, Combining
  <2> QED BY <1>1, <2>1, <2>2, Zenon DEF newRows
<1>4. newTable' = [newTable EXCEPT !.ivs[t] = newGeneration(t)] /\ newTable \in Table
  BY Zenon DEF FreezeInterval, TypeInv, TypeOK, FlushTypeOK
<1>5. \A u \in Starts : newTable'.ivs[u] = IF u = t THEN newGeneration(t) ELSE newTable.ivs[u]
  BY <1>4, Zenon DEF Table
<1>6. mapped'[<<t, newGeneration(t)>>].rows = newRows(t)
  <2>1. <<t, newGeneration(t)>> \in Names
    BY <1>1, NewName, Zenon
  <2> QED BY <2>1, Zenon DEF FreezeInterval, TypeInv, TypeOK, ProcessTypeOK
<1>7. ~writeErr => \A u \in memKeys \ (queued \cup open') :
                     /\ newTable'.ivs[u] = newGeneration(u)
                     /\ mapped'[<<u, newGeneration(u)>>].rows = newRows(u)
  <2> SUFFICES ASSUME ~writeErr, NEW u \in memKeys, u \notin queued \cup open'
               PROVE  /\ newTable'.ivs[u] = newGeneration(u)
                      /\ mapped'[<<u, newGeneration(u)>>].rows = newRows(u)
    BY Zenon
  <2>1. u \in Starts
    BY Zenon DEF TypeInv, TypeOK, FlushTypeOK
  <2>2. CASE u = t
    BY <1>5, <1>6, <2>1, <2>2, Zenon
  <2>3. CASE u # t
    BY <1>1, <1>5, <2>1, <2>3, WrittenKept, Zenon DEF WrittenInv, Combining
  <2> QED BY <2>2, <2>3, Zenon
<1>8. memKeys \subseteq Starts /\ t \in memKeys
  BY <1>1, Zenon DEF WrittenInv, Combining, TypeInv, TypeOK, FlushTypeOK
<1>9. \A u \in Starts \ memKeys :
        newTable'.ivs[u] = IF u \in staticKeys THEN static.ivs[u] ELSE NoGen
  BY <1>1, <1>5, <1>8, Zenon DEF WrittenInv, Combining
<1>10. (Keys(static) \ staticKeys) \cup (MemIntervals \ memKeys) \subseteq Starts
  BY Zenon DEF Keys, MemIntervals
<1> QED BY <1>1, <1>2, <1>3, <1>7, <1>8, <1>9, <1>10 DEF WrittenInv, Combining

LEMMA WriteFailsWritten ==
  ASSUME TypeInv, SegmentInv, WrittenInv, NEW t \in Starts, WriteIntervalFails(t)
  PROVE  WrittenInv'
<1>1. /\ ins = "combine" /\ ins' = "combine" /\ writeErr' /\ queued' \cup open' \subseteq queued \cup open
      /\ UNCHANGED <<mem, static, staticKeys, memKeys, newTable, clock>>
  BY Zenon DEF WriteIntervalFails
<1>2. /\ MemIntervals' = MemIntervals /\ Keys(static)' = Keys(static)
      /\ \A u \in Starts : intervalStartOutOfRetention(u)' <=> intervalStartOutOfRetention(u)
  BY <1>1, Zenon DEF MemIntervals, Keys, intervalStartOutOfRetention
<1>3. (Keys(static) \ staticKeys) \cup (MemIntervals \ memKeys) \subseteq Starts
  BY Zenon DEF Keys, MemIntervals
<1> QED BY <1>1, <1>2, <1>3, Zenon DEF WrittenInv, Combining

(* The table that a flush publishes has, of each interval, the rows of the    *)
(* StaticTable it replaces and those of the memTable, but for what is out of  *)
(* retention.                                                                 *)
LEMMA SwapRows ==
  ASSUME TypeInv, SegmentInv, IndexInv, ContentInv, SwapTable, NEW t \in Starts, NEW s \in Strings
  PROVE  TableRows(newTable, t, s) =
           (IF t \in Keys(static) \ staticKeys THEN 0 ELSE TableRows(static, t, s))
           + (IF t \in MemIntervals \ memKeys THEN 0 ELSE MemRows(t, s))
<1>1. /\ ins = "swap" /\ ins \in Combining /\ ~failed /\ queued = {} /\ open = {} /\ MemCounts
  BY Zenon DEF SwapTable, SegmentInv, PhaseInv, Combining, MemCounts, Swapped
<1>2. newTable.dims = combinedDims /\ Distinct(combinedDims)
  BY <1>1, Zenon DEF IndexInv, DistinctInv
<1>3. /\ staticKeys \subseteq Keys(static) /\ memKeys \cap Keys(static) \subseteq staticKeys
      /\ t \notin memKeys => newTable.ivs[t] = IF t \in staticKeys THEN static.ivs[t] ELSE NoGen
      /\ t \in memKeys => /\ newTable.ivs[t] = newGeneration(t)
                          /\ mapped[<<t, newGeneration(t)>>].rows = newRows(t)
  BY <1>1, Zenon DEF ContentInv, WrittenInv
<1>4. mem[t] \in Rows /\ TableRows(static, t, s) \in Nat /\ MemRows(t, s) \in Nat
  BY RowsAreNat, Zenon DEF TypeInv, TypeOK, ProcessTypeOK
<1>5. t \notin MemIntervals => MemRows(t, s) = 0
  BY DecodeNone, Zenon DEF MemIntervals, MemRows
<1>6. t \notin Keys(static) => TableRows(static, t, s) = 0
  BY Zenon DEF Keys, TableRows
<1> DEFINE old == mapped[<<t, static.ivs[t]>>].rows
<1>7. ASSUME t \in Keys(static)
      PROVE  /\ old \in Rows /\ static.ivs[t] # NoGen
             /\ Decode(old, combinedDims, s) = TableRows(static, t, s)
  <2>1. <<t, static.ivs[t]>> \in Files(static) /\ <<t, static.ivs[t]>> \in Names /\ static.ivs[t] # NoGen
    BY <1>7, FilesAt, TableTypes, Zenon DEF Keys
  <2>2. old \in Rows /\ Below(old, Len(static.dims))
    BY <2>1, Zenon DEF IndexInv, BelowInv, TypeInv, TypeOK, ProcessTypeOK, Segment
  <2>3. static.dims \in Seq(Strings) /\ memDims \in Seq(Strings)
    BY TableTypes, Zenon
  <2> HIDE DEF old
  <2>4. Decode(old, combinedDims, s) = Decode(old, static.dims, s)
    BY <1>2, <2>2, <2>3, DecodeExtend, Zenon DEF combinedDims
  <2> QED BY <2>1, <2>2, <2>4, Zenon DEF TableRows, old
<1>8. CASE t \in memKeys
  <2>1. TableRows(newTable, t, s) = Decode(newRows(t), combinedDims, s)
    <3>1. newGeneration(t) # NoGen
      <4>1. static.ivs[t] \in Gens \cup {NoGen}
        BY Zenon DEF TypeInv, TypeOK, ProcessTypeOK, Table
      <4>2. t \in staticKeys => static.ivs[t] \in Nat
        BY <1>3, <1>7, <4>1 DEF Gens
      <4> QED BY <4>2 DEF newGeneration, NoGen
    <3> QED BY <1>2, <1>3, <1>8, <3>1, Zenon DEF TableRows
  <2>2. CASE t \in staticKeys
    <3>1. newRows(t) = [i \in Idx |-> mem[t][i] + old[i]]
      BY <2>2, Zenon DEF newRows
    <3>2. Decode(newRows(t), combinedDims, s) = MemRows(t, s) + TableRows(static, t, s)
      <4> HIDE DEF old
      <4> QED BY <1>3, <1>4, <1>7, <2>2, <3>1, DecodeSum DEF MemRows
    <3> QED BY <1>4, <1>8, <2>1, <2>2, <3>2
  <2>3. CASE t \notin staticKeys
    <3>1. Decode(newRows(t), combinedDims, s) = MemRows(t, s)
      BY <2>3, Zenon DEF newRows, MemRows
    <3> QED BY <1>3, <1>4, <1>6, <1>8, <2>1, <2>3, <3>1
  <2> QED BY <2>2, <2>3, Zenon
<1>9. CASE t \notin memKeys /\ t \in staticKeys
  <2>1. TableRows(newTable, t, s) = Decode(old, combinedDims, s)
    BY <1>2, <1>3, <1>7, <1>9, Zenon DEF TableRows
  <2> HIDE DEF old
  <2> QED BY <1>3, <1>4, <1>5, <1>7, <1>9, <2>1
<1>10. CASE t \notin memKeys /\ t \notin staticKeys
  <2>1. TableRows(newTable, t, s) = 0
    BY <1>3, <1>10, Zenon DEF TableRows
  <2> QED BY <1>5, <1>6, <1>10, <2>1
<1> QED BY <1>8, <1>9, <1>10, Zenon

LEMMA SwapContent ==
  ASSUME TypeInv, SegmentInv, IndexInv, ContentInv, SwapTable
  PROVE  ContentInv'
<1>1. /\ proc = "up" /\ proc' = "up" /\ ins = "swap" /\ ins' = "await" /\ static' = newTable
      /\ UNCHANGED <<failed, mapped, diskVars, clock, histVars>>
  BY Zenon DEF SwapTable
<1>2. IdleInv' /\ WrittenInv'
  BY <1>1, Zenon DEF IdleInv, WrittenInv, Combining
<1>3. (dimFiles[meta.dimGen].st # "torn" => DurableOnDisk)'
  BY <1>1, SameDurable, Zenon DEF ContentInv
<1>4. NothingLost'
  <2> SUFFICES ASSUME ~failed, NEW t \in Starts, NEW s \in Strings
               PROVE  (LET stored == TableRows(static, t, s) + (IF Swapped THEN 0 ELSE MemRows(t, s))
                       IN  /\ stored <= accepted[t][s]
                           /\ InRetention(t) => stored = accepted[t][s])'
    BY <1>1, Zenon DEF NothingLost
  <2>1. TableRows(static, t, s)' = TableRows(newTable, t, s) /\ Swapped' /\ ~Swapped
    BY <1>1, Zenon DEF TableRows, Swapped
  <2>2. InRetention(t) => t \notin Keys(static) \ staticKeys /\ t \notin MemIntervals \ memKeys
    BY <1>1, Zenon DEF ContentInv, WrittenInv, Combining, InRetention
  <2>3. InRetention(t)' <=> InRetention(t)
    BY <1>1, Zenon DEF InRetention, intervalStartOutOfRetention
  <2>4. /\ TableRows(static, t, s) + MemRows(t, s) <= accepted[t][s]
        /\ InRetention(t) => TableRows(static, t, s) + MemRows(t, s) = accepted[t][s]
    BY <1>1, <2>1, Zenon DEF ContentInv, NothingLost
  <2>5. /\ TableRows(static, t, s) \in Nat /\ MemRows(t, s) \in Nat /\ accepted[t][s] \in Nat
        /\ TableRows(newTable, t, s) \in Nat
    BY RowsAreNat, Zenon
  <2>6. TableRows(newTable, t, s) <= TableRows(static, t, s) + MemRows(t, s)
    BY <2>5, SwapRows
  <2>7. InRetention(t) => TableRows(newTable, t, s) = TableRows(static, t, s) + MemRows(t, s)
    BY <2>2, SwapRows, Zenon
  <2>8. accepted' = accepted
    BY <1>1, Zenon
  <2> QED BY <2>1, <2>3, <2>4, <2>5, <2>6, <2>7, <2>8
<1> QED BY <1>2, <1>3, <1>4, Zenon DEF ContentInv

(* db.json is written: what is durable is what the StaticTable holds. *)
(* What db.json names, once it is written, is what the StaticTable contains. *)
LEMMA MetadataRows ==
  ASSUME TypeInv, DimensionInv, IndexInv, writeMetadataFile, dimFiles[static.dimGen].st # "torn",
         NEW t \in Starts, NEW s \in Strings
  PROVE  DiskRows(t, s)' = TableRows(static, t, s)
<1>1. /\ meta'.ivs = static.ivs /\ meta'.dimGen = static.dimGen
      /\ UNCHANGED <<segs, dimFiles>>
  BY Zenon DEF writeMetadataFile
<1>2. dimFiles[static.dimGen].vals = static.dims
  BY Zenon DEF DimensionInv, DimsKept
<1>3. static.ivs[t] # NoGen => segs[<<t, static.ivs[t]>>].rows = mapped[<<t, static.ivs[t]>>].rows
  BY FilesAt DEF IndexInv, CopyInv, SameOnDisk
<1> QED BY <1>1, <1>2, <1>3, Zenon DEF DiskRows, TableRows

LEMMA MetadataContent ==
  ASSUME TypeInv, SegmentInv, DimensionInv, IndexInv, ContentInv, writeMetadataFile
  PROVE  ContentInv'
<1>1. /\ proc = "up" /\ proc' = "up" /\ ins = "metadata" /\ ins' = "removeDims"
      /\ meta'.ivs = static.ivs /\ meta'.dimGen = static.dimGen /\ durable' = accepted
      /\ UNCHANGED <<failed, mem, memDims, static, mapped, segs, dimFiles, clock, accepted>>
  BY Zenon DEF writeMetadataFile
<1>2. IdleInv' /\ WrittenInv'
  BY <1>1, Zenon DEF IdleInv, WrittenInv, Combining
<1>3. NothingLost'
  BY <1>1, SameStored, Zenon DEF ContentInv, Swapped
<1>4. ASSUME dimFiles[static.dimGen].st # "torn" PROVE DurableOnDisk'
  <2> SUFFICES ASSUME NEW t \in Starts, NEW s \in Strings
               PROVE  (/\ DiskRows(t, s) <= durable[t][s]
                       /\ InRetention(t) => DiskRows(t, s) = durable[t][s])'
    BY Zenon DEF DurableOnDisk
  <2>1. DiskRows(t, s)' = TableRows(static, t, s)
    BY <1>4, MetadataRows, Zenon
  <2>2. ~failed /\ Swapped
    BY <1>1, Zenon DEF SegmentInv, PhaseInv, Swapped
  <2>3. InRetention(t)' <=> InRetention(t)
    BY <1>1, Zenon DEF InRetention, intervalStartOutOfRetention
  <2>4. TableRows(static, t, s) \in Nat
    BY RowsAreNat, Zenon
  <2>5. /\ TableRows(static, t, s) <= accepted[t][s]
        /\ InRetention(t) => TableRows(static, t, s) = accepted[t][s]
    BY <1>1, <2>2, <2>4 DEF ContentInv, NothingLost
  <2> QED BY <1>1, <2>1, <2>3, <2>5, Zenon
<1> QED BY <1>1, <1>2, <1>3, <1>4, Zenon DEF ContentInv

LEMMA FlushDoneContent ==
  ASSUME TypeInv, SegmentInv, ContentInv, FlushDone
  PROVE  ContentInv'
<1>1. /\ proc = "up" /\ proc' = "up" /\ ins = "cleanup" /\ ins' = "idle" /\ mem' = NewMemTable
      /\ UNCHANGED <<failed, static, mapped, diskVars, clock, histVars>>
  BY Zenon DEF FlushDone
<1>2. IdleInv' /\ WrittenInv'
  BY <1>1, Zenon DEF IdleInv, WrittenInv, Combining
<1>3. (dimFiles[meta.dimGen].st # "torn" => DurableOnDisk)'
  BY <1>1, SameDurable, Zenon DEF ContentInv
<1>4. NothingLost'
  <2> SUFFICES ASSUME ~failed, NEW t \in Starts, NEW s \in Strings
               PROVE  (LET stored == TableRows(static, t, s) + (IF Swapped THEN 0 ELSE MemRows(t, s))
                       IN  /\ stored <= accepted[t][s]
                           /\ InRetention(t) => stored = accepted[t][s])'
    BY <1>1, Zenon DEF NothingLost
  <2>1. TableRows(static, t, s)' = TableRows(static, t, s) /\ TableRows(static, t, s) \in Nat
    BY <1>1, StaticRowsKept, RowsAreNat, Zenon
  <2>2. MemRows(t, s)' = 0
    BY <1>1, DecodeNone, Zenon DEF MemRows, NewMemTable
  <2>3. InRetention(t)' <=> InRetention(t)
    BY <1>1, Zenon DEF InRetention, intervalStartOutOfRetention
  <2>4. Swapped /\ ~Swapped'
    BY <1>1, Zenon DEF Swapped
  <2> QED BY <1>1, <2>1, <2>2, <2>3, <2>4, Zenon DEF ContentInv, NothingLost
<1> QED BY <1>2, <1>3, <1>4, Zenon DEF ContentInv

-----------------------------------------------------------------------------
(* The steps of flush that only write, remove or wait. *)
LEMMA FlushContent ==
  ASSUME TypeInv, SegmentInv, DimensionInv, ContentInv, [Next]_vars, proc = "up", proc' = "up",
         UNCHANGED <<static, memVars, meta, clock, histVars>>,
         dimFiles'[meta.dimGen] = dimFiles[meta.dimGen],
         ~failed' => ~failed /\ (Swapped' <=> Swapped),
         ins' \in Combining =>
           /\ ins \in Combining /\ newTable'.ivs = newTable.ivs /\ (writeErr' => ins' = "combine")
           /\ UNCHANGED <<staticKeys, memKeys, writeErr>>
           /\ queued' \cup open' = queued \cup open
           /\ mapped' = mapped \/ \E t \in queued : OpenSegment(t)
  PROVE  ContentInv'
<1>1. /\ \A f \in Files(static) : mapped'[f] = mapped[f]
      /\ \A f \in Files(meta) : segs'[f] = segs[f]
  BY SegmentsFrozen, Zenon
<1>2. memKeys \subseteq Starts /\ queued \subseteq Starts
  BY Zenon DEF TypeInv, TypeOK, FlushTypeOK
<1>3. ins' \in Combining =>
        \A t \in memKeys \ (queued \cup open) :
          mapped'[<<t, newGeneration(t)>>] = mapped[<<t, newGeneration(t)>>]
  BY <1>2, WrittenKept, Zenon
<1> QED BY <1>1, <1>3, SameContent, Zenon

LEMMA CombineContent ==
  ASSUME TypeInv, SegmentInv, ContentInv, [Next]_vars, proc = "up", proc' = "up", ~Swapped, ~Swapped',
         UNCHANGED <<failed, static, memVars, meta, dimFiles, clock, histVars>>, WrittenInv'
  PROVE  ContentInv'
<1>1. /\ \A f \in Files(static) : mapped'[f] = mapped[f]
      /\ \A f \in Files(meta) : segs'[f] = segs[f]
  BY SegmentsFrozen, Zenon
<1>2. IdleInv'
  BY Zenon DEF IdleInv
<1>3. NothingLost'
  BY <1>1, SameStored, Zenon DEF ContentInv
<1>4. (dimFiles[meta.dimGen].st # "torn" => DurableOnDisk)'
  BY <1>1, SameDurable, Zenon DEF ContentInv
<1> QED BY <1>2, <1>3, <1>4, Zenon DEF ContentInv

(* The dimension table of db.json is neither rewritten nor removed. *)
LEMMA DimContent ==
  ASSUME TypeInv, SegmentInv, DimensionInv, ContentInv, OpenDimFile \/ EncodeDims \/ RemoveOldDims
  PROVE  ContentInv'
<1>1. dimFiles'[meta.dimGen] = dimFiles[meta.dimGen]
  BY OpenDimFileKeeps, EncodeDimsKeeps, RemoveOldDimsKeeps, Zenon
<1>2. Next
  BY Zenon DEF Next, FlushStep
<1>3. OpenDimFile => newTable'.ivs = newTable.ivs
  BY Zenon DEF OpenDimFile, TypeInv, TypeOK, FlushTypeOK, Table
<1>4. ins \in Combining => (writeErr => ins = "combine")
  BY Zenon DEF ContentInv, WrittenInv
<1>5. /\ proc = "up" /\ proc' = "up" /\ failed' = failed /\ mapped' = mapped
      /\ UNCHANGED <<static, memVars, meta, clock, histVars>>
      /\ UNCHANGED <<staticKeys, memKeys, writeErr, queued, open>>
      /\ \/ ins = "storeDims" /\ ins' = "encodeDims" /\ OpenDimFile
         \/ ins = "encodeDims" /\ ins' = "swap" /\ newTable' = newTable
         \/ ins = "removeDims" /\ ins' = "cleanup"
  BY Zenon DEF OpenDimFile, EncodeDims, RemoveOldDims
<1> QED BY <1>1, <1>2, <1>3, <1>4, <1>5, FlushContent, Zenon DEF Combining, Swapped

(* ContentInv is inductive, given the invariants before it. *)
LEMMA ContentNext ==
  TypeInv /\ SegmentInv /\ DimensionInv /\ IndexInv /\ ContentInv /\ [Next]_vars => ContentInv'
<1> SUFFICES ASSUME TypeInv, SegmentInv, DimensionInv, IndexInv, ContentInv, [Next]_vars
             PROVE  ContentInv'
  BY Zenon
<1>1. CASE OpenDB \/ NewDB
  BY <1>1, LoadDBContent, Zenon
<1>2. CASE LoadDBFatal \/ Relaunch \/ Tick \/ UNCHANGED vars
  <2>1. /\ UNCHANGED <<ins, failed, memVars, static, mapped, readerVars, flushVars, diskVars, histVars>>
        /\ clock' \in {clock, clock + 1} /\ (proc' = "up" <=> proc = "up")
    BY <1>2, Zenon DEF LoadDBFatal, Relaunch, Tick, vars
  <2>2. writeErr /\ ins \in Combining => ins = "combine"
    BY Zenon DEF ContentInv, WrittenInv
  <2> QED BY <2>1, <2>2, SameContent, Zenon DEF Swapped
<1>3. CASE Crash \/ ExitOnFlushError
  BY <1>3, ExitContent, Zenon DEF Crash, ExitOnFlushError
<1>4. CASE HandleInsert \/ FlushStart
  BY <1>4, FlushContent DEF HandleInsert, FlushStart, Combining, Swapped
<1>5. CASE InsertStep
  BY <1>5, InsertContent, Zenon
<1>6. CASE PartitionMem
  BY <1>6, PartitionWritten, CombineContent, Zenon DEF PartitionMem, Swapped
<1>7. ASSUME NEW t \in Starts, OpenSegment(t) PROVE ContentInv'
  <2>1. writeErr /\ ins \in Combining => ins = "combine"
    BY Zenon DEF ContentInv, WrittenInv
  <2>2. queued' \cup open' = queued \cup open /\ t \in queued
    BY <1>7, Zenon DEF OpenSegment
  <2> QED BY <1>7, <2>1, <2>2, FlushContent, Zenon DEF OpenSegment, Swapped
<1>8. ASSUME NEW t \in Starts, FreezeInterval(t) PROVE ContentInv'
  BY <1>8, FreezeWritten, CombineContent, Zenon DEF FreezeInterval, ContentInv, Swapped
<1>9. ASSUME NEW t \in Starts, WriteIntervalFails(t) PROVE ContentInv'
  BY <1>9, WriteFailsWritten, CombineContent, Zenon DEF WriteIntervalFails, ContentInv, Swapped
<1>10. CASE CombineFails \/ StoreFails \/ WriteMetadataFails
  BY <1>10, FlushContent, Zenon DEF CombineFails, StoreFails, WriteMetadataFails, FlushFails, Combining
<1>11. CASE CombineDone
  BY <1>11, FlushContent, Zenon DEF CombineDone, Combining, Swapped
<1>12. CASE ReuseDims \/ DimCloseFails
  <2>1. ~writeErr
    BY <1>12, Zenon DEF ReuseDims, DimCloseFails, ContentInv, WrittenInv, Combining
  <2>2. newTable'.ivs = newTable.ivs
    BY <1>12, Zenon DEF ReuseDims, DimCloseFails, TypeInv, TypeOK, FlushTypeOK, Table
  <2> QED BY <1>12, <2>1, <2>2, FlushContent DEF ReuseDims, DimCloseFails, Combining, Swapped
<1>13. CASE OpenDimFile \/ EncodeDims \/ RemoveOldDims
  BY <1>13, DimContent, Zenon
<1>14. CASE SwapTable
  BY <1>14, SwapContent, Zenon
<1>15. CASE RequestsFinished
  BY <1>15, FlushContent, Zenon DEF RequestsFinished, Combining, Swapped
<1>16. CASE writeMetadataFile
  BY <1>16, MetadataContent, Zenon
<1>17. ASSUME NEW f \in Names, cleanUpOldIntervals(f) PROVE ContentInv'
  BY <1>17, FlushContent, Zenon DEF cleanUpOldIntervals, Combining, Swapped
<1>18. CASE FlushDone
  BY <1>18, FlushDoneContent, Zenon
<1>19. ASSUME NEW r \in Readers, HandleRequest(r) \/ Respond(r) \/ Done(r) PROVE ContentInv'
  <2>1. /\ proc = "up"
        /\ UNCHANGED <<procVars, memVars, static, mapped, flushVars, diskVars, clock, histVars>>
    BY <1>19, Zenon DEF HandleRequest, Respond, Done
  <2>2. writeErr /\ ins \in Combining => ins = "combine"
    BY Zenon DEF ContentInv, WrittenInv
  <2> QED BY <2>1, <2>2, FlushContent, Zenon DEF Swapped
<1> QED
  BY <1>1, <1>2, <1>3, <1>4, <1>5, <1>6, <1>7, <1>8, <1>9, <1>10, <1>11, <1>12, <1>13, <1>14,
     <1>15, <1>16, <1>17, <1>18, <1>19, Zenon DEF Next, LoadDB, FlushStep

(* All the invariants of the storage engine, together. *)
THEOREM ContentKept ==
  Spec => [](TypeInv /\ SegmentInv /\ DimensionInv /\ IndexInv /\ ContentInv)
<1>1. Init => ContentInv
  BY TypeInit, ContentInit, Zenon
<1> QED BY <1>1, ContentNext, DimensionsKept, IndexesKept, PTL DEF Spec

(***************************************************************************)
(* Whatever is inserted, flushed, requested and killed in whatever order,  *)
(* the StaticTable and the memTable of a process none of whose flushes has *)
(* failed hold every row insertRows stored whose interval is in retention, *)
(* each exactly once and under its own dimension value.                    *)
(***************************************************************************)
THEOREM NothingIsLost == Spec => []NothingLost
<1>1. ContentInv => NothingLost
  BY Zenon DEF ContentInv
<1> QED BY <1>1, ContentKept, PTL

(***************************************************************************)
(* What the files named by db.json contain is what had been inserted when  *)
(* db.json was last written: "restarting will return us to a consistent    *)
(* state".  As for MetadataAlwaysLoadable, Store must report its errors.   *)
(***************************************************************************)
THEOREM DurableStaysOnDisk ==
  ASSUME "close" \notin Faults
  PROVE  Spec => []DurableOnDisk
<1>1. DimensionInv /\ ContentInv => DurableOnDisk
  BY Zenon DEF DimensionInv, UntornInv, ContentInv
<1> QED BY <1>1, ContentKept, PTL
-----------------------------------------------------------------------------
(* The refinement of SnapshotStore.  First what a step leaves alone. *)

LEMMA SamePending ==
  ASSUME UNCHANGED <<static, mem, memDims>>, (failed' \/ Swapped') <=> (failed \/ Swapped)
  PROVE  Pending' = Pending
<1>1. \A t \in Starts, s \in Strings : MemRows(t, s)' = MemRows(t, s)
  BY MemRowsKept, Zenon
<1> QED BY <1>1, Zenon DEF Pending

LEMMA NonePending ==
  /\ failed \/ Swapped \/ mem = NewMemTable => Pending = Store!None
  /\ failed' \/ Swapped' \/ mem' = NewMemTable => Pending' = Store!None
<1>1. /\ mem = NewMemTable => \A t \in Starts, s \in Strings : MemRows(t, s) = 0
      /\ mem' = NewMemTable => \A t \in Starts, s \in Strings : MemRows(t, s)' = 0
  BY DecodeNone, Zenon DEF NewMemTable, MemRows
<1> QED BY <1>1, Zenon DEF Pending, Store!None

LEMMA SameDisk ==
  ASSUME meta' = meta, \A f \in Files(meta) : segs'[f] = segs[f],
         dimFiles'[meta.dimGen] = dimFiles[meta.dimGen]
  PROVE  Disk' = Disk
<1>1. \A t \in Starts, s \in Strings : DiskRows(t, s)' = DiskRows(t, s)
  BY DiskRowsKept, Zenon
<1> QED BY <1>1, Zenon DEF Disk

LEMMA SameStatic ==
  ASSUME static' = static, \A f \in Files(static) : mapped'[f] = mapped[f]
  PROVE  Content(static)' = Content(static)
<1>1. \A t \in Starts, s \in Strings : TableRows(static, t, s)' = TableRows(static, t, s)
  BY StaticRowsKept, Zenon
<1> QED BY <1>1, Zenon DEF Content

LEMMA NoContent == Content(NewStaticTable) = Store!None
BY Zenon DEF Content, TableRows, NewStaticTable, Store!None

(* A request that goes on sees what it saw, and a client without one nothing. *)
LEMMA SameView ==
  ASSUME TypeInv, SegmentInv, IdleViews, IdleViews', [Next]_vars, NEW r \in Readers,
         rd'[r] = "idle" <=> rd[r] = "idle"
  PROVE  Content(view[r])' = Content(view[r])
<1>1. CASE rd[r] # "idle"
  <2>1. view'[r] = view[r] /\ \A f \in Files(view[r]) : mapped'[f] = mapped[f]
    BY <1>1, ViewFrozen, Zenon
  <2>2. \A t \in Starts : view[r].ivs[t] # NoGen => <<t, view[r].ivs[t]>> \in Files(view[r])
    BY FilesAt
  <2>3. \A t \in Starts, s \in Strings : TableRows(view[r], t, s)' = TableRows(view[r], t, s)
    BY <2>1, <2>2, Zenon DEF TableRows
  <2> QED BY <2>3, Zenon DEF Content
<1>2. CASE rd[r] = "idle"
  BY <1>2 DEF IdleViews, Content, TableRows, NewStaticTable
<1> QED BY <1>1, <1>2, Zenon

LEMMA SameRequests ==
  ASSUME TypeInv, SegmentInv, IdleViews, IdleViews', [Next]_vars,
         \A r \in Readers : rd'[r] = "idle" <=> rd[r] = "idle"
  PROVE  Reading' = Reading /\ Snap' = Snap
<1>1. \A r \in Readers : Content(view[r])' = Content(view[r])
  BY SameView, Zenon
<1> QED BY <1>1, Zenon DEF Reading, Snap

(* A running process whose db.json is not replaced. *)
LEMMA SameOutside ==
  ASSUME TypeInv, SegmentInv, [Next]_vars, proc = "up", proc' = "up", meta' = meta,
         dimFiles'[meta.dimGen] = dimFiles[meta.dimGen]
  PROVE  Disk' = Disk /\ (static' = static => Published' = Published)
<1>1. /\ \A f \in Files(static) : mapped'[f] = mapped[f]
      /\ \A f \in Files(meta) : segs'[f] = segs[f]
  BY SegmentsFrozen, Zenon
<1>2. Disk' = Disk
  BY <1>1, SameDisk, Zenon
<1>3. static' = static => Content(static)' = Content(static)
  BY <1>1, SameStatic, Zenon
<1> QED BY <1>2, <1>3, Zenon DEF Published

(* What flush does between and after its visible steps. *)
LEMMA FlushStutters ==
  ASSUME TypeInv, SegmentInv, IdleViews, IdleViews', [Next]_vars, proc = "up", proc' = "up",
         UNCHANGED <<static, memVars, meta, failed, clock>>, Swapped' <=> Swapped,
         dimFiles'[meta.dimGen] = dimFiles[meta.dimGen],
         \A r \in Readers : rd'[r] = "idle" <=> rd[r] = "idle"
  PROVE  UNCHANGED Store!vars
<1>1. Pending' = Pending
  BY SamePending, Zenon
<1>2. Disk' = Disk /\ Published' = Published
  BY SameOutside, Zenon
<1>3. Reading' = Reading /\ Snap' = Snap
  BY SameRequests, Zenon
<1> QED BY <1>1, <1>2, <1>3, Zenon DEF Store!vars

(* The steps, one lemma for each of SnapshotStore's actions. *)
LEMMA InitStore == Init => Store!Init
<1> SUFFICES ASSUME Init PROVE Store!Init
  BY Zenon
<1>1. Pending = Store!None
  BY NonePending, Zenon DEF Init
<1>2. Disk = Store!None
  BY Zenon DEF Init, NoMetadata, NewStaticTable, Disk, DiskRows, Store!None
<1>3. Published = Disk /\ Reading = {}
  BY Zenon DEF Init, Published, Reading
<1>4. Snap = [r \in Readers |-> Store!None]
  BY NoContent, Zenon DEF Init, Snap
<1> QED BY <1>1, <1>2, <1>3, <1>4, Zenon DEF Init, Store!Init

LEMMA LoadStutters ==
  ASSUME TypeInv, SegmentInv, DimensionInv, ContentInv, IdleViews, IdleViews', [Next]_vars,
         OpenDB \/ NewDB
  PROVE  UNCHANGED Store!vars
<1>1. /\ proc = "down" /\ proc' = "up" /\ ~failed' /\ mem' = NewMemTable
      /\ \A r \in Readers : rd'[r] = "idle"
      /\ UNCHANGED <<diskVars, clock>>
  BY Zenon DEF OpenDB, NewDB, Fresh
<1>2. mem = NewMemTable /\ ~failed /\ \A r \in Readers : rd[r] = "idle"
  BY <1>1, Zenon DEF ContentInv, IdleInv
<1>3. Pending' = Pending
  BY <1>1, <1>2, NonePending, Zenon
<1>4. Disk' = Disk
  BY <1>1, SameDisk, Zenon
<1>5. Published' = Published
  <2>1. \A t \in Starts, s \in Strings : TableRows(static, t, s)' = DiskRows(t, s)
    BY LoadedRows, Zenon
  <2>2. Content(static)' = Disk
    BY <2>1, Zenon DEF Content, Disk
  <2> QED BY <1>1, <2>2, Zenon DEF Published
<1>6. Reading' = Reading /\ Snap' = Snap
  BY <1>1, <1>2, SameRequests, Zenon
<1>7. failed' = failed
  BY <1>1, <1>2, Zenon DEF OpenDB, NewDB, Fresh, TypeInv, TypeOK, ProcessTypeOK
<1> QED BY <1>1, <1>3, <1>4, <1>5, <1>6, <1>7, Zenon DEF Store!vars

LEMMA ExitStep ==
  ASSUME Exit, proc = "up"
  PROVE  Store!Exit
<1>1. Pending' = Store!None
  BY NonePending, Zenon DEF Exit, Fresh
<1>2. Disk' = Disk
  BY SameDisk, Zenon DEF Exit
<1>3. Published' = Disk'
  BY Zenon DEF Exit, Published
<1>4. Reading' = {}
  BY Zenon DEF Exit, Fresh, Reading
<1>5. Snap' = [r \in Readers |-> Store!None]
  <2>1. \A r \in Readers : Content(view[r])' = Store!None
    BY Zenon DEF Exit, Fresh, Content, TableRows, NewStaticTable, Store!None
  <2> QED BY <2>1, Zenon DEF Snap
<1> QED BY <1>1, <1>2, <1>3, <1>4, <1>5, Zenon DEF Exit, Fresh, Store!Exit

LEMMA TickStep ==
  ASSUME UNCHANGED <<procVars, memVars, static, mapped, readerVars, diskVars>>
  PROVE  /\ UNCHANGED <<Pending, Published, Disk, Reading, Snap, failed>>
         /\ Tick => Store!Tick
<1>1. Pending' = Pending /\ Disk' = Disk
  BY SamePending, SameDisk, Zenon DEF Swapped
<1>2. Published' = Published
  BY <1>1, SameStatic, Zenon DEF Published
<1>3. Reading' = Reading
  BY Zenon DEF Reading
<1>4. Snap' = Snap
  BY Zenon DEF Snap, Content, TableRows
<1> QED BY <1>1, <1>2, <1>3, <1>4, Zenon DEF Tick, Store!Tick

LEMMA FailStep ==
  ASSUME TypeInv, SegmentInv, IdleViews, IdleViews', [Next]_vars, proc = "up", ~failed,
         FlushFails, UNCHANGED diskVars
  PROVE  Store!FlushFails
<1>1. Pending' = Store!None
  BY NonePending, Zenon DEF FlushFails
<1>2. Disk' = Disk /\ Published' = Published
  BY SameOutside, Zenon DEF FlushFails
<1>3. Reading' = Reading /\ Snap' = Snap
  BY SameRequests, Zenon DEF FlushFails
<1> QED BY <1>1, <1>2, <1>3, Zenon DEF FlushFails, Store!FlushFails

(* The rows of a batch: pending, unless the process is to exit. *)
LEMMA InsertSteps ==
  ASSUME TypeInv, SegmentInv, DimensionInv, IndexInv, IdleViews, IdleViews', [Next]_vars,
         InsertStep
  PROVE  [Store!Next]_(Store!vars)
<1>1. /\ proc = "up" /\ proc' = "up" /\ ~Swapped /\ ~Swapped'
      /\ UNCHANGED <<failed, static, diskVars, rd, clock>>
  BY Zenon DEF InsertStep, StoreRow, DropRow, RejectRow, InsertDone, Swapped
<1>2. Disk' = Disk /\ Published' = Published
  BY <1>1, SameOutside, Zenon
<1>3. Reading' = Reading /\ Snap' = Snap
  BY <1>1, SameRequests, Zenon
<1>4. CASE failed
  <2>1. Pending' = Pending
    BY <1>1, <1>4, NonePending, Zenon
  <2> QED BY <1>1, <1>2, <1>3, <2>1, Zenon DEF Store!vars
<1>5. ASSUME ~failed, NEW t \in Starts, NEW s \in Strings, StoreRow(t, s)
      PROVE  Store!Insert(t, s)
  <2>1. \A u \in Starts, v \in Strings :
          MemRows(u, v)' = MemRows(u, v) + (IF u = t /\ v = s THEN 1 ELSE 0)
    BY <1>1, <1>5, StoredRow, Zenon DEF MemCounts
  <2>2. \A u \in Starts, v \in Strings : MemRows(u, v) \in Nat
    BY RowsAreNat, Zenon
  <2>3. /\ Pending = [u \in Starts |-> [v \in Strings |-> MemRows(u, v)]]
        /\ Pending' = [u \in Starts |-> [v \in Strings |-> MemRows(u, v)']]
    BY <1>1, <1>5, Zenon DEF Pending
  <2>4. Pending' = [Pending EXCEPT ![t][s] = @ + 1]
    <3>1. /\ Pending \in [Starts -> [Strings -> Nat]] /\ Pending' \in [Starts -> [Strings -> Nat]]
          /\ \A u \in Starts, v \in Strings : Pending'[u][v] = Pending[u][v] + (IF u = t /\ v = s THEN 1 ELSE 0)
      BY <2>1, <2>2, <2>3
    <3> QED BY <3>1, OneMore
  <2>5. t \notin Store!Expired
    BY <1>5, Zenon DEF StoreRow, intervalStartOutOfRetention, Store!Expired
  <2> QED BY <1>1, <1>2, <1>3, <1>5, <2>4, <2>5, Zenon DEF Store!Insert
<1>6. ASSUME ~failed, NEW s \in Strings, mem' = mem, memDims' \in {memDims, DimsWith(s)}
      PROVE  UNCHANGED Store!vars
  <2>1. ASSUME NEW u \in Starts, NEW v \in Strings PROVE MemRows(u, v)' = MemRows(u, v)
    <3>1. CASE memDims' = memDims
      BY <1>1, <1>6, <3>1, MemRowsKept, Zenon
    <3>2. CASE memDims' = DimsWith(s)
      BY <1>1, <1>6, <3>2, InsertDecodes, Zenon DEF MemRows, MemCounts
    <3> QED BY <1>6, <3>1, <3>2, Zenon
  <2>2. Pending' = Pending
    BY <1>1, <2>1, Zenon DEF Pending
  <2> QED BY <1>1, <1>2, <1>3, <2>2, Zenon DEF Store!vars
<1>7. CASE InsertDone
  <2>1. Pending' = Pending
    BY <1>1, <1>7, SamePending DEF InsertDone
  <2> QED BY <1>1, <1>2, <1>3, <2>1, Zenon DEF Store!vars
<1>8. ASSUME ~failed, NEW s \in Strings, RejectRow(s) \/ \E t \in Starts : DropRow(t, s)
      PROVE  UNCHANGED Store!vars
  BY <1>6, <1>8, Zenon DEF RejectRow, DropRow
<1> QED BY <1>4, <1>5, <1>7, <1>8, Zenon DEF InsertStep, Store!Next

(* SwapTable publishes everything pending, at once. *)
LEMMA PublishStep ==
  ASSUME TypeInv, SegmentInv, IndexInv, ContentInv, IdleViews, IdleViews', [Next]_vars, SwapTable
  PROVE  Store!Publish
<1> DEFINE lost == Keys(static) \ staticKeys
           stale == MemIntervals \ memKeys
<1>1. /\ proc = "up" /\ proc' = "up" /\ ins = "swap" /\ ~failed /\ ~Swapped /\ Swapped'
      /\ static' = newTable /\ UNCHANGED <<failed, mapped, diskVars, rd, clock>>
  BY Zenon DEF SwapTable, SegmentInv, PhaseInv, Swapped
<1>2. lost \in SUBSET Store!Expired /\ stale \in SUBSET Store!Expired
  <2>1. lost \subseteq Starts /\ stale \subseteq Starts
    BY Zenon DEF Keys, MemIntervals
  <2>2. \A t \in lost \cup stale : intervalStartOutOfRetention(t)
    BY <1>1, Zenon DEF ContentInv, WrittenInv, Combining
  <2> QED BY <2>1, <2>2, Zenon DEF intervalStartOutOfRetention, Store!Expired
<1>3. Published' = [t \in Starts |-> [s \in Strings |->
                      (IF t \in lost THEN 0 ELSE Published[t][s])
                      + (IF t \in stale THEN 0 ELSE Pending[t][s])]]
  <2>1. \A t \in Starts, s \in Strings :
          Published[t][s] = TableRows(static, t, s) /\ Pending[t][s] = MemRows(t, s)
    BY <1>1, Zenon DEF Published, Content, Pending
  <2>2. \A t \in Starts, s \in Strings : TableRows(static, t, s)' = TableRows(newTable, t, s)
    BY <1>1, Zenon DEF TableRows
  <2>3. Published' = [t \in Starts |-> [s \in Strings |-> TableRows(static, t, s)']]
    BY <1>1, Zenon DEF Published, Content
  <2>4. \A t \in Starts, s \in Strings : TableRows(newTable, t, s) =
          (IF t \in lost THEN 0 ELSE TableRows(static, t, s))
          + (IF t \in stale THEN 0 ELSE MemRows(t, s))
    BY SwapRows, Zenon
  <2> HIDE DEF lost, stale
  <2> QED BY <2>1, <2>2, <2>3, <2>4
<1>4. Pending' = Store!None
  BY <1>1, NonePending, Zenon
<1>5. Disk' = Disk
  BY <1>1, SameDisk, Zenon
<1>6. Reading' = Reading /\ Snap' = Snap
  BY <1>1, SameRequests, Zenon
<1> HIDE DEF lost, stale
<1> QED BY <1>1, <1>2, <1>3, <1>4, <1>5, <1>6, Zenon DEF Store!Publish

(* db.json is replaced by one that names what is published. *)
LEMMA PersistStep ==
  ASSUME "close" \notin Faults, TypeInv, SegmentInv, DimensionInv, IndexInv, IdleViews, IdleViews',
         [Next]_vars, writeMetadataFile
  PROVE  Store!Persist
<1>1. /\ proc = "up" /\ proc' = "up" /\ ~failed /\ Swapped /\ Swapped'
      /\ UNCHANGED <<failed, memVars, static, mapped, rd, clock>>
  BY Zenon DEF writeMetadataFile, SegmentInv, PhaseInv, Swapped
<1>2. Disk' = Published
  <2>1. dimFiles[static.dimGen].st # "torn"
    BY Zenon DEF DimensionInv, UntornInv
  <2>2. \A t \in Starts, s \in Strings : DiskRows(t, s)' = TableRows(static, t, s)
    BY <2>1, MetadataRows, Zenon
  <2> QED BY <1>1, <2>2, Zenon DEF Disk, Published, Content
<1>3. Published' = Published
  BY <1>1, SameStatic, Zenon DEF Published
<1>4. Pending' = Pending
  BY <1>1, SamePending, Zenon
<1>5. Reading' = Reading /\ Snap' = Snap
  BY <1>1, SameRequests, Zenon
<1> QED BY <1>1, <1>2, <1>3, <1>4, <1>5, Zenon DEF Store!Persist

(* MakeRequest and Done. *)
LEMMA RequestSteps ==
  ASSUME TypeInv, SegmentInv, NEW r \in Readers, [Next]_vars
  PROVE  /\ HandleRequest(r) => Store!Begin(r)
         /\ Done(r) => Store!End(r)
<1> SUFFICES ASSUME HandleRequest(r) \/ Done(r)
             PROVE  /\ HandleRequest(r) => Store!Begin(r)
                    /\ Done(r) => Store!End(r)
  BY Zenon
<1>1. /\ proc = "up" /\ proc' = "up"
      /\ UNCHANGED <<procVars, memVars, static, mapped, diskVars, clock>>
  BY Zenon DEF HandleRequest, Done
<1>2. Pending' = Pending
  BY <1>1, SamePending, Zenon DEF Swapped
<1>3. Disk' = Disk /\ Published' = Published
  BY <1>1, SameOutside, Zenon
<1>4. rd \in [Readers -> {"idle", "requested", "reading"}] /\ view \in [Readers -> Table]
  BY Zenon DEF TypeInv, TypeOK, ProcessTypeOK
<1>5. \A q \in Readers \ {r} : Content(view[q])' = Content(view[q])
  <2>1. \A q \in Readers \ {r} : view'[q] = view[q]
    BY <1>4, Zenon DEF HandleRequest, Done
  <2> QED BY <1>1, <2>1, Zenon DEF Content, TableRows
<1>6. ASSUME HandleRequest(r) PROVE Store!Begin(r)
  <2>1. r \notin Reading /\ Reading' = Reading \cup {r}
    BY <1>4, <1>6, Zenon DEF HandleRequest, Reading
  <2>2. Content(view[r])' = Published
    BY <1>1, <1>4, <1>6, Zenon DEF HandleRequest, Content, TableRows, Published
  <2>3. Snap' = [Snap EXCEPT ![r] = Published]
    BY <1>5, <2>2, Zenon DEF Snap
  <2> QED BY <1>1, <1>2, <1>3, <2>1, <2>3, Zenon DEF Store!Begin
<1>7. ASSUME Done(r) PROVE Store!End(r)
  <2>1. r \in Reading /\ Reading' = Reading \ {r}
    BY <1>4, <1>7, Zenon DEF Done, Reading
  <2>2. Content(view[r])' = Store!None
    BY <1>4, <1>7, Zenon DEF Done, Content, TableRows, NewStaticTable, Store!None
  <2>3. Snap' = [Snap EXCEPT ![r] = Store!None]
    BY <1>5, <2>2, Zenon DEF Snap
  <2> QED BY <1>1, <1>2, <1>3, <2>1, <2>3, Zenon DEF Store!End
<1> QED BY <1>6, <1>7, Zenon

LEMMA StoreNext ==
  ASSUME "close" \notin Faults, TypeInv, SegmentInv, DimensionInv, IndexInv, ContentInv,
         IdleViews, IdleViews', [Next]_vars
  PROVE  [Store!Next]_(Store!vars)
<1>1. CASE OpenDB \/ NewDB
  BY <1>1, LoadStutters, Zenon
<1>2. CASE LoadDBFatal \/ Relaunch
  <2>1. /\ proc # "up" /\ proc' # "up"
        /\ UNCHANGED <<ins, failed, memVars, static, mapped, readerVars, diskVars, clock>>
    BY <1>2, Zenon DEF LoadDBFatal, Relaunch
  <2>2. Pending' = Pending /\ Disk' = Disk
    BY <2>1, SamePending, SameDisk, Zenon DEF Swapped
  <2>3. Reading' = Reading /\ Snap' = Snap
    BY <2>1, SameRequests, Zenon
  <2> QED BY <2>1, <2>2, <2>3, Zenon DEF Published, Store!vars
<1>3. CASE Tick \/ UNCHANGED vars
  <2>1. UNCHANGED <<procVars, memVars, static, mapped, readerVars, diskVars>>
    BY <1>3, Zenon DEF Tick, vars
  <2>2. UNCHANGED <<Pending, Published, Disk, Reading, Snap, failed>> /\ (Tick => Store!Tick)
    BY <2>1, TickStep, Zenon
  <2> QED BY <1>3, <2>2, Zenon DEF vars, Store!vars, Store!Next
<1>4. CASE Crash \/ ExitOnFlushError
  BY <1>4, ExitStep, Zenon DEF Crash, ExitOnFlushError, Store!Next
<1>5. CASE InsertStep
  BY <1>5, InsertSteps, Zenon
<1>6. CASE CombineFails \/ StoreFails \/ WriteMetadataFails
  <2>1. proc = "up" /\ ~failed /\ FlushFails /\ UNCHANGED diskVars
    BY <1>6, Zenon DEF CombineFails, StoreFails, WriteMetadataFails, SegmentInv, PhaseInv
  <2> QED BY <2>1, FailStep, Zenon DEF Store!Next
<1>7. CASE SwapTable
  BY <1>7, PublishStep, Zenon DEF Store!Next
<1>8. CASE writeMetadataFile
  BY <1>8, PersistStep, Zenon DEF Store!Next
<1>9. ASSUME NEW r \in Readers, HandleRequest(r) \/ Done(r) PROVE Store!Next
  BY <1>9, RequestSteps, Zenon DEF Store!Next
<1>10. CASE FlushDone
  <2>1. /\ proc = "up" /\ proc' = "up" /\ Swapped /\ mem' = NewMemTable
        /\ UNCHANGED <<failed, static, diskVars, rd, clock>>
    BY <1>10, Zenon DEF FlushDone, Swapped
  <2>2. Pending' = Pending
    BY <2>1, NonePending, Zenon
  <2>3. Disk' = Disk /\ Published' = Published
    BY <2>1, SameOutside, Zenon
  <2>4. Reading' = Reading /\ Snap' = Snap
    BY <2>1, SameRequests, Zenon
  <2> QED BY <2>1, <2>2, <2>3, <2>4, Zenon DEF Store!vars
<1>11. CASE OpenDimFile \/ EncodeDims \/ RemoveOldDims
  <2>1. dimFiles'[meta.dimGen] = dimFiles[meta.dimGen]
    BY <1>11, OpenDimFileKeeps, EncodeDimsKeeps, RemoveOldDimsKeeps, Zenon
  <2>2. /\ proc = "up" /\ proc' = "up" /\ (Swapped' <=> Swapped)
        /\ UNCHANGED <<static, memVars, meta, failed, clock, rd>>
    BY <1>11, Zenon DEF OpenDimFile, EncodeDims, RemoveOldDims, Swapped
  <2> QED BY <2>1, <2>2, FlushStutters, Zenon
<1>12. CASE HandleInsert \/ FlushStart \/ PartitionMem \/ CombineDone \/ ReuseDims
            \/ DimCloseFails \/ RequestsFinished
  <2>1. /\ proc = "up" /\ proc' = "up" /\ (Swapped' <=> Swapped)
        /\ UNCHANGED <<static, memVars, diskVars, failed, clock, rd>>
    BY <1>12, Zenon DEF HandleInsert, FlushStart, PartitionMem, CombineDone, ReuseDims, DimCloseFails,
                 RequestsFinished, Swapped
  <2> QED BY <2>1, FlushStutters, Zenon
<1>13. ASSUME NEW t \in Starts, OpenSegment(t) \/ FreezeInterval(t) \/ WriteIntervalFails(t)
       PROVE  UNCHANGED Store!vars
  <2>1. /\ proc = "up" /\ proc' = "up" /\ (Swapped' <=> Swapped)
        /\ UNCHANGED <<static, memVars, dimFiles, meta, failed, clock, rd>>
    BY <1>13, Zenon DEF OpenSegment, FreezeInterval, WriteIntervalFails, Swapped
  <2> QED BY <2>1, FlushStutters, Zenon
<1>14. ASSUME NEW f \in Names, cleanUpOldIntervals(f) PROVE UNCHANGED Store!vars
  <2>1. /\ proc = "up" /\ proc' = "up" /\ (Swapped' <=> Swapped)
        /\ UNCHANGED <<static, memVars, dimFiles, meta, failed, clock, rd>>
    BY <1>14, Zenon DEF cleanUpOldIntervals, Swapped
  <2> QED BY <2>1, FlushStutters, Zenon
<1>15. ASSUME NEW r \in Readers, Respond(r) PROVE UNCHANGED Store!vars
  <2>1. /\ proc = "up" /\ proc' = "up" /\ (Swapped' <=> Swapped)
        /\ UNCHANGED <<static, memVars, diskVars, failed, clock>>
        /\ \A q \in Readers : rd'[q] = "idle" <=> rd[q] = "idle"
    BY <1>15, Zenon DEF Respond, Swapped, TypeInv, TypeOK, ProcessTypeOK
  <2> QED BY <2>1, FlushStutters, Zenon
<1> QED
  BY <1>1, <1>2, <1>3, <1>4, <1>5, <1>6, <1>7, <1>8, <1>9, <1>10, <1>11, <1>12, <1>13, <1>14,
     <1>15, Zenon DEF Next, LoadDB, FlushStep

(***************************************************************************)
(* The storage engine implements SnapshotStore: to its clients a flush is  *)
(* one step that publishes and one that persists, a request sees one       *)
(* snapshot, and a process that exits or is killed anywhere leaves what    *)
(* was last persisted.  As for MetadataAlwaysLoadable, Store must report   *)
(* its errors.                                                             *)
(***************************************************************************)
THEOREM StoreImplemented ==
  ASSUME "close" \notin Faults
  PROVE  Spec => ImplementsStore
<1>1. /\ TypeInv /\ SegmentInv /\ DimensionInv /\ IndexInv /\ ContentInv
      /\ IdleViews /\ IdleViews' /\ [Next]_vars
      => [Store!Next]_(Store!vars)
  BY StoreNext, Zenon
<1> QED BY <1>1, InitStore, ContentKept, IdleViewsKept, PTL DEF Spec, ImplementsStore, Store!Spec
=============================================================================
