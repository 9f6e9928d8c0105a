---------------------- MODULE GumshoeDBMetadataProofs ----------------------
(***************************************************************************)
(* What a client reads stays as it is, and db.json always names files that *)
(* can be loaded, when Store reports its errors.  Every dimension index    *)
(* that can be read decodes, and to the value it was stored under,         *)
(* whichever later dimension table decodes it.                             *)
(***************************************************************************)
EXTENDS GumshoeDBSegmentProofs

USE DEF procVars, memVars, readerVars, flushVars, diskVars, histVars

(* No step remaps, truncates or unmaps a segment of a request that stays open. *)
LEMMA ViewFrozen ==
  ASSUME TypeInv, SegmentInv, [Next]_vars, NEW r \in Readers, rd[r] # "idle", rd'[r] # "idle"
  PROVE  view'[r] = view[r] /\ \A f \in Files(view[r]) : mapped'[f] = mapped[f]
<1>1. CASE LoadDB
  BY <1>1, Zenon DEF LoadDB, OpenDB, NewDB, Fresh, LoadDBFatal
<1>2. CASE Relaunch \/ Crash \/ ExitOnFlushError \/ Tick \/ HandleInsert \/ FlushStart
  BY <1>2, Zenon DEF Relaunch, Crash, ExitOnFlushError, Exit, Fresh, Tick, HandleInsert, FlushStart
<1>3. CASE InsertStep
  BY <1>3, Zenon DEF InsertStep, StoreRow, DropRow, RejectRow, InsertDone
<1>4. ASSUME NEW q \in Readers, HandleRequest(q) \/ Respond(q) \/ Done(q)
      PROVE  view'[r] = view[r] /\ mapped' = mapped
  BY <1>4, Zenon DEF HandleRequest, Respond, Done, TypeInv, TypeOK, ProcessTypeOK
<1>5. ASSUME NEW t \in Starts, OpenSegment(t) \/ FreezeInterval(t)
      PROVE  view'[r] = view[r] /\ \A f \in Files(view[r]) : mapped'[f] = mapped[f]
  <2>1. <<t, newGeneration(t)>> \notin Files(static)
    BY <1>5, NewName, Zenon DEF OpenSegment, FreezeInterval
  <2>2. view[r] = static /\ view' = view
    BY <1>5, Zenon DEF OpenSegment, FreezeInterval, SegmentInv, ReaderInv
  <2>3. Files(static) \subseteq Names
    BY FilesInNames, Zenon DEF TypeInv, TypeOK, ProcessTypeOK, Table
  <2> QED BY <1>5, <2>1, <2>2, <2>3, Zenon DEF OpenSegment, FreezeInterval, TypeInv, TypeOK, ProcessTypeOK
<1>6. ASSUME NEW g \in Names, cleanUpOldIntervals(g)
      PROVE  view'[r] = view[r] /\ \A f \in Files(view[r]) : mapped'[f] = mapped[f]
  <2>1. view[r] = static /\ view' = view
    BY <1>6, Zenon DEF cleanUpOldIntervals, SegmentInv, ReaderInv
  <2>2. g \notin Files(static)
    BY <1>6, Zenon DEF cleanUpOldIntervals, SegmentInv, CleanupInv, Swapped
  <2>3. Files(static) \subseteq Names
    BY FilesInNames, Zenon DEF TypeInv, TypeOK, ProcessTypeOK, Table
  <2> QED BY <1>6, <2>1, <2>2, <2>3, Zenon DEF cleanUpOldIntervals, TypeInv, TypeOK, ProcessTypeOK
<1>7. ASSUME NEW t \in Starts, WriteIntervalFails(t) PROVE view' = view /\ mapped' = mapped
  BY <1>7, Zenon DEF WriteIntervalFails
<1>8. CASE CombineFails \/ StoreFails \/ WriteMetadataFails
  BY <1>8, Zenon DEF CombineFails, StoreFails, WriteMetadataFails, FlushFails
<1>9. CASE PartitionMem \/ CombineDone \/ ReuseDims \/ OpenDimFile \/ EncodeDims \/ DimCloseFails
  BY <1>9, Zenon DEF PartitionMem, CombineDone, ReuseDims, OpenDimFile, EncodeDims, DimCloseFails
<1>10. CASE SwapTable \/ RequestsFinished \/ writeMetadataFile \/ RemoveOldDims \/ FlushDone
  BY <1>10, Zenon DEF SwapTable, RequestsFinished, writeMetadataFile, RemoveOldDims, FlushDone
<1>11. CASE UNCHANGED vars
  BY <1>11, Zenon DEF vars
<1> QED
  BY <1>1, <1>2, <1>3, <1>4, <1>5, <1>6, <1>7, <1>8, <1>9, <1>10, <1>11, Zenon DEF Next, FlushStep

(***************************************************************************)
(* A Response answers the same query the same way for as long as it is     *)
(* held: "StaticTable is an immutable snapshot of the DB's data".          *)
(***************************************************************************)
THEOREM RepeatableReads == Spec => RepeatableRead
<1> DEFINE Same == \A r \in Readers : rd[r] # "idle" /\ rd'[r] # "idle" =>
                     \A t \in Starts, s \in Strings :
                       TableRows(view[r], t, s)' = TableRows(view[r], t, s)
<1>1. TypeInv /\ SegmentInv /\ [Next]_vars => [Same]_vars
  <2> SUFFICES ASSUME TypeInv, SegmentInv, [Next]_vars,
                      NEW r \in Readers, rd[r] # "idle", rd'[r] # "idle",
                      NEW t \in Starts, NEW s \in Strings
               PROVE  TableRows(view[r], t, s)' = TableRows(view[r], t, s)
    BY Zenon
  <2>1. view'[r] = view[r] /\ \A f \in Files(view[r]) : mapped'[f] = mapped[f]
    BY ViewFrozen, Zenon
  <2>2. view[r].ivs[t] # NoGen => <<t, view[r].ivs[t]>> \in Files(view[r])
    BY FilesAt
  <2> QED BY <2>1, <2>2, Zenon DEF TableRows
<1> QED BY <1>1, SegmentsKept, PTL DEF Spec, RepeatableRead

(* The empty dimension table has no file. *)
LEMMA NewTableKept ==
  ASSUME dimFiles[0] = NoDimFile
  PROVE  DimsKept(NewStaticTable) /\ dimFiles[NewStaticTable.dimGen].st # "torn"
BY DEF DimsKept, NewStaticTable, NoDimFile

LEMMA DimensionInit == Init => DimensionInv
<1> SUFFICES ASSUME Init PROVE DimensionInv
  BY Zenon
<1>1. dimFiles[0] = NoDimFile
  BY ZeroGen, Zenon DEF Init
<1>2. DimsKept(static) /\ dimFiles[static.dimGen].st # "torn"
  BY <1>1, NewTableKept, Zenon DEF Init
<1>3. ~meta.exists /\ ~MetaCurrent /\ meta.dimGen = 0
  BY Zenon DEF Init, NoMetadata, MetaCurrent
<1>4. UntornInv
  BY <1>1, <1>2, <1>3 DEF Init, UntornInv, NoDimFile
<1> QED BY <1>1, <1>2, <1>3, <1>4, Zenon DEF Init, DimensionInv, Swapped

(* A process that has just loaded a table, or is gone. *)
LEMMA FreshDimensions ==
  ASSUME NEW tb, NEW maps, Fresh(tb, maps), UNCHANGED <<dimFiles, meta>>, DimensionInv,
         DimsKept(tb), dimFiles[tb.dimGen].st # "torn", proc' = "up" => tb.dimGen = meta.dimGen
  PROVE  DimensionInv'
<1>1. DimsKept(static)'
  BY Zenon DEF Fresh, DimsKept
<1>2. (meta.exists => DimsLoad(meta) \/ dimFiles[meta.dimGen].st = "torn")'
  BY Zenon DEF DimensionInv, DimsLoad
<1>3. (MetaCurrent => meta.dimGen = static.dimGen)'
  BY Zenon DEF Fresh, MetaCurrent
<1>4. UntornInv'
  BY Zenon DEF Fresh, DimensionInv, UntornInv
<1> QED BY <1>1, <1>2, <1>3, <1>4, Zenon DEF Fresh, DimensionInv, Swapped

(* The new generation's file is neither the StaticTable's nor db.json's. *)
LEMMA OpenDimFileKeeps ==
  ASSUME TypeInv, SegmentInv, DimensionInv, OpenDimFile
  PROVE  /\ meta.dimGen = static.dimGen /\ newTable'.dimGen = static.dimGen + 1
         /\ dimFiles'[0] = dimFiles[0] /\ dimFiles'[static.dimGen] = dimFiles[static.dimGen]
         /\ dimFiles'[static.dimGen + 1] = TornDimFile
<1>1. meta.dimGen = static.dimGen
  BY Zenon DEF OpenDimFile, SegmentInv, PhaseInv, DimensionInv, MetaCurrent
<1>2. static.dimGen \in Nat /\ newDimGeneration = static.dimGen + 1 /\ newTable \in Table
  BY DEF newDimGeneration, TypeInv, TypeOK, ProcessTypeOK, FlushTypeOK, Table, Gens
<1>3. dimFiles'[0] = dimFiles[0] /\ dimFiles'[static.dimGen] = dimFiles[static.dimGen]
  BY <1>2, ZeroGen DEF OpenDimFile, TypeInv, TypeOK, ProcessTypeOK, DirectoryTypeOK, Table
<1>4. newTable'.dimGen = static.dimGen + 1
  BY <1>2, Zenon DEF OpenDimFile, Table
<1>5. dimFiles'[static.dimGen + 1] = TornDimFile
  <2>1. static.dimGen + 1 \in Gens
    BY <1>2, ConstantsAssumption DEF OpenDimFile, TypeInv, GenRoom, Writing, Gens
  <2> QED BY <1>2, <2>1, Zenon DEF OpenDimFile, TypeInv, TypeOK, DirectoryTypeOK
<1> QED BY <1>1, <1>3, <1>4, <1>5, Zenon

LEMMA OpenDimFileInv ==
  ASSUME TypeInv, SegmentInv, DimensionInv, OpenDimFile
  PROVE  DimensionInv'
<1>1. /\ meta.dimGen = static.dimGen /\ newTable'.dimGen = static.dimGen + 1
      /\ dimFiles'[0] = dimFiles[0] /\ dimFiles'[static.dimGen] = dimFiles[static.dimGen]
      /\ dimFiles'[static.dimGen + 1].st = "torn"
  BY OpenDimFileKeeps DEF TornDimFile
<1>2. DimsKept(static)' /\ (meta.exists => DimsLoad(meta) \/ dimFiles[meta.dimGen].st = "torn")'
  BY <1>1, Zenon DEF OpenDimFile, DimensionInv, DimsKept, DimsLoad
<1>3. UntornInv'
  BY <1>1, Zenon DEF OpenDimFile, DimensionInv, UntornInv
<1> QED BY <1>1, <1>2, <1>3, Zenon DEF OpenDimFile, DimensionInv, Swapped

LEMMA EncodeDimsKeeps ==
  ASSUME TypeInv, SegmentInv, DimensionInv, EncodeDims
  PROVE  /\ meta.dimGen = static.dimGen /\ newTable.dimGen = static.dimGen + 1
         /\ dimFiles'[0] = dimFiles[0] /\ dimFiles'[static.dimGen] = dimFiles[static.dimGen]
         /\ dimFiles'[newTable.dimGen] = [st |-> "whole", vals |-> newTable.dims]
<1>1. meta.dimGen = static.dimGen
  BY Zenon DEF EncodeDims, SegmentInv, PhaseInv, DimensionInv, MetaCurrent
<1>2. /\ static.dimGen \in Gens /\ newTable.dimGen \in Gens
      /\ newTable.dimGen = static.dimGen + 1
  BY Zenon DEF EncodeDims, DimensionInv, TypeInv, TypeOK, ProcessTypeOK, FlushTypeOK, Table
<1>3. dimFiles'[0] = dimFiles[0] /\ dimFiles'[static.dimGen] = dimFiles[static.dimGen]
  BY <1>2, ZeroGen DEF EncodeDims, TypeInv, TypeOK, DirectoryTypeOK, Gens
<1>4. dimFiles'[newTable.dimGen] = [st |-> "whole", vals |-> newTable.dims]
  BY <1>2, Zenon DEF EncodeDims, TypeInv, TypeOK, DirectoryTypeOK
<1> QED BY <1>1, <1>2, <1>3, <1>4, Zenon

LEMMA EncodeDimsInv ==
  ASSUME TypeInv, SegmentInv, DimensionInv, EncodeDims
  PROVE  DimensionInv'
<1>1. /\ meta.dimGen = static.dimGen /\ newTable.dimGen = static.dimGen + 1
      /\ dimFiles'[0] = dimFiles[0] /\ dimFiles'[static.dimGen] = dimFiles[static.dimGen]
      /\ dimFiles'[newTable.dimGen] = [st |-> "whole", vals |-> newTable.dims]
  BY EncodeDimsKeeps, Zenon
<1>2. DimsKept(static)' /\ (meta.exists => DimsLoad(meta) \/ dimFiles[meta.dimGen].st = "torn")'
  BY <1>1, Zenon DEF EncodeDims, DimensionInv, DimsKept, DimsLoad
<1>3. DimsKept(newTable)' /\ UntornInv'
  BY <1>1 DEF EncodeDims, DimensionInv, DimsKept, UntornInv
<1>4. oldDim' # newTable'.dimGen
  BY <1>1 DEF EncodeDims, DimensionInv, TypeInv, TypeOK, ProcessTypeOK, Table, Gens
<1> QED BY <1>1, <1>2, <1>3, <1>4, Zenon DEF EncodeDims, DimensionInv, Swapped

(* The old generation's file is no longer db.json's when it is removed. *)
LEMMA RemoveOldDimsKeeps ==
  ASSUME TypeInv, SegmentInv, DimensionInv, RemoveOldDims
  PROVE  /\ meta.dimGen = static.dimGen
         /\ dimFiles'[0] = NoDimFile /\ dimFiles'[static.dimGen] = dimFiles[static.dimGen]
<1>1. meta.dimGen = static.dimGen /\ oldDim # static.dimGen
  BY Zenon DEF RemoveOldDims, SegmentInv, PhaseInv, DimensionInv, MetaCurrent, Swapped
<1>2. dimFiles'[0] = NoDimFile
  BY ZeroGen, Zenon DEF RemoveOldDims, DimensionInv
<1>3. dimFiles'[static.dimGen] = dimFiles[static.dimGen]
  BY <1>1, Zenon DEF RemoveOldDims, TypeInv, TypeOK, ProcessTypeOK, Table
<1> QED BY <1>1, <1>2, <1>3, Zenon

LEMMA RemoveOldDimsInv ==
  ASSUME TypeInv, SegmentInv, DimensionInv, RemoveOldDims
  PROVE  DimensionInv'
<1>1. /\ meta.dimGen = static.dimGen
      /\ dimFiles'[0] = NoDimFile /\ dimFiles'[static.dimGen] = dimFiles[static.dimGen]
  BY RemoveOldDimsKeeps, Zenon
<1>2. DimsKept(static)' /\ (meta.exists => DimsLoad(meta) \/ dimFiles[meta.dimGen].st = "torn")'
  BY <1>1, Zenon DEF RemoveOldDims, DimensionInv, DimsKept, DimsLoad
<1>3. UntornInv'
  BY <1>1, Zenon DEF RemoveOldDims, DimensionInv, UntornInv
<1> QED BY <1>1, <1>2, <1>3, Zenon DEF RemoveOldDims, DimensionInv, Swapped

(* Steps of the flush that touch neither the dimension files nor the tables. *)
LEMMA SameDimensions ==
  ASSUME DimensionInv, UNCHANGED <<dimFiles, meta, static>>,
         MetaCurrent' => MetaCurrent, Swapped' => Swapped /\ UNCHANGED oldDim,
         ins' \in {"idle", "insertRows", "partitionMem", "combine", "storeDims"} => oldDim' = NoGen,
         ins' \in {"encodeDims", "swap"} => UNCHANGED <<ins, newTable, oldDim>>
  PROVE  DimensionInv'
<1>1. DimsKept(static)' /\ (meta.exists => DimsLoad(meta) \/ dimFiles[meta.dimGen].st = "torn")'
  BY Zenon DEF DimensionInv, DimsKept, DimsLoad
<1>2. (ins' = "swap" => DimsKept(newTable)') /\ UntornInv'
  BY Zenon DEF DimensionInv, DimsKept, UntornInv
<1> QED BY <1>1, <1>2, Zenon DEF DimensionInv

(* DimensionInv is inductive, given the types and SegmentInv. *)
LEMMA DimensionNext == TypeInv /\ SegmentInv /\ DimensionInv /\ [Next]_vars => DimensionInv'
<1> SUFFICES ASSUME TypeInv, SegmentInv, DimensionInv, [Next]_vars PROVE DimensionInv'
  BY Zenon
<1>1. CASE OpenDB
  <2> DEFINE tb == [ivs |-> meta.ivs, dims |-> dimFiles[meta.dimGen].vals, dimGen |-> meta.dimGen]
             maps == [f \in Names |-> IF f \in Files(meta) THEN segs[f] ELSE NoSegment]
  <2>1. DimsKept(tb) /\ tb.dimGen = meta.dimGen /\ dimFiles[tb.dimGen].st # "torn"
    BY <1>1, Zenon DEF OpenDB, Loadable, DimsLoad, DimsKept
  <2>2. Fresh(tb, maps) /\ UNCHANGED <<dimFiles, meta>>
    BY <1>1, Zenon DEF OpenDB
  <2> HIDE DEF tb, maps
  <2> QED BY <2>1, <2>2, FreshDimensions, Zenon
<1>2. CASE NewDB
  <2>1. NewStaticTable.dimGen = meta.dimGen
    BY <1>2 DEF NewDB, SegmentInv, MetaInv, NoMetadata, NewStaticTable
  <2>2. DimsKept(NewStaticTable) /\ dimFiles[NewStaticTable.dimGen].st # "torn"
    BY NewTableKept, Zenon DEF DimensionInv
  <2> QED BY <1>2, <2>1, <2>2, FreshDimensions, Zenon DEF NewDB
<1>3. CASE Crash \/ ExitOnFlushError
  <2>1. DimsKept(NewStaticTable) /\ dimFiles[NewStaticTable.dimGen].st # "torn"
    BY NewTableKept, Zenon DEF DimensionInv
  <2> QED BY <1>3, <2>1, FreshDimensions, Zenon DEF Crash, ExitOnFlushError, Exit
<1>4. CASE LoadDBFatal \/ Relaunch \/ Tick \/ UNCHANGED vars
  <2>1. UNCHANGED <<dimFiles, meta, static, oldDim, ins, newTable>> /\ (MetaCurrent' => MetaCurrent)
    BY <1>4 DEF LoadDBFatal, Relaunch, Tick, vars, MetaCurrent
  <2> QED BY <2>1, SameDimensions, Zenon DEF DimensionInv, Swapped
<1>5. CASE HandleInsert \/ InsertStep
  <2>1. /\ UNCHANGED <<dimFiles, meta, static, oldDim>> /\ (MetaCurrent' => MetaCurrent)
        /\ ins \in {"idle", "insertRows"} /\ ins' \in {"idle", "insertRows"}
    <3>1. CASE HandleInsert
      BY <3>1, Zenon DEF HandleInsert, MetaCurrent
    <3>4. CASE InsertDone
      BY <3>4, Zenon DEF InsertDone, MetaCurrent
    <3>2. ASSUME NEW s \in Strings, RejectRow(s)
          PROVE  /\ UNCHANGED <<dimFiles, meta, static, oldDim>> /\ (MetaCurrent' => MetaCurrent)
                 /\ ins \in {"idle", "insertRows"} /\ ins' \in {"idle", "insertRows"}
      BY <3>2, Zenon DEF RejectRow, MetaCurrent
    <3>3. ASSUME NEW t \in Starts, NEW s \in Strings, StoreRow(t, s) \/ DropRow(t, s)
          PROVE  /\ UNCHANGED <<dimFiles, meta, static, oldDim>> /\ (MetaCurrent' => MetaCurrent)
                 /\ ins \in {"idle", "insertRows"} /\ ins' \in {"idle", "insertRows"}
      <4>1. CASE StoreRow(t, s)
        BY <4>1, Zenon DEF StoreRow, MetaCurrent
      <4>2. CASE DropRow(t, s)
        BY <4>2, Zenon DEF DropRow, MetaCurrent
      <4> QED BY <3>3, <4>1, <4>2, Zenon
    <3> QED BY <1>5, <3>1, <3>2, <3>3, <3>4, Zenon DEF InsertStep
  <2> QED BY <2>1, SameDimensions, Zenon DEF DimensionInv, Swapped
<1>6. CASE FlushStart \/ PartitionMem \/ CombineDone
  <2>1. CASE FlushStart
    BY <2>1, SameDimensions, Zenon DEF FlushStart, DimensionInv, MetaCurrent, Swapped
  <2>2. CASE PartitionMem
    BY <2>2, SameDimensions, Zenon DEF PartitionMem, DimensionInv, MetaCurrent, Swapped
  <2>3. CASE CombineDone
    BY <2>3, SameDimensions, Zenon DEF CombineDone, DimensionInv, MetaCurrent, Swapped
  <2> QED BY <1>6, <2>1, <2>2, <2>3, Zenon
<1>7. ASSUME NEW t \in Starts, OpenSegment(t) \/ FreezeInterval(t) \/ WriteIntervalFails(t)
      PROVE  DimensionInv'
  <2>1. CASE OpenSegment(t)
    BY <2>1, SameDimensions, Zenon DEF OpenSegment, DimensionInv, MetaCurrent, Swapped
  <2>2. CASE FreezeInterval(t)
    BY <2>2, SameDimensions, Zenon DEF FreezeInterval, DimensionInv, MetaCurrent, Swapped
  <2>3. CASE WriteIntervalFails(t)
    BY <2>3, SameDimensions, Zenon DEF WriteIntervalFails, DimensionInv, MetaCurrent, Swapped
  <2> QED BY <1>7, <2>1, <2>2, <2>3, Zenon
<1>8. CASE CombineFails \/ StoreFails \/ WriteMetadataFails
  BY <1>8, SameDimensions, Zenon DEF CombineFails, StoreFails, WriteMetadataFails, FlushFails, MetaCurrent,
                              Swapped
<1>9. CASE ReuseDims
  <2>1. newTable'.dims = static.dims /\ newTable'.dimGen = static.dimGen
    BY <1>9, Zenon DEF ReuseDims, TypeInv, TypeOK, FlushTypeOK, Table
  <2>2. DimsKept(static)' /\ (meta.exists => DimsLoad(meta) \/ dimFiles[meta.dimGen].st = "torn")'
    BY <1>9, Zenon DEF ReuseDims, DimensionInv, DimsKept, DimsLoad
  <2>3. DimsKept(newTable)' /\ UntornInv'
    BY <1>9, <2>1, Zenon DEF ReuseDims, DimensionInv, DimsKept, UntornInv
  <2>4. oldDim' = NoGen /\ static.dimGen # NoGen
    BY <1>9 DEF ReuseDims, DimensionInv, TypeInv, TypeOK, ProcessTypeOK, Table, Gens, NoGen
  <2> QED BY <1>9, <2>1, <2>2, <2>3, <2>4, Zenon DEF ReuseDims, DimensionInv, MetaCurrent, Swapped
<1>10. CASE OpenDimFile \/ EncodeDims \/ RemoveOldDims
  BY <1>10, OpenDimFileInv, EncodeDimsInv, RemoveOldDimsInv, Zenon
<1>11. CASE DimCloseFails
  <2>1. DimsKept(static)' /\ (meta.exists => DimsLoad(meta) \/ dimFiles[meta.dimGen].st = "torn")'
    BY <1>11, Zenon DEF DimCloseFails, DimensionInv, DimsKept, DimsLoad
  <2>2. "close" \in Faults
    BY <1>11, Zenon DEF DimCloseFails, MayFail
  <2>3. DimsKept(newTable)'
    BY <1>11, Zenon DEF DimCloseFails, DimensionInv, DimsKept
  <2>4. oldDim' # newTable'.dimGen
    BY <1>11 DEF DimCloseFails, DimensionInv, TypeInv, TypeOK, ProcessTypeOK, Table, Gens
  <2> QED BY <1>11, <2>1, <2>2, <2>3, <2>4, Zenon DEF DimCloseFails, DimensionInv, UntornInv, Swapped, MetaCurrent
<1>12. CASE SwapTable
  <2>1. DimsKept(static)' /\ (meta.exists => DimsLoad(meta) \/ dimFiles[meta.dimGen].st = "torn")'
    BY <1>12, Zenon DEF SwapTable, DimensionInv, DimsKept, DimsLoad
  <2>2. UntornInv'
    BY <1>12, Zenon DEF SwapTable, DimensionInv, UntornInv
  <2> QED BY <1>12, <2>1, <2>2, Zenon DEF SwapTable, DimensionInv, MetaCurrent
<1>13. CASE RequestsFinished
  BY <1>13, SameDimensions, Zenon DEF RequestsFinished, MetaCurrent, Swapped
<1>14. CASE writeMetadataFile
  <2>1. DimsKept(static)' /\ meta'.dimGen = static'.dimGen
    BY <1>14, Zenon DEF writeMetadataFile, DimensionInv, DimsKept
  <2>2. (DimsLoad(meta) \/ dimFiles[meta.dimGen].st = "torn")'
    BY <1>14, Zenon DEF writeMetadataFile, DimensionInv, DimsKept, DimsLoad
  <2>3. UntornInv'
    BY <1>14, <2>1, Zenon DEF writeMetadataFile, DimensionInv, UntornInv
  <2> QED BY <1>14, <2>1, <2>2, <2>3, Zenon DEF writeMetadataFile, DimensionInv, Swapped
<1>15. ASSUME NEW f \in Names, cleanUpOldIntervals(f) PROVE DimensionInv'
  BY <1>15, SameDimensions, Zenon DEF cleanUpOldIntervals, MetaCurrent, Swapped
<1>16. CASE FlushDone
  BY <1>16, SameDimensions, Zenon DEF FlushDone, MetaCurrent, Swapped
<1>17. ASSUME NEW r \in Readers, HandleRequest(r) \/ Respond(r) \/ Done(r) PROVE DimensionInv'
  <2>1. UNCHANGED <<dimFiles, meta, static, oldDim, procVars, newTable>>
    BY <1>17, Zenon DEF HandleRequest, Respond, Done
  <2> QED BY <2>1, SameDimensions, Zenon DEF DimensionInv, MetaCurrent, Swapped
<1> QED
  BY <1>1, <1>2, <1>3, <1>4, <1>5, <1>6, <1>7, <1>8, <1>9, <1>10, <1>11, <1>12, <1>13, <1>14, Zenon,
     <1>15, <1>16, <1>17
     DEF Next, LoadDB, FlushStep

(***************************************************************************)
(* flush stores dimension tables in files that neither the StaticTable nor *)
(* db.json has, and only the error that Store drops leaves one torn.       *)
(***************************************************************************)
THEOREM DimensionsKept == Spec => [](TypeInv /\ SegmentInv /\ DimensionInv)
BY DimensionInit, DimensionNext, SegmentsKept, PTL DEF Spec

(***************************************************************************)
(* Whenever there is a db.json, the files it names are there and complete, *)
(* at every step of every flush and so wherever the process is killed:     *)
(* the order in which flush writes segments and dimension tables, renames  *)
(* db.json and deletes the old generations is safe.  The hypothesis is     *)
(* what Store lacks: an error in closing the gzip file is reported.        *)
(***************************************************************************)
THEOREM MetadataAlwaysLoadable ==
  ASSUME "close" \notin Faults
  PROVE  Spec => []MetadataLoadable
<1>1. SegmentInv /\ DimensionInv => MetadataLoadable
  BY Zenon DEF SegmentInv, IntactInv, DimensionInv, UntornInv, MetadataLoadable
<1> QED BY <1>1, DimensionsKept, PTL

(* Dimension tables: a value that is appended keeps every place. *)
LEMMA DistinctEmpty == Distinct(<<>>)
BY DEF Distinct

LEMMA DistinctAppend ==
  ASSUME NEW d \in Seq(Strings), Distinct(d), NEW s \in Strings, ~Holds(d, s)
  PROVE  Distinct(Append(d, s))
BY DEF Distinct, Holds

LEMMA ConcatAppend ==
  ASSUME NEW d \in Seq(Strings), NEW e \in Seq(Strings), NEW s \in Strings
  PROVE  d \o Append(e, s) = Append(d \o e, s)
OBVIOUS

LEMMA ConcatPlaces ==
  ASSUME NEW d \in Seq(Strings), NEW e \in Seq(Strings)
  PROVE  /\ d \o e \in Seq(Strings) /\ Len(d) \in Nat /\ Len(d \o e) \in Nat
         /\ Len(d) <= Len(d \o e)
         /\ \A k \in DOMAIN d : k \in DOMAIN (d \o e) /\ (d \o e)[k] = d[k]
OBVIOUS

LEMMA ConcatHolds ==
  ASSUME NEW d \in Seq(Strings), NEW e \in Seq(Strings), NEW s \in Strings
  PROVE  Holds(d \o e, s) <=> Holds(d, s) \/ Holds(e, s)
<1>1. ASSUME NEW k \in DOMAIN d, d[k] = s PROVE Holds(d \o e, s)
  BY <1>1, ConcatPlaces, Zenon DEF Holds
<1>2. ASSUME NEW k \in DOMAIN e, e[k] = s PROVE Holds(d \o e, s)
  <2>1. Len(d) + k \in DOMAIN (d \o e) /\ (d \o e)[Len(d) + k] = e[k]
    OBVIOUS
  <2> QED BY <1>2, <2>1, Zenon DEF Holds
<1>3. ASSUME NEW k \in DOMAIN (d \o e), (d \o e)[k] = s PROVE Holds(d, s) \/ Holds(e, s)
  <2>1. CASE k <= Len(d)
    <3>1. k \in DOMAIN d /\ d[k] = s
      BY <1>3, <2>1
    <3> QED BY <3>1, Zenon DEF Holds
  <2>2. CASE k > Len(d)
    <3>1. k - Len(d) \in DOMAIN e /\ e[k - Len(d)] = s
      BY <1>3, <2>2
    <3> QED BY <3>1, Zenon DEF Holds
  <2> QED BY <2>1, <2>2
<1> QED BY <1>1, <1>2, <1>3, Zenon DEF Holds

LEMMA IndexOfAt ==
  ASSUME NEW d \in Seq(Strings), Distinct(d), NEW k \in DOMAIN d
  PROVE  Holds(d, d[k]) /\ IndexOf(d, d[k]) = k - 1
BY Zenon DEF Distinct, Holds, IndexOf

LEMMA IndexOfHeld ==
  ASSUME NEW d \in Seq(Strings), NEW s, Holds(d, s)
  PROVE  IndexOf(d, s) \in 0 .. (Len(d) - 1) /\ d[IndexOf(d, s) + 1] = s
BY DEF Holds, IndexOf

(* A value has the place in two tables together that it has in the first, or   *)
(* the place it has in the second after those of the first.                    *)
LEMMA ConcatIndex ==
  ASSUME NEW d \in Seq(Strings), NEW e \in Seq(Strings), Distinct(d \o e), NEW s \in Strings
  PROVE  /\ Holds(d, s) => IndexOf(d \o e, s) = IndexOf(d, s)
         /\ Holds(e, s) => IndexOf(d \o e, s) = Len(d) + IndexOf(e, s)
<1> DEFINE c == d \o e
<1>1. c \in Seq(Strings) /\ Distinct(c)
  BY ConcatPlaces, Zenon
<1>2. ASSUME Holds(d, s) PROVE IndexOf(c, s) = IndexOf(d, s)
  <2>1. PICK k \in DOMAIN d : d[k] = s /\ IndexOf(d, s) = k - 1
    BY <1>2, IndexOfHeld
  <2>2. k \in DOMAIN c /\ c[k] = s
    BY <2>1, ConcatPlaces, Zenon
  <2> HIDE DEF c
  <2> QED BY <1>1, <2>1, <2>2, IndexOfAt, Zenon
<1>3. ASSUME Holds(e, s) PROVE IndexOf(c, s) = Len(d) + IndexOf(e, s)
  <2>1. PICK k \in DOMAIN e : e[k] = s /\ IndexOf(e, s) = k - 1
    BY <1>3, IndexOfHeld
  <2>2. Len(d) + k \in DOMAIN c /\ c[Len(d) + k] = s
    BY <2>1
  <2>3. IndexOf(c, s) = (Len(d) + k) - 1
    <3> HIDE DEF c
    <3> QED BY <1>1, <2>2, IndexOfAt, Zenon
  <2> QED BY <2>1, <2>3
<1> QED BY <1>2, <1>3, Zenon

LEMMA RowSum ==
  ASSUME NEW a \in Rows, NEW b \in Rows
  PROVE  /\ [i \in Idx |-> a[i] + b[i]] \in Rows
         /\ \A i \in Idx : a[i] \in Nat /\ b[i] \in Nat
BY DEF Rows

(* Decoding: more values change nothing, sums decode to sums, and a row is    *)
(* counted under its own value only.                                          *)
LEMMA DecodeNat ==
  ASSUME NEW rows \in Rows, NEW d, NEW s
  PROVE  Decode(rows, d, s) \in Nat
BY Zenon DEF Decode, Rows

LEMMA DecodeNone ==
  ASSUME NEW d, NEW s
  PROVE  Decode(NoRows, d, s) = 0
BY Zenon DEF Decode, NoRows

LEMMA DecodeExtend ==
  ASSUME NEW d \in Seq(Strings), NEW e \in Seq(Strings), Distinct(d \o e),
         NEW rows \in Rows, Below(rows, Len(d)), NEW s \in Strings
  PROVE  Decode(rows, d \o e, s) = Decode(rows, d, s)
<1> DEFINE c == d \o e
<1>1. /\ Holds(c, s) <=> Holds(d, s) \/ Holds(e, s)
      /\ Holds(d, s) => IndexOf(c, s) = IndexOf(d, s)
      /\ Holds(e, s) => IndexOf(c, s) = Len(d) + IndexOf(e, s)
  BY ConcatHolds, ConcatIndex, Zenon
<1>2. Len(d) \in Nat /\ (Holds(e, s) => IndexOf(e, s) \in Nat)
  BY IndexOfHeld
<1>3. \A i \in Idx : rows[i] \in Nat /\ (rows[i] > 0 => i < Len(d)) /\ i \in Nat
  BY DEF Rows, Below, Idx
<1> HIDE DEF c
<1>4. CASE Holds(d, s)
  BY <1>1, <1>4, Zenon DEF Decode, c
<1>5. CASE ~Holds(d, s) /\ Holds(e, s)
  <2>1. IndexOf(c, s) \in Idx => rows[IndexOf(c, s)] = 0
    BY <1>1, <1>2, <1>3, <1>5
  <2> QED BY <1>5, <2>1, Zenon DEF Decode, c
<1>6. CASE ~Holds(d, s) /\ ~Holds(e, s)
  BY <1>1, <1>6, Zenon DEF Decode, c
<1> QED BY <1>4, <1>5, <1>6, Zenon

LEMMA DecodeSum ==
  ASSUME NEW a \in Rows, NEW b \in Rows, NEW d, NEW s
  PROVE  Decode([i \in Idx |-> a[i] + b[i]], d, s) = Decode(a, d, s) + Decode(b, d, s)
BY DEF Decode, Rows

LEMMA DecodeAdd ==
  ASSUME NEW rows \in Rows, NEW d \in Seq(Strings), NEW s \in Strings, Holds(d, s),
         IndexOf(d, s) \in Idx, NEW v \in Strings
  PROVE  Decode([rows EXCEPT ![IndexOf(d, s)] = @ + 1], d, v)
           = Decode(rows, d, v) + (IF v = s THEN 1 ELSE 0)
<1> DEFINE i == IndexOf(d, s)
           more == [rows EXCEPT ![i] = @ + 1]
<1>1. \A j \in Idx : more[j] = rows[j] + (IF j = i THEN 1 ELSE 0) /\ rows[j] \in Nat
  BY DEF Rows
<1>2. Holds(d, v) /\ IndexOf(d, v) = i => v = s
  BY IndexOfHeld
<1> HIDE DEF i, more
<1>3. CASE v = s
  BY <1>1, <1>3, Zenon DEF Decode, i, more
<1>4. CASE v # s
  BY <1>1, <1>2, <1>4 DEF Decode, i, more
<1> QED BY <1>3, <1>4, Zenon DEF i, more

(* The sequences of a state. *)
LEMMA TableTypes ==
  ASSUME TypeInv
  PROVE  /\ static.dims \in Seq(Strings) /\ memDims \in Seq(Strings)
         /\ combinedDims \in Seq(Strings) /\ newTable.dims \in Seq(Strings)
         /\ Files(static) \subseteq Names /\ Files(newTable) \subseteq Names
         /\ Files(meta) \subseteq Names
<1>1. /\ static.dims \in Seq(Strings) /\ memDims \in Seq(Strings)
      /\ newTable.dims \in Seq(Strings)
  BY Zenon DEF TypeInv, TypeOK, ProcessTypeOK, FlushTypeOK, Table
<1>2. combinedDims \in Seq(Strings)
  BY <1>1 DEF combinedDims
<1>3. /\ static.ivs \in [Starts -> Gens \cup {NoGen}] /\ meta.ivs \in [Starts -> Gens \cup {NoGen}]
      /\ newTable.ivs \in [Starts -> Gens \cup {NoGen}]
  BY Zenon DEF TypeInv, TypeOK, ProcessTypeOK, FlushTypeOK, DirectoryTypeOK, Table, Metadata
<1> QED BY <1>1, <1>2, <1>3, FilesInNames, Zenon

(* Which steps touch a segment. *)
LEMMA SegmentSteps ==
  ASSUME [Next]_vars, proc = "up", proc' = "up"
  PROVE  \/ mapped' = mapped /\ segs' = segs
         \/ \E t \in Starts : OpenSegment(t) \/ FreezeInterval(t)
         \/ \E f \in Names : cleanUpOldIntervals(f)
<1>1. CASE LoadDB \/ Relaunch
  BY <1>1, Zenon DEF LoadDB, OpenDB, NewDB, LoadDBFatal, Relaunch
<1>2. CASE Crash \/ ExitOnFlushError
  BY <1>2, Zenon DEF Crash, ExitOnFlushError, Exit
<1>3. CASE Tick \/ HandleInsert \/ FlushStart
  BY <1>3, Zenon DEF Tick, HandleInsert, FlushStart
<1>4. CASE InsertStep
  BY <1>4, Zenon DEF InsertStep, StoreRow, DropRow, RejectRow, InsertDone
<1>5. ASSUME NEW r \in Readers, HandleRequest(r) \/ Respond(r) \/ Done(r)
      PROVE  mapped' = mapped /\ segs' = segs
  BY <1>5, Zenon DEF HandleRequest, Respond, Done
<1>6. ASSUME NEW t \in Starts, WriteIntervalFails(t) PROVE mapped' = mapped /\ segs' = segs
  BY <1>6, Zenon DEF WriteIntervalFails
<1>7. CASE CombineFails \/ StoreFails \/ WriteMetadataFails
  BY <1>7, Zenon DEF CombineFails, StoreFails, WriteMetadataFails, FlushFails
<1>8. CASE PartitionMem \/ CombineDone \/ ReuseDims \/ OpenDimFile \/ EncodeDims \/ DimCloseFails
  BY <1>8, Zenon DEF PartitionMem, CombineDone, ReuseDims, OpenDimFile, EncodeDims, DimCloseFails
<1>9. CASE SwapTable \/ RequestsFinished \/ writeMetadataFile \/ RemoveOldDims \/ FlushDone
  BY <1>9, Zenon DEF SwapTable, RequestsFinished, writeMetadataFile, RemoveOldDims, FlushDone
<1>10. CASE UNCHANGED vars
  BY <1>10, Zenon DEF vars
<1> QED
  BY <1>1, <1>2, <1>3, <1>4, <1>5, <1>6, <1>7, <1>8, <1>9, <1>10, Zenon DEF Next, FlushStep

(* A step of a running process changes no segment of the StaticTable, of      *)
(* db.json or, while flush builds it, of the table that is to replace it.     *)
LEMMA SegmentsFrozen ==
  ASSUME TypeInv, SegmentInv, [Next]_vars, proc = "up", proc' = "up"
  PROVE  /\ \A f \in Files(static) : mapped'[f] = mapped[f] /\ segs'[f] = segs[f]
         /\ \A f \in Files(meta) : segs'[f] = segs[f]
         /\ ins \in Combining =>
              \A f \in Files(newTable) : mapped'[f] = mapped[f] /\ segs'[f] = segs[f]
<1>1. ASSUME NEW t \in Starts, OpenSegment(t) \/ FreezeInterval(t),
             NEW f \in Files(static) \cup Files(meta) \cup Files(newTable)
      PROVE  mapped'[f] = mapped[f] /\ segs'[f] = segs[f]
  <2>1. f # <<t, newGeneration(t)>>
    BY <1>1, NewName, Zenon DEF OpenSegment, FreezeInterval
  <2>2. f \in Names
    BY <1>1, TableTypes, Zenon
  <2> QED BY <1>1, <2>1, <2>2, Zenon
          DEF OpenSegment, FreezeInterval, TypeInv, TypeOK, ProcessTypeOK, DirectoryTypeOK
<1>2. ASSUME NEW g \in Names, cleanUpOldIntervals(g), NEW f \in Files(static) \cup Files(meta)
      PROVE  mapped'[f] = mapped[f] /\ segs'[f] = segs[f]
  <2>1. Files(meta) = Files(static)
    BY <1>2, SameFiles, Zenon DEF cleanUpOldIntervals, SegmentInv, PhaseInv, MetaInv, MetaCurrent
  <2>2. f # g
    BY <1>2, <2>1, Zenon DEF cleanUpOldIntervals, SegmentInv, CleanupInv, Swapped
  <2>3. f \in Names
    BY <1>2, TableTypes, Zenon
  <2> QED BY <1>2, <2>2, <2>3, Zenon
          DEF cleanUpOldIntervals, TypeInv, TypeOK, ProcessTypeOK, DirectoryTypeOK
<1>3. ASSUME NEW g \in Names, cleanUpOldIntervals(g) PROVE ins \notin Combining
  BY <1>3, Zenon DEF cleanUpOldIntervals, Combining
<1> QED BY <1>1, <1>2, <1>3, SegmentSteps, Zenon

(* The rows that a table, the memTable and the directory hold. *)
LEMMA RowsAreNat ==
  ASSUME TypeInv, NEW t \in Starts, NEW s \in Strings
  PROVE  /\ TableRows(static, t, s) \in Nat /\ TableRows(newTable, t, s) \in Nat
         /\ MemRows(t, s) \in Nat /\ DiskRows(t, s) \in Nat
         /\ accepted[t][s] \in Nat /\ durable[t][s] \in Nat
<1>1. \A f \in Names : mapped[f].rows \in Rows /\ segs[f].rows \in Rows
  BY Zenon DEF TypeInv, TypeOK, ProcessTypeOK, DirectoryTypeOK, Segment
<1>2. /\ static.ivs[t] # NoGen => <<t, static.ivs[t]>> \in Names
      /\ newTable.ivs[t] # NoGen => <<t, newTable.ivs[t]>> \in Names
      /\ meta.ivs[t] # NoGen => <<t, meta.ivs[t]>> \in Names
  BY FilesAt, TableTypes
<1>3. mem[t] \in Rows
  BY Zenon DEF TypeInv, TypeOK, ProcessTypeOK
<1>4. TableRows(static, t, s) \in Nat /\ TableRows(newTable, t, s) \in Nat
  BY <1>1, <1>2, DecodeNat, Zenon DEF TableRows
<1>5. MemRows(t, s) \in Nat /\ DiskRows(t, s) \in Nat
  BY <1>1, <1>2, <1>3, DecodeNat, Zenon DEF MemRows, DiskRows
<1> QED BY <1>4, <1>5, Zenon DEF TypeInv, TypeOK, DirectoryTypeOK

(* What a step leaves alone decodes as before. *)
LEMMA StaticRowsKept ==
  ASSUME static' = static, \A f \in Files(static) : mapped'[f] = mapped[f],
         NEW t \in Starts, NEW s \in Strings
  PROVE  TableRows(static, t, s)' = TableRows(static, t, s)
<1>1. static.ivs[t] # NoGen => <<t, static.ivs[t]>> \in Files(static)
  BY FilesAt, Zenon
<1> QED BY <1>1, Zenon DEF TableRows

LEMMA DiskRowsKept ==
  ASSUME meta' = meta, \A f \in Files(meta) : segs'[f] = segs[f],
         dimFiles'[meta.dimGen] = dimFiles[meta.dimGen], NEW t \in Starts, NEW s \in Strings
  PROVE  DiskRows(t, s)' = DiskRows(t, s)
<1>1. meta.ivs[t] # NoGen => <<t, meta.ivs[t]>> \in Files(meta)
  BY FilesAt, Zenon
<1> QED BY <1>1, Zenon DEF DiskRows

LEMMA MemRowsKept ==
  ASSUME UNCHANGED <<static, mem, memDims>>, NEW t \in Starts, NEW s \in Strings
  PROVE  MemRows(t, s)' = MemRows(t, s)
BY Zenon DEF MemRows, combinedDims

(* Time only moves intervals out of retention. *)
LEMMA RetentionShrinks ==
  ASSUME TypeInv, clock' \in {clock, clock + 1}, NEW t \in Starts
  PROVE  InRetention(t)' => InRetention(t)
<1>1. t \in Nat /\ clock \in Nat /\ Retention \in Nat
  BY ConstantsAssumption, Zenon DEF TypeInv, TypeOK, DirectoryTypeOK
<1>2. CASE clock' = clock
  BY <1>2, Zenon DEF InRetention, intervalStartOutOfRetention
<1>3. CASE clock' = clock + 1
  <2>1. clock - (t + 1) > Retention => (clock + 1) - (t + 1) > Retention
    BY <1>1
  <2> QED BY <1>3, <2>1, Zenon DEF InRetention, intervalStartOutOfRetention
<1> QED BY <1>2, <1>3, Zenon

-----------------------------------------------------------------------------
(* Dimension indices and tables.                                            *)

(* Each part of the invariant where a step leaves alone what it is about. *)
LEMMA SameDistinct ==
  ASSUME DistinctInv, UNCHANGED <<static, dimFiles, mem, memDims>>, MemCounts' => MemCounts,
         ins' \in {"encodeDims", "swap"} => ins \in {"encodeDims", "swap"} /\ newTable' = newTable
  PROVE  DistinctInv'
BY Zenon DEF DistinctInv, combinedDims

LEMMA SameBelow ==
  ASSUME BelowInv, CopyInv, UNCHANGED <<static, meta>>,
         \A f \in Files(static) : mapped'[f] = mapped[f] /\ segs'[f] = segs[f],
         \A f \in Files(meta) : segs'[f] = segs[f],
         ins' \in Combining =>
           /\ ins \in Combining /\ memDims' = memDims /\ newTable'.ivs = newTable.ivs
           /\ \A f \in Files(newTable) : mapped'[f] = mapped[f] /\ segs'[f] = segs[f],
         ins' = "await" => ins = "await" /\ mapped' = mapped /\ cleanup' = cleanup
  PROVE  BelowInv' /\ CopyInv'
<1>1. BelowInv'
  <2>1. ins' \in Combining => Files(newTable') = Files(newTable) /\ combinedDims' = combinedDims
    BY SameFiles, Zenon DEF combinedDims
  <2> QED BY <2>1, Zenon DEF BelowInv
<1>2. CopyInv'
  <2>1. ins' \in Combining => Files(newTable') = Files(newTable)
    BY SameFiles, Zenon
  <2> QED BY <2>1, Zenon DEF CopyInv, SameOnDisk
<1> QED BY <1>1, <1>2, Zenon

LEMMA SameDecodes ==
  ASSUME DecodesAlike, UNCHANGED static,
         \A r \in Readers : rd'[r] # "idle" =>
           view'[r] = static \/ (rd[r] # "idle" /\ view'[r] = view[r])
  PROVE  DecodesAlike'
BY Zenon DEF DecodesAlike

(* Steps that change neither a table nor what a segment or dimension table holds. *)
LEMMA SameIndex ==
  ASSUME IndexInv, UNCHANGED <<static, meta, segs, mapped, dimFiles, mem, memDims>>,
         MemCounts' => MemCounts,
         ins' \in {"encodeDims", "swap"} => ins \in {"encodeDims", "swap"},
         ins' \in Combining => ins \in Combining /\ newTable' = newTable,
         ins' = "await" => ins = "await" /\ cleanup' = cleanup,
         \A r \in Readers : rd'[r] # "idle" =>
           view'[r] = static \/ (rd[r] # "idle" /\ view'[r] = view[r])
  PROVE  IndexInv'
<1>1. DistinctInv'
  BY SameDistinct, Zenon DEF IndexInv, Combining
<1>2. BelowInv' /\ CopyInv'
  BY SameBelow, Zenon DEF IndexInv
<1>3. DecodesAlike'
  BY SameDecodes, Zenon DEF IndexInv
<1> QED BY <1>1, <1>2, <1>3, Zenon DEF IndexInv

(* A process that has just loaded a table, or is gone. *)
LEMMA FreshIndex ==
  ASSUME NEW tb, NEW maps, Fresh(tb, maps), UNCHANGED diskVars, IndexInv,
         tb.dims \in Seq(Strings), Distinct(tb.dims),
         \A f \in Files(tb) : maps[f].rows = segs[f].rows /\ Below(segs[f].rows, Len(tb.dims))
  PROVE  IndexInv'
<1>1. combinedDims' = tb.dims
  BY DEF Fresh, combinedDims
<1>2. \A t \in Starts : Below(NewMemTable[t], Len(tb.dims))
  BY DEF NewMemTable, NoRows, Below
<1>3. DistinctInv'
  BY <1>1, <1>2, Zenon DEF Fresh, IndexInv, DistinctInv
<1>4. BelowInv' /\ CopyInv'
  BY Zenon DEF Fresh, IndexInv, BelowInv, CopyInv, SameOnDisk, Combining
<1>5. DecodesAlike'
  BY Zenon DEF Fresh, DecodesAlike
<1> QED BY <1>3, <1>4, <1>5, Zenon DEF IndexInv

LEMMA EmptyFresh ==
  ASSUME IndexInv, Fresh(NewStaticTable, NoMaps), UNCHANGED diskVars
  PROVE  IndexInv'
<1>1. NewStaticTable.dims = <<>> /\ Files(NewStaticTable) = {}
  BY NoFiles, Zenon DEF NewStaticTable
<1>2. NewStaticTable.dims \in Seq(Strings) /\ Distinct(NewStaticTable.dims)
  BY <1>1, DistinctEmpty
<1> QED BY <1>1, <1>2, FreshIndex, Zenon

LEMMA OpenDBIndex ==
  ASSUME TypeInv, IndexInv, OpenDB
  PROVE  IndexInv'
<1> DEFINE tb == [ivs |-> meta.ivs, dims |-> dimFiles[meta.dimGen].vals, dimGen |-> meta.dimGen]
           maps == [f \in Names |-> IF f \in Files(meta) THEN segs[f] ELSE NoSegment]
<1>1. Fresh(tb, maps) /\ UNCHANGED diskVars
  BY Zenon DEF OpenDB
<1>2. meta.dimGen \in Gens /\ tb.dims \in Seq(Strings) /\ Len(tb.dims) = meta.dimSize
  BY Zenon DEF OpenDB, Loadable, DimsLoad, TypeInv, TypeOK, DirectoryTypeOK, Metadata, DimFile
<1>3. Distinct(tb.dims)
  BY <1>2, Zenon DEF IndexInv, DistinctInv
<1>4. Files(tb) = Files(meta) /\ Files(meta) \subseteq Names
  BY SameFiles, TableTypes, Zenon
<1>5. \A f \in Files(tb) : maps[f].rows = segs[f].rows /\ Below(segs[f].rows, Len(tb.dims))
  BY <1>2, <1>4, Zenon DEF IndexInv, BelowInv
<1> HIDE DEF tb, maps
<1> QED BY <1>1, <1>2, <1>3, <1>5, FreshIndex, Zenon

(* setDimensionValue gives a value the place that it has, or is going to have,  *)
(* in the dimension table of the next StaticTable.                              *)
LEMMA NewValue ==
  ASSUME TypeInv, IndexInv, MemCounts, NEW s \in Strings
  PROVE  /\ DimsWith(s) \in Seq(Strings) /\ Distinct(static.dims \o DimsWith(s))
         /\ \/ static.dims \o DimsWith(s) = combinedDims
            \/ static.dims \o DimsWith(s) = Append(combinedDims, s)
         /\ Holds(static.dims \o DimsWith(s), s)
         /\ dimValueIndex(s) = IndexOf(static.dims \o DimsWith(s), s)
<1> DEFINE d == static.dims
           e == DimsWith(s)
<1>1. d \in Seq(Strings) /\ memDims \in Seq(Strings) /\ combinedDims \in Seq(Strings)
  BY TableTypes, Zenon
<1>2. e \in Seq(Strings) /\ (Holds(d, s) \/ Holds(e, s))
  <2>1. CASE e = memDims
    BY <1>1, <2>1 DEF DimsWith, Holds
  <2>2. CASE e # memDims
    <3>1. e = Append(memDims, s)
      BY <2>2, Zenon DEF DimsWith
    <3>2. Len(e) \in DOMAIN e /\ e[Len(e)] = s /\ e \in Seq(Strings)
      BY <1>1, <3>1
    <3> QED BY <3>2, Zenon DEF Holds
  <2> QED BY <2>1, <2>2, Zenon
<1>3. Distinct(d \o e) /\ (d \o e = combinedDims \/ d \o e = Append(combinedDims, s))
  <2>1. Distinct(combinedDims)
    BY Zenon DEF IndexInv, DistinctInv
  <2>2. CASE e = memDims
    BY <2>1, <2>2, Zenon DEF combinedDims
  <2>3. CASE e # memDims
    <3>1. e = Append(memDims, s) /\ ~Holds(d, s) /\ ~Holds(memDims, s)
      BY <2>3, Zenon DEF DimsWith
    <3>2. d \o e = Append(combinedDims, s)
      <4>1. d \o Append(memDims, s) = Append(d \o memDims, s)
        BY <1>1, ConcatAppend, Zenon
      <4> QED BY <3>1, <4>1, Zenon DEF combinedDims
    <3>3. ~Holds(combinedDims, s)
      BY <1>1, <3>1, ConcatHolds, Zenon DEF combinedDims
    <3> QED BY <1>1, <2>1, <3>2, <3>3, DistinctAppend, Zenon
  <2> QED BY <2>2, <2>3, Zenon
<1>4. dimValueIndex(s) = IF Holds(d, s) THEN IndexOf(d, s) ELSE Len(d) + IndexOf(e, s)
  BY Zenon DEF dimValueIndex
<1> HIDE DEF d, e
<1>5. Holds(d \o e, s)
  BY <1>1, <1>2, ConcatHolds, Zenon
<1>6. dimValueIndex(s) = IndexOf(d \o e, s)
  BY <1>1, <1>2, <1>3, <1>4, ConcatIndex, Zenon
<1> QED BY <1>2, <1>3, <1>5, <1>6, Zenon DEF d, e

(* insertRows: the new value's index is below the new number of values. *)
LEMMA InsertedBelow ==
  ASSUME TypeInv, IndexInv, MemCounts, NEW s \in Strings, NEW m,
         \/ m = mem
         \/ dimValueIndex(s) \in Idx
            /\ \E t \in Starts : m = [mem EXCEPT ![t][dimValueIndex(s)] = @ + 1]
  PROVE  \A u \in Starts : Below(m[u], Len(static.dims \o DimsWith(s)))
<1> DEFINE c == static.dims \o DimsWith(s)
<1>1. c \in Seq(Strings) /\ combinedDims \in Seq(Strings) /\ mem \in [Starts -> Rows]
  <2>1. static.dims \in Seq(Strings) /\ DimsWith(s) \in Seq(Strings)
    BY TableTypes, NewValue, Zenon
  <2> QED BY <2>1, TableTypes DEF TypeInv, TypeOK, ProcessTypeOK
<1>2. Holds(c, s) /\ dimValueIndex(s) = IndexOf(c, s)
  BY NewValue, Zenon
<1>3. c = combinedDims \/ c = Append(combinedDims, s)
  BY NewValue, Zenon
<1> HIDE DEF c
<1>4. Len(combinedDims) <= Len(c)
  BY <1>1, <1>3
<1>5. dimValueIndex(s) < Len(c)
  BY <1>1, <1>2, IndexOfHeld
<1>6. \A u \in Starts, i \in Idx : mem[u][i] > 0 => i < Len(combinedDims)
  BY Zenon DEF IndexInv, DistinctInv, Below
<1>7. \A u \in Starts, i \in Idx : m[u][i] > 0 => mem[u][i] > 0 \/ i = dimValueIndex(s)
  BY <1>1, ZenonT(40) DEF Rows
<1>8. Len(c) \in Nat /\ Len(combinedDims) \in Nat
  BY <1>1
<1> QED BY <1>4, <1>5, <1>6, <1>7, <1>8 DEF Below, c, Idx

LEMMA InsertIndex ==
  ASSUME TypeInv, IndexInv, NEW s \in Strings, memDims' = DimsWith(s),
         \/ mem' = mem
         \/ dimValueIndex(s) \in Idx
            /\ \E t \in Starts : mem' = [mem EXCEPT ![t][dimValueIndex(s)] = @ + 1],
         ins = "insertRows", ins' \in {"idle", "insertRows"},
         UNCHANGED <<failed, static, mapped, readerVars, diskVars>>
  PROVE  IndexInv'
<1>1. combinedDims' = static.dims \o DimsWith(s) /\ (MemCounts' <=> MemCounts)
  BY Zenon DEF combinedDims, MemCounts, Swapped
<1>2. MemCounts => Distinct(combinedDims')
  BY <1>1, NewValue, Zenon
<1>3. MemCounts => \A t \in Starts : Below(mem'[t], Len(combinedDims'))
  BY <1>1, InsertedBelow, Zenon
<1>4. DistinctInv'
  BY <1>1, <1>2, <1>3, Zenon DEF IndexInv, DistinctInv
<1>5. BelowInv' /\ CopyInv'
  BY SameBelow, Zenon DEF IndexInv, Combining
<1>6. DecodesAlike'
  BY SameDecodes, Zenon DEF IndexInv
<1> QED BY <1>4, <1>5, <1>6, Zenon DEF IndexInv

LEMMA InsertStepIndex ==
  ASSUME TypeInv, IndexInv, InsertStep
  PROVE  IndexInv'
<1>1. ASSUME NEW t \in Starts, NEW s \in Strings, StoreRow(t, s) PROVE IndexInv'
  BY <1>1, InsertIndex, Zenon DEF StoreRow
<1>2. ASSUME NEW t \in Starts, NEW s \in Strings, DropRow(t, s) PROVE IndexInv'
  BY <1>2, InsertIndex, Zenon DEF DropRow
<1>3. ASSUME NEW s \in Strings, RejectRow(s) PROVE IndexInv'
  BY <1>3, InsertIndex, Zenon DEF RejectRow
<1>4. CASE InsertDone
  BY <1>4, SameIndex, Zenon DEF InsertDone, MemCounts, Swapped, Combining
<1> QED BY <1>1, <1>2, <1>3, <1>4, Zenon DEF InsertStep

(* The memTable that replaces the flushed one is empty. *)
LEMMA FlushDoneIndex ==
  ASSUME TypeInv, IndexInv, FlushDone
  PROVE  IndexInv'
<1>1. static.dims \in Seq(Strings)
  BY TableTypes, Zenon
<1>2. combinedDims' = static.dims
  BY <1>1 DEF FlushDone, combinedDims
<1>3. \A t \in Starts : Below(NewMemTable[t], Len(static.dims))
  BY DEF NewMemTable, NoRows, Below
<1>4. DistinctInv'
  BY <1>2, <1>3, Zenon DEF FlushDone, IndexInv, DistinctInv
<1>5. BelowInv' /\ CopyInv'
  BY SameBelow, Zenon DEF FlushDone, IndexInv, Combining
<1>6. DecodesAlike'
  BY SameDecodes, Zenon DEF FlushDone, IndexInv
<1> QED BY <1>4, <1>5, <1>6, Zenon DEF IndexInv

(* Opening a segment, or removing one, touches no table's segments. *)
LEMMA OtherSegment ==
  ASSUME TypeInv, SegmentInv, IndexInv,
         (\E t \in Starts : OpenSegment(t)) \/ (\E f \in Names : cleanUpOldIntervals(f))
  PROVE  IndexInv'
<1>1. /\ proc = "up" /\ proc' = "up" /\ ins \in {"combine", "cleanup"} /\ Next
      /\ UNCHANGED <<procVars, memVars, static, readerVars, newTable, dimFiles, meta>>
  BY Zenon DEF OpenSegment, cleanUpOldIntervals, Next, FlushStep
<1>2. /\ \A f \in Files(static) : mapped'[f] = mapped[f] /\ segs'[f] = segs[f]
      /\ \A f \in Files(meta) : segs'[f] = segs[f]
      /\ ins \in Combining =>
           \A f \in Files(newTable) : mapped'[f] = mapped[f] /\ segs'[f] = segs[f]
  BY <1>1, SegmentsFrozen, Zenon
<1>3. DistinctInv'
  BY <1>1, SameDistinct, Zenon DEF IndexInv, MemCounts, Swapped
<1>4. BelowInv' /\ CopyInv'
  BY <1>1, <1>2, SameBelow, Zenon DEF IndexInv
<1>5. DecodesAlike'
  BY <1>1, SameDecodes, Zenon DEF IndexInv
<1> QED BY <1>3, <1>4, <1>5, Zenon DEF IndexInv

(* A combined interval has the indexes of the memTable and of the StaticTable. *)
LEMMA CombinedBelow ==
  ASSUME TypeInv, SegmentInv, IndexInv, ins = "combine", NEW t \in Starts
  PROVE  newRows(t) \in Rows /\ Below(newRows(t), Len(combinedDims))
<1>1. mem[t] \in Rows /\ Below(mem[t], Len(combinedDims))
  BY Zenon DEF SegmentInv, PhaseInv, IndexInv, DistinctInv, MemCounts, Swapped, TypeInv, TypeOK, ProcessTypeOK
<1>2. CASE t \notin staticKeys
  BY <1>1, <1>2, Zenon DEF newRows
<1>3. CASE t \in staticKeys
  <2> DEFINE f == <<t, static.ivs[t]>>
  <2>1. f \in Files(static) /\ f \in Names
    BY <1>3, FilesAt, TableTypes, Zenon DEF TypeInv, GenRoom, Writing, Keys
  <2>2. mapped[f].rows \in Rows /\ Below(mapped[f].rows, Len(static.dims))
    BY <2>1, Zenon DEF IndexInv, BelowInv, TypeInv, TypeOK, ProcessTypeOK, Segment
  <2>3. /\ Len(static.dims) \in Nat /\ Len(combinedDims) \in Nat
        /\ Len(static.dims) <= Len(combinedDims)
    BY TableTypes, ConcatPlaces, Zenon DEF combinedDims
  <2>4. newRows(t) = [i \in Idx |-> mem[t][i] + mapped[f].rows[i]]
    BY <1>3, Zenon DEF newRows
  <2> HIDE DEF f
  <2>5. newRows(t) \in Rows /\ \A i \in Idx : mem[t][i] \in Nat /\ mapped[f].rows[i] \in Nat
    BY <1>1, <2>2, <2>4, RowSum, Zenon
  <2>6. \A i \in Idx : newRows(t)[i] > 0 => mem[t][i] > 0 \/ mapped[f].rows[i] > 0
    BY <2>4, <2>5
  <2> QED BY <1>1, <2>2, <2>3, <2>5, <2>6 DEF Below, Idx
<1> QED BY <1>2, <1>3, Zenon

LEMMA FreezeIndex ==
  ASSUME TypeInv, SegmentInv, IndexInv, NEW t \in Starts, FreezeInterval(t)
  PROVE  IndexInv'
<1> DEFINE f == <<t, newGeneration(t)>>
<1>1. /\ proc = "up" /\ ins = "combine" /\ t \in queued \cup open /\ Next
      /\ UNCHANGED <<procVars, memVars, static, readerVars, dimFiles, meta>>
  BY Zenon DEF FreezeInterval, Next, FlushStep
<1>2. f \in Names /\ newTable \in Table
  BY <1>1, NewName, Zenon DEF TypeInv, TypeOK, FlushTypeOK
<1>3. /\ \A g \in Files(static) : mapped'[g] = mapped[g] /\ segs'[g] = segs[g]
      /\ \A g \in Files(meta) : segs'[g] = segs[g]
      /\ \A g \in Files(newTable) : mapped'[g] = mapped[g] /\ segs'[g] = segs[g]
  BY <1>1, SegmentsFrozen, Zenon DEF Combining
<1>4. mapped'[f].rows = newRows(t) /\ segs'[f].rows = newRows(t)
  BY <1>2, Zenon DEF FreezeInterval, TypeInv, TypeOK, ProcessTypeOK, DirectoryTypeOK
<1>5. Files(newTable') \subseteq Files(newTable) \cup {f}
  <2>1. \A u \in Starts : newTable'.ivs[u] = IF u = t THEN newGeneration(t) ELSE newTable.ivs[u]
    BY <1>2, Zenon DEF FreezeInterval, Table
  <2> QED BY <2>1, Zenon DEF Files, Keys
<1>6. DistinctInv'
  BY <1>1, SameDistinct, Zenon DEF IndexInv, MemCounts, Swapped
<1>7. combinedDims' = combinedDims
  BY <1>1, Zenon DEF combinedDims
<1>8. BelowInv'
  <2>1. ASSUME NEW g \in Files(newTable') PROVE Below(mapped'[g].rows, Len(combinedDims))
    <3>1. CASE g = f
      BY <1>1, <1>4, <3>1, CombinedBelow, Zenon
    <3>2. CASE g # f
      BY <1>1, <1>3, <1>5, <2>1, <3>2, Zenon DEF IndexInv, BelowInv, Combining
    <3> QED BY <3>1, <3>2, Zenon
  <2>2. \A g \in Files(static) : Below(mapped'[g].rows, Len(static.dims))
    BY <1>3, Zenon DEF IndexInv, BelowInv
  <2>3. \A g \in Files(meta) : Below(segs'[g].rows, meta.dimSize)
    BY <1>3, Zenon DEF IndexInv, BelowInv
  <2> QED BY <1>1, <1>7, <2>1, <2>2, <2>3, Zenon DEF BelowInv
<1>9. CopyInv'
  <2>1. ASSUME NEW g \in Files(newTable') PROVE segs'[g].rows = mapped'[g].rows
    <3>1. CASE g = f
      BY <1>4, <3>1, Zenon
    <3>2. CASE g # f
      BY <1>1, <1>3, <1>5, <2>1, <3>2, Zenon DEF IndexInv, CopyInv, SameOnDisk, Combining
    <3> QED BY <3>1, <3>2, Zenon
  <2>2. \A g \in Files(static) : segs'[g].rows = mapped'[g].rows
    BY <1>3, Zenon DEF IndexInv, CopyInv, SameOnDisk
  <2> QED BY <1>1, <2>1, <2>2, Zenon DEF CopyInv, SameOnDisk
<1>10. DecodesAlike'
  BY <1>1, SameDecodes, Zenon DEF IndexInv
<1> QED BY <1>6, <1>8, <1>9, <1>10, Zenon DEF IndexInv

(* The intervals that the new table takes over. *)
LEMMA PartitionIndex ==
  ASSUME TypeInv, SegmentInv, IndexInv, PartitionMem
  PROVE  IndexInv'
<1>1. Files(newTable') \subseteq Files(static)
  <2>1. \A t \in Starts : newTable'.ivs[t] \in {static.ivs[t], NoGen}
    BY Zenon DEF PartitionMem, NewStaticTable
  <2> QED BY <2>1, Zenon DEF Files, Keys
<1>2. /\ Len(static.dims) \in Nat /\ Len(combinedDims) \in Nat
      /\ Len(static.dims) <= Len(combinedDims) /\ combinedDims' = combinedDims
  BY TableTypes, ConcatPlaces, Zenon DEF PartitionMem, combinedDims
<1>3. DistinctInv'
  BY SameDistinct, Zenon DEF PartitionMem, IndexInv, MemCounts, Swapped
<1>4. BelowInv'
  BY <1>1, <1>2 DEF PartitionMem, IndexInv, BelowInv, Below, Idx
<1>5. CopyInv'
  BY <1>1, Zenon DEF PartitionMem, IndexInv, CopyInv, SameOnDisk
<1>6. DecodesAlike'
  BY SameDecodes, Zenon DEF PartitionMem, IndexInv
<1> QED BY <1>3, <1>4, <1>5, <1>6, Zenon DEF IndexInv

(* The dimension table of the next StaticTable. *)
LEMMA DimStepIndex ==
  ASSUME TypeInv, IndexInv, ReuseDims \/ OpenDimFile
  PROVE  IndexInv'
<1>1. static.dims \in Seq(Strings) /\ newTable \in Table
  BY Zenon DEF TypeInv, TypeOK, ProcessTypeOK, FlushTypeOK, Table
<1>2. newTable'.dims = combinedDims /\ newTable'.ivs = newTable.ivs
  <2>1. CASE ReuseDims
    <3>1. newTable'.dims = static.dims /\ newTable'.ivs = newTable.ivs /\ memDims = <<>>
      BY <1>1, <2>1, Zenon DEF ReuseDims, Table
    <3> QED BY <1>1, <3>1 DEF combinedDims
  <2>2. CASE OpenDimFile
    BY <1>1, <2>2, Zenon DEF OpenDimFile, Table
  <2> QED BY <2>1, <2>2, Zenon
<1>3. \A g \in Gens : Distinct(dimFiles'[g].vals)
  <2>1. \A g \in Gens : dimFiles'[g] \in {dimFiles[g], TornDimFile}
    BY Zenon DEF ReuseDims, OpenDimFile, TypeInv, TypeOK, DirectoryTypeOK
  <2> QED BY <2>1, DistinctEmpty DEF TornDimFile, IndexInv, DistinctInv
<1>4. /\ UNCHANGED <<failed, static, meta, segs, mapped, mem, memDims, readerVars>>
      /\ ins = "storeDims" /\ ins' \in {"encodeDims", "swap"}
  BY Zenon DEF ReuseDims, OpenDimFile
<1>5. DistinctInv'
  BY <1>2, <1>3, <1>4, Zenon DEF IndexInv, DistinctInv, combinedDims, MemCounts, Swapped
<1>6. BelowInv' /\ CopyInv'
  BY <1>2, <1>4, SameBelow, Zenon DEF IndexInv, Combining
<1>7. DecodesAlike'
  BY <1>4, SameDecodes, Zenon DEF IndexInv
<1> QED BY <1>5, <1>6, <1>7, Zenon DEF IndexInv

(* Store writes the values of both tables; the old table's file is removed. *)
LEMMA DimFileIndex ==
  ASSUME TypeInv, SegmentInv, IndexInv, EncodeDims \/ RemoveOldDims
  PROVE  IndexInv'
<1>1. EncodeDims => Distinct(newTable.dims)
  BY Zenon DEF EncodeDims, SegmentInv, PhaseInv, IndexInv, DistinctInv, MemCounts, Swapped
<1>2. \A g \in Gens : Distinct(dimFiles'[g].vals)
  <2>1. CASE EncodeDims
    <3>1. \A g \in Gens : dimFiles'[g].vals \in {dimFiles[g].vals, newTable.dims}
      BY <2>1, Zenon DEF EncodeDims, TypeInv, TypeOK, DirectoryTypeOK
    <3> QED BY <1>1, <2>1, <3>1, Zenon DEF IndexInv, DistinctInv
  <2>2. CASE RemoveOldDims
    <3>1. \A g \in Gens : dimFiles'[g] \in {dimFiles[g], NoDimFile}
      BY <2>2, Zenon DEF RemoveOldDims
    <3> QED BY <3>1, DistinctEmpty DEF NoDimFile, IndexInv, DistinctInv
  <2> QED BY <2>1, <2>2, Zenon
<1>3. /\ UNCHANGED <<failed, static, meta, segs, mapped, mem, memDims, newTable, cleanup, readerVars>>
      /\ \/ ins = "encodeDims" /\ ins' = "swap"
         \/ ins = "removeDims" /\ ins' = "cleanup"
  BY Zenon DEF EncodeDims, RemoveOldDims
<1>4. DistinctInv'
  BY <1>2, <1>3, Zenon DEF IndexInv, DistinctInv, combinedDims, MemCounts, Swapped
<1>5. BelowInv' /\ CopyInv'
  BY <1>3, SameBelow, Zenon DEF IndexInv, Combining
<1>6. DecodesAlike'
  BY <1>3, SameDecodes, Zenon DEF IndexInv
<1> QED BY <1>4, <1>5, <1>6, Zenon DEF IndexInv

(* The swap: the new dimension table begins with the old one. *)
LEMMA SwapIndex ==
  ASSUME TypeInv, SegmentInv, IndexInv, SwapTable
  PROVE  IndexInv'
<1>1. /\ ins = "swap" /\ ins' = "await" /\ static' = newTable
      /\ UNCHANGED <<failed, mem, memDims, mapped, rd, view, newTable, cleanup, diskVars>>
  BY Zenon DEF SwapTable
<1>2. newTable.dims = combinedDims /\ Distinct(combinedDims)
  BY <1>1, Zenon DEF SegmentInv, PhaseInv, IndexInv, DistinctInv, MemCounts, Swapped
<1>3. /\ Len(static.dims) \in Nat /\ Len(combinedDims) \in Nat
      /\ Len(static.dims) <= Len(combinedDims)
      /\ \A k \in DOMAIN static.dims : k \in DOMAIN combinedDims /\ combinedDims[k] = static.dims[k]
  BY TableTypes, ConcatPlaces, Zenon DEF combinedDims
<1>4. DistinctInv'
  BY <1>1, <1>2, Zenon DEF IndexInv, DistinctInv, MemCounts, Swapped
<1>5. BelowInv'
  <2>1. \A f \in cleanup : Below(mapped[f].rows, Len(combinedDims))
    BY <1>1, <1>3 DEF SegmentInv, CombineInv, IndexInv, BelowInv, Below, Combining, Idx
  <2>2. \A f \in Files(newTable) : Below(mapped[f].rows, Len(combinedDims))
    BY <1>1, Zenon DEF IndexInv, BelowInv, Combining
  <2> QED BY <1>1, <1>2, <2>1, <2>2, Zenon DEF IndexInv, BelowInv, Combining
<1>6. CopyInv'
  BY <1>1, Zenon DEF IndexInv, CopyInv, SameOnDisk, Combining
<1>7. DecodesAlike'
  <2>1. \A r \in Readers : rd[r] # "idle" => view[r] = static
    BY <1>1, Zenon DEF SegmentInv, ReaderInv
  <2> QED BY <1>1, <1>2, <1>3, <2>1, Zenon DEF DecodesAlike
<1> QED BY <1>4, <1>5, <1>6, <1>7, Zenon DEF IndexInv

(* db.json names what is mapped. *)
LEMMA MetadataIndex ==
  ASSUME IndexInv, writeMetadataFile
  PROVE  IndexInv'
<1>1. /\ UNCHANGED <<failed, static, segs, mapped, dimFiles, mem, memDims, readerVars>>
      /\ ins = "metadata" /\ ins' = "removeDims"
      /\ meta'.ivs = static.ivs /\ meta'.dimSize = Len(static.dims)
  BY Zenon DEF writeMetadataFile
<1>2. Files(meta') = Files(static)
  BY <1>1, SameFiles, Zenon
<1>3. DistinctInv'
  BY <1>1, SameDistinct, Zenon DEF IndexInv, MemCounts, Swapped
<1>4. BelowInv'
  BY <1>1, <1>2, Zenon DEF IndexInv, BelowInv, CopyInv, SameOnDisk, Combining
<1>5. CopyInv'
  BY <1>1, Zenon DEF IndexInv, CopyInv, SameOnDisk, Combining
<1>6. DecodesAlike'
  BY <1>1, SameDecodes, Zenon DEF IndexInv
<1> QED BY <1>3, <1>4, <1>5, <1>6, Zenon DEF IndexInv

LEMMA IndexInit == Init => IndexInv
<1> SUFFICES ASSUME Init PROVE IndexInv
  BY Zenon
<1>1. static.dims = <<>> /\ memDims = <<>> /\ combinedDims = <<>>
  BY DEF Init, NewStaticTable, combinedDims
<1>2. \A t \in Starts : Below(mem[t], Len(combinedDims))
  BY DEF Init, NewMemTable, NoRows, Below
<1>3. \A g \in Gens : Distinct(dimFiles[g].vals)
  BY DistinctEmpty, Zenon DEF Init, NoDimFile
<1>4. DistinctInv
  BY <1>1, <1>2, <1>3, DistinctEmpty, Zenon DEF Init, DistinctInv
<1>5. BelowInv /\ CopyInv
  BY NoFiles, Zenon DEF Init, BelowInv, CopyInv, SameOnDisk, Combining
<1>6. DecodesAlike
  BY Zenon DEF Init, DecodesAlike
<1> QED BY <1>4, <1>5, <1>6, Zenon DEF IndexInv

LEMMA IndexNext == TypeInv /\ SegmentInv /\ IndexInv /\ [Next]_vars => IndexInv'
<1> SUFFICES ASSUME TypeInv, SegmentInv, IndexInv, [Next]_vars PROVE IndexInv'
  BY Zenon
<1> USE DEF MemCounts, Swapped, Combining
<1>1. CASE OpenDB
  BY <1>1, OpenDBIndex, Zenon
<1>2. CASE NewDB \/ Crash \/ ExitOnFlushError
  BY <1>2, EmptyFresh, Zenon DEF NewDB, Crash, ExitOnFlushError, Exit
<1>3. CASE LoadDBFatal \/ Relaunch \/ Tick
  <2>1. UNCHANGED <<ins, failed, memVars, static, mapped, readerVars, flushVars, diskVars>>
    BY <1>3, Zenon DEF LoadDBFatal, Relaunch, Tick
  <2> QED BY <2>1, SameIndex, Zenon
<1>4. CASE HandleInsert \/ FlushStart
  <2>1. /\ ins = "idle" /\ ins' \in {"insertRows", "partitionMem"}
        /\ UNCHANGED <<failed, memVars, static, mapped, readerVars, diskVars>>
    BY <1>4, Zenon DEF HandleInsert, FlushStart
  <2> QED BY <2>1, SameIndex, Zenon
<1>5. CASE InsertStep
  BY <1>5, InsertStepIndex, Zenon
<1>6. CASE PartitionMem
  BY <1>6, PartitionIndex, Zenon
<1>7. ASSUME NEW t \in Starts, OpenSegment(t) PROVE IndexInv'
  BY <1>7, OtherSegment, Zenon
<1>8. ASSUME NEW t \in Starts, FreezeInterval(t) PROVE IndexInv'
  BY <1>8, FreezeIndex, Zenon
<1>9. ASSUME NEW t \in Starts, WriteIntervalFails(t) PROVE IndexInv'
  BY <1>9, SameIndex, Zenon DEF WriteIntervalFails
<1>10. CASE CombineFails \/ StoreFails \/ WriteMetadataFails
  BY <1>10, SameIndex, Zenon DEF CombineFails, StoreFails, WriteMetadataFails, FlushFails
<1>11. CASE CombineDone \/ DimCloseFails \/ RequestsFinished
  <2>1. /\ UNCHANGED <<failed, memVars, static, mapped, readerVars, flushVars, diskVars>>
        /\ \/ ins = "combine" /\ ins' = "storeDims"
           \/ ins = "encodeDims" /\ ins' = "swap"
           \/ ins = "await" /\ ins' = "metadata"
    BY <1>11, Zenon DEF CombineDone, DimCloseFails, RequestsFinished
  <2> QED BY <2>1, SameIndex, Zenon
<1>12. CASE ReuseDims \/ OpenDimFile
  BY <1>12, DimStepIndex, Zenon
<1>13. CASE EncodeDims \/ RemoveOldDims
  BY <1>13, DimFileIndex, Zenon
<1>14. CASE SwapTable
  BY <1>14, SwapIndex, Zenon
<1>15. CASE writeMetadataFile
  BY <1>15, MetadataIndex, Zenon
<1>16. ASSUME NEW f \in Names, cleanUpOldIntervals(f) PROVE IndexInv'
  BY <1>16, OtherSegment, Zenon
<1>17. CASE FlushDone
  BY <1>17, FlushDoneIndex, Zenon
<1>18. ASSUME NEW q \in Readers, HandleRequest(q) \/ Respond(q) \/ Done(q) PROVE IndexInv'
  <2>1. \A r \in Readers : rd'[r] # "idle" =>
          view'[r] = static \/ (rd[r] # "idle" /\ view'[r] = view[r])
    BY <1>18, Zenon DEF HandleRequest, Respond, Done, TypeInv, TypeOK, ProcessTypeOK
  <2>2. UNCHANGED <<procVars, memVars, static, mapped, flushVars, diskVars>>
    BY <1>18, Zenon DEF HandleRequest, Respond, Done
  <2> QED BY <2>1, <2>2, SameIndex, Zenon
<1>19. CASE UNCHANGED vars
  BY <1>19, SameIndex, Zenon DEF vars
<1> QED
  BY <1>1, <1>2, <1>3, <1>4, <1>5, <1>6, <1>7, <1>8, <1>9, <1>10, <1>11, <1>12, <1>13, <1>14,
     <1>15, <1>16, <1>17, <1>18, <1>19, Zenon DEF Next, LoadDB, FlushStep

(* The indexes of every segment are those of the dimension table beside it. *)
THEOREM IndexesKept == Spec => [](TypeInv /\ SegmentInv /\ IndexInv)
<1>1. Init => IndexInv
  BY IndexInit, Zenon
<1>2. TypeInv /\ SegmentInv /\ IndexInv /\ [Next]_vars => IndexInv'
  BY IndexNext, Zenon
<1> QED BY <1>1, <1>2, SegmentsKept, PTL DEF Spec

(***************************************************************************)
(* DeserializeRow, which decodes a Response's rows with the dimension      *)
(* tables of the current StaticTable, finds the values the rows were       *)
(* stored under: every later dimension table begins with the Response's.   *)
(***************************************************************************)
THEOREM ResponsesDecodeAlike == Spec => []DecodesAlike
<1>1. IndexInv => DecodesAlike
  BY Zenon DEF IndexInv
<1> QED BY <1>1, IndexesKept, PTL

(* A client without a request has no StaticTable. *)
LEMMA IdleViewsKept == Spec => []IdleViews
<1>1. Init => IdleViews
  BY Zenon DEF Init, IdleViews
<1>2. TypeInv /\ IdleViews /\ [Next]_vars => IdleViews'
  <2> SUFFICES ASSUME TypeInv, IdleViews, [Next]_vars PROVE IdleViews'
    BY Zenon
  <2> USE DEF IdleViews
  <2>1. CASE LoadDB \/ Relaunch \/ Crash \/ ExitOnFlushError \/ Tick
    BY <2>1, Zenon DEF LoadDB, OpenDB, NewDB, LoadDBFatal, Relaunch, Crash, ExitOnFlushError, Exit, Fresh, Tick
  <2>2. CASE HandleInsert \/ InsertStep \/ FlushStart
    BY <2>2, Zenon DEF HandleInsert, InsertStep, StoreRow, DropRow, RejectRow, InsertDone, FlushStart
  <2>3. CASE FlushStep
    <3>1. rd' = rd /\ view' = view
      BY <2>3, Zenon DEF FlushStep, PartitionMem, OpenSegment, FreezeInterval, WriteIntervalFails,
         CombineFails, CombineDone, ReuseDims, OpenDimFile, EncodeDims, StoreFails, DimCloseFails,
         SwapTable, RequestsFinished, writeMetadataFile, WriteMetadataFails, RemoveOldDims,
         cleanUpOldIntervals, FlushDone, FlushFails
    <3> QED BY <3>1, Zenon
  <2>4. ASSUME NEW q \in Readers, HandleRequest(q) \/ Respond(q) \/ Done(q) PROVE IdleViews'
    BY <2>4, Zenon DEF HandleRequest, Respond, Done, TypeInv, TypeOK, ProcessTypeOK
  <2>5. CASE UNCHANGED vars
    BY <2>5, Zenon DEF vars
  <2> QED BY <2>1, <2>2, <2>3, <2>4, <2>5, Zenon DEF Next
<1> QED BY <1>1, <1>2, SegmentsKept, PTL DEF Spec

(***************************************************************************)
(* Values[dimensionIndex] in DeserializeRow is never out of range.         *)
(***************************************************************************)
THEOREM IndexesAlwaysDecode == Spec => []IndexesDecode
<1>1. SegmentInv /\ IndexInv /\ IdleViews => IndexesDecode
  <2> SUFFICES ASSUME SegmentInv, IndexInv, IdleViews,
                      NEW f \in Files(static) \cup UNION {Files(view[r]) : r \in Readers}
               PROVE  Below(mapped[f].rows, Len(static.dims))
    BY Zenon DEF IndexesDecode, Below
  <2>1. CASE f \in Files(static)
    BY <2>1, Zenon DEF IndexInv, BelowInv
  <2>2. ASSUME NEW r \in Readers, f \in Files(view[r]) PROVE Below(mapped[f].rows, Len(static.dims))
    <3>1. CASE rd[r] # "idle"
      BY <2>2, <3>1, Zenon DEF SegmentInv, ReaderInv, IndexInv, BelowInv
    <3>2. CASE rd[r] = "idle"
      BY <2>2, <3>2, NoFiles, Zenon DEF IdleViews
    <3> QED BY <3>1, <3>2, Zenon
  <2> QED BY <2>1, <2>2, Zenon
<1> QED BY <1>1, IndexesKept, IdleViewsKept, PTL
=============================================================================
