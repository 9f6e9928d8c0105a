----------------------- MODULE GumshoeDBSegmentProofs -----------------------
(***************************************************************************)
(* The types of GumshoeDB and the segment files of its tables, for every   *)
(* value of its constants.                                                 *)
(***************************************************************************)
EXTENDS GumshoeDB, TLAPS

USE DEF procVars, memVars, readerVars, flushVars, diskVars, histVars

\* While intervals and dimension tables are written, the next generation is in bounds
\* and the keys collected at the start of the flush are those of the StaticTable
Writing == {"partitionMem", "combine", "storeDims"}
GenRoom ==
  ins \in Writing =>
    /\ static.dimGen < MaxGen
    /\ \A t \in Starts : static.ivs[t] < MaxGen
    /\ staticKeys \subseteq Keys(static)

TypeInv == TypeOK /\ GenRoom

(* The values that fresh and torn state starts from have their types. *)
LEMMA ZeroGen == 0 \in Gens
BY ConstantsAssumption DEF Gens

LEMMA NoRowsType == NoRows \in Rows
BY Zenon DEF NoRows, Rows

LEMMA SegmentType == NoSegment \in Segment /\ TornSegment \in Segment
BY NoRowsType, Zenon DEF NoSegment, TornSegment, Segment

LEMMA DimFileType == NoDimFile \in DimFile /\ TornDimFile \in DimFile
BY DEF NoDimFile, TornDimFile, DimFile

LEMMA NewStaticTableType == NewStaticTable \in Table
BY ZeroGen DEF NewStaticTable, Table

LEMMA NoMetadataType == NoMetadata \in Metadata
BY ZeroGen, Zenon DEF NoMetadata, Metadata, NewStaticTable

LEMMA NewMemTableType == NewMemTable \in [Starts -> Rows]
BY NoRowsType, Zenon DEF NewMemTable

LEMMA NoMapsType == NoMaps \in [Names -> Segment]
BY SegmentType, Zenon DEF NoMaps

LEMMA FreshValues ==
  /\ NewMemTable \in [Starts -> Rows] /\ NoMaps \in [Names -> Segment]
  /\ NewStaticTable \in Table /\ NoMetadata \in Metadata /\ NoDimFile \in DimFile
BY NewMemTableType, NoMapsType, NewStaticTableType, NoMetadataType, DimFileType, Zenon

LEMMA TypeInit == Init => TypeInv
<1> SUFFICES ASSUME Init PROVE TypeInv
  BY Zenon
<1>1. ProcessTypeOK
  <2>1. /\ proc \in {"up", "down", "fatal"} /\ latest \in Starts \cup {ZeroTime}
        /\ ins \in Phases /\ failed \in BOOLEAN
        /\ wg \subseteq Readers /\ oldWg \subseteq Readers
    BY Zenon DEF Init, Phases
  <2>2. /\ mem \in [Starts -> Rows] /\ memDims \in Seq(Strings)
        /\ static \in Table /\ mapped \in [Names -> Segment]
        /\ rd \in [Readers -> {"idle", "requested", "reading"}] /\ view \in [Readers -> Table]
    BY FreshValues DEF Init
  <2> QED BY <2>1, <2>2, Zenon DEF ProcessTypeOK
<1>2. FlushTypeOK
  <2>1. newTable \in Table /\ oldDim \in Gens \cup {NoGen}
    BY FreshValues, Zenon DEF Init
  <2>2. /\ staticKeys \subseteq Starts /\ memKeys \subseteq Starts
        /\ queued \subseteq Starts /\ open \subseteq Starts /\ writeErr \in BOOLEAN
        /\ cleanup \subseteq Names
    BY Zenon DEF Init
  <2> QED BY <2>1, <2>2, Zenon DEF FlushTypeOK
<1>3. DirectoryTypeOK
  BY FreshValues, Zenon DEF Init, DirectoryTypeOK
<1> QED BY <1>1, <1>2, <1>3, Zenon DEF Init, TypeInv, TypeOK, GenRoom, Writing

(* A process that starts with a well-typed table, or is gone, is well-typed. *)
LEMMA FreshType ==
  ASSUME NEW tb \in Table, NEW maps \in [Names -> Segment], Fresh(tb, maps),
         proc' \in {"up", "down", "fatal"}
  PROVE  ProcessTypeOK' /\ FlushTypeOK' /\ GenRoom'
<1>1. ProcessTypeOK'
  <2>1. /\ proc' \in {"up", "down", "fatal"} /\ latest' \in Starts \cup {ZeroTime}
        /\ ins' \in Phases /\ failed' \in BOOLEAN
        /\ wg' \subseteq Readers /\ oldWg' \subseteq Readers
    BY Zenon DEF Fresh, Phases
  <2>2. /\ mem' \in [Starts -> Rows] /\ memDims' \in Seq(Strings)
        /\ static' \in Table /\ mapped' \in [Names -> Segment]
        /\ rd' \in [Readers -> {"idle", "requested", "reading"}] /\ view' \in [Readers -> Table]
    BY FreshValues DEF Fresh
  <2> QED BY <2>1, <2>2, Zenon DEF ProcessTypeOK
<1>2. FlushTypeOK'
  <2>1. newTable' \in Table /\ oldDim' \in Gens \cup {NoGen}
    BY FreshValues, Zenon DEF Fresh
  <2>2. /\ staticKeys' \subseteq Starts /\ memKeys' \subseteq Starts
        /\ queued' \subseteq Starts /\ open' \subseteq Starts /\ writeErr' \in BOOLEAN
        /\ cleanup' \subseteq Names
    BY Zenon DEF Fresh
  <2> QED BY <2>1, <2>2, Zenon DEF FlushTypeOK
<1>3. GenRoom'
  BY Zenon DEF Fresh, GenRoom, Writing
<1> QED BY <1>1, <1>2, <1>3, Zenon

(* flush() returning an error leaves the process well-typed. *)
LEMMA FlushFailsType ==
  ASSUME TypeInv, FlushFails
  PROVE  ProcessTypeOK' /\ FlushTypeOK' /\ GenRoom'
<1>1. ProcessTypeOK'
  BY Zenon DEF TypeInv, TypeOK, FlushFails, ProcessTypeOK, Phases
<1>2. FlushTypeOK'
  <2>1. newTable' \in Table /\ oldDim' \in Gens \cup {NoGen}
    BY FreshValues, Zenon DEF FlushFails
  <2>2. /\ staticKeys' \subseteq Starts /\ memKeys' \subseteq Starts
        /\ queued' \subseteq Starts /\ open' \subseteq Starts /\ writeErr' \in BOOLEAN
        /\ cleanup' \subseteq Names
    BY Zenon DEF FlushFails
  <2> QED BY <2>1, <2>2, Zenon DEF FlushTypeOK
<1>3. GenRoom'
  BY Zenon DEF FlushFails, GenRoom, Writing
<1> QED BY <1>1, <1>2, <1>3, Zenon

LEMMA DimsWithType ==
  ASSUME TypeOK, NEW s \in Strings
  PROVE  DimsWith(s) \in Seq(Strings)
BY DEF TypeOK, ProcessTypeOK, DimsWith

(* What the steps that leave most of the state alone preserve. *)
LEMMA SameFlush ==
  ASSUME FlushTypeOK, UNCHANGED flushVars
  PROVE  FlushTypeOK'
BY Zenon DEF FlushTypeOK

LEMMA SameDirectory ==
  ASSUME DirectoryTypeOK, UNCHANGED <<diskVars, clock, histVars>>, mishaps' \in Nat
  PROVE  DirectoryTypeOK'
BY Zenon DEF DirectoryTypeOK

LEMMA SameProcess ==
  ASSUME ProcessTypeOK, UNCHANGED <<memVars, static, mapped, readerVars, failed>>,
         proc' \in {"up", "down", "fatal"}, ins' \in Phases
  PROVE  ProcessTypeOK'
BY Zenon DEF ProcessTypeOK

LEMMA SameRoom ==
  ASSUME GenRoom, UNCHANGED <<static, staticKeys>>, ins' \in Writing => ins \in Writing
  PROVE  GenRoom'
BY Zenon DEF GenRoom

LEMMA MishapCounted ==
  ASSUME DirectoryTypeOK, NEW kind, MayFail(kind)
  PROVE  mishaps' \in Nat
BY DEF DirectoryTypeOK, MayFail

LEMMA ControlStep ==
  ASSUME TypeInv, UNCHANGED <<memVars, static, mapped, readerVars, failed, flushVars, diskVars,
                              clock, histVars>>,
         proc' \in {"up", "down", "fatal"}, ins' \in Phases, mishaps' \in Nat,
         ins' \in Writing => ins \in Writing
  PROVE  TypeInv'
BY SameFlush, SameDirectory, SameProcess, SameRoom, Zenon DEF TypeInv, TypeOK

LEMMA InsertStepType ==
  ASSUME TypeInv, InsertStep
  PROVE  TypeInv'
<1> USE DEF TypeInv, TypeOK
<1>1. ASSUME NEW t \in Starts, NEW s \in Strings, StoreRow(t, s)
      PROVE  TypeInv'
  <2>1. mem' \in [Starts -> Rows]
    BY <1>1 DEF StoreRow, ProcessTypeOK, Rows
  <2>2. accepted' \in [Starts -> [Strings -> Nat]]
    BY <1>1 DEF StoreRow, DirectoryTypeOK
  <2>3. latest' \in Starts \cup {ZeroTime}
    BY <1>1, Zenon DEF StoreRow, ProcessTypeOK, Later
  <2>4. ProcessTypeOK'
    BY <1>1, <2>1, <2>3, DimsWithType, Zenon DEF StoreRow, ProcessTypeOK
  <2>5. DirectoryTypeOK'
    BY <1>1, <2>2, Zenon DEF StoreRow, DirectoryTypeOK
  <2> QED BY <1>1, <2>4, <2>5, SameFlush, SameRoom, Zenon DEF StoreRow
<1>2. ASSUME NEW t \in Starts, NEW s \in Strings, DropRow(t, s)
      PROVE  TypeInv'
  <2>1. ProcessTypeOK'
    BY <1>2, DimsWithType, Zenon DEF DropRow, ProcessTypeOK, Later
  <2> QED BY <1>2, <2>1, SameFlush, SameDirectory, SameRoom, Zenon DEF DropRow, DirectoryTypeOK
<1>3. ASSUME NEW s \in Strings, RejectRow(s)
      PROVE  TypeInv'
  <2>1. ProcessTypeOK'
    BY <1>3, DimsWithType, Zenon DEF RejectRow, ProcessTypeOK, Phases
  <2> QED BY <1>3, <2>1, SameFlush, SameDirectory, SameRoom, Zenon DEF RejectRow, DirectoryTypeOK, Writing
<1>4. CASE InsertDone
  BY <1>4, ControlStep, Zenon DEF InsertDone, ProcessTypeOK, DirectoryTypeOK, Phases, Writing
<1> QED BY <1>1, <1>2, <1>3, <1>4, Zenon DEF InsertStep

(* The part of flush that writes the intervals. *)
LEMMA CombineType ==
  ASSUME TypeInv,
         FlushStart \/ PartitionMem \/ CombineDone \/ CombineFails \/
           \E t \in Starts : OpenSegment(t) \/ FreezeInterval(t) \/ WriteIntervalFails(t)
  PROVE  TypeInv'
<1> USE DEF TypeInv, TypeOK
<1>1. CASE FlushStart
  <2>1. ProcessTypeOK' /\ DirectoryTypeOK'
    BY <1>1, SameProcess, SameDirectory, Zenon DEF FlushStart, ProcessTypeOK, DirectoryTypeOK, Phases
  <2>2. FlushTypeOK' /\ GenRoom'
    BY <1>1, Zenon DEF FlushStart, FlushTypeOK, GenRoom, Keys
  <2> QED BY <2>1, <2>2, Zenon
<1>2. CASE PartitionMem
  <2>1. ProcessTypeOK' /\ DirectoryTypeOK' /\ GenRoom'
    BY <1>2, SameProcess, SameDirectory, SameRoom, Zenon
       DEF PartitionMem, ProcessTypeOK, DirectoryTypeOK, Phases, Writing
  <2>2. newTable' \in Table
    <3>1. [t \in Starts |-> IF t \in staticKeys \ memKeys' THEN static.ivs[t] ELSE NoGen]
            \in [Starts -> Gens \cup {NoGen}]
      BY Zenon DEF ProcessTypeOK, Table
    <3> QED BY <1>2, <3>1, NewStaticTableType, Zenon DEF PartitionMem, Table
  <2>3. cleanup' \subseteq Names
    BY <1>2 DEF PartitionMem, Keys, Names, Table, ProcessTypeOK, FlushTypeOK, GenRoom, Writing
  <2>4. FlushTypeOK'
    BY <1>2, <2>2, <2>3, Zenon DEF PartitionMem, MemIntervals, FlushTypeOK
  <2> QED BY <2>1, <2>4, Zenon
<1>3. CASE CombineDone
  BY <1>3, ControlStep, Zenon DEF CombineDone, ProcessTypeOK, DirectoryTypeOK, Phases, Writing
<1>4. CASE CombineFails
  <2>1. DirectoryTypeOK'
    BY <1>4, SameDirectory, Zenon DEF CombineFails, FlushFails, DirectoryTypeOK
  <2> QED BY <1>4, <2>1, FlushFailsType, Zenon DEF CombineFails
<1>5. ASSUME NEW t \in Starts, OpenSegment(t)
      PROVE  TypeInv'
  <2>1. segs' \in [Names -> Segment] /\ mapped' \in [Names -> Segment]
    BY <1>5, SegmentType, Zenon DEF OpenSegment, ProcessTypeOK, DirectoryTypeOK
  <2>2. ProcessTypeOK'
    BY <1>5, <2>1, Zenon DEF OpenSegment, ProcessTypeOK
  <2>3. DirectoryTypeOK'
    BY <1>5, <2>1, Zenon DEF OpenSegment, DirectoryTypeOK
  <2>4. FlushTypeOK' /\ GenRoom'
    BY <1>5, SameRoom, Zenon DEF OpenSegment, FlushTypeOK
  <2> QED BY <2>2, <2>3, <2>4, Zenon
<1>6. ASSUME NEW t \in Starts, FreezeInterval(t)
      PROVE  TypeInv'
  <2>1. newGeneration(t) \in Gens
    <3>1. static.ivs[t] \in Gens \cup {NoGen} /\ static.ivs[t] < MaxGen
      BY <1>6, Zenon DEF FreezeInterval, Table, ProcessTypeOK, GenRoom, Writing
    <3> QED BY ONLY <3>1, ConstantsAssumption DEF newGeneration, Gens, NoGen
  <2>2. newRows(t) \in Rows
    <3>1. CASE t \in staticKeys
      <4>1. <<t, static.ivs[t]>> \in Names
        BY <1>6, <3>1, Zenon DEF FreezeInterval, Keys, Names, Table, ProcessTypeOK, GenRoom, Writing
      <4>2. mapped[<<t, static.ivs[t]>>].rows \in Rows /\ mem[t] \in Rows
        BY <4>1, Zenon DEF Segment, ProcessTypeOK
      <4> QED BY ONLY <3>1, <4>2 DEF newRows, Rows
    <3>2. CASE t \notin staticKeys
      BY <3>2, Zenon DEF newRows, ProcessTypeOK
    <3> QED BY <3>1, <3>2, Zenon
  <2>3. [st |-> "whole", rows |-> newRows(t)] \in Segment
    BY <2>2, Zenon DEF Segment
  <2>4. ProcessTypeOK'
    BY <1>6, <2>3, Zenon DEF FreezeInterval, ProcessTypeOK
  <2>5. DirectoryTypeOK'
    BY <1>6, <2>3, Zenon DEF FreezeInterval, DirectoryTypeOK
  <2>6. newTable' \in Table
    BY <1>6, <2>1, Zenon DEF FreezeInterval, FlushTypeOK, Table
  <2>7. FlushTypeOK' /\ GenRoom'
    BY <1>6, <2>6, SameRoom, Zenon DEF FreezeInterval, FlushTypeOK
  <2> QED BY <2>4, <2>5, <2>7, Zenon
<1>7. ASSUME NEW t \in Starts, WriteIntervalFails(t)
      PROVE  TypeInv'
  <2>3. mishaps' \in Nat
    BY <1>7, MishapCounted, Zenon DEF WriteIntervalFails
  <2>4. DirectoryTypeOK'
    BY <1>7, <2>3, SameDirectory, Zenon DEF WriteIntervalFails
  <2>1. ProcessTypeOK' /\ DirectoryTypeOK' /\ GenRoom'
    BY <1>7, <2>4, SameProcess, SameRoom, Zenon DEF WriteIntervalFails, ProcessTypeOK
  <2>2. FlushTypeOK'
    BY <1>7, Zenon DEF WriteIntervalFails, FlushTypeOK
  <2> QED BY <2>1, <2>2, Zenon
<1> QED BY <1>1, <1>2, <1>3, <1>4, <1>5, <1>6, <1>7, Zenon

(* The part of flush that publishes what was written, and cleans up. *)
LEMMA PublishType ==
  ASSUME TypeInv,
         ReuseDims \/ OpenDimFile \/ EncodeDims \/ StoreFails \/ DimCloseFails \/ SwapTable \/
         RequestsFinished \/ writeMetadataFile \/ WriteMetadataFails \/ RemoveOldDims \/ FlushDone \/
           \E f \in Names : cleanUpOldIntervals(f)
  PROVE  TypeInv'
<1> USE DEF TypeInv, TypeOK
<1>1. CASE ReuseDims
  <2>1. ProcessTypeOK' /\ DirectoryTypeOK' /\ GenRoom'
    BY <1>1, SameProcess, SameDirectory, SameRoom, Zenon
       DEF ReuseDims, ProcessTypeOK, DirectoryTypeOK, Phases, Writing
  <2>2. newTable' \in Table
    BY <1>1, Zenon DEF ReuseDims, ProcessTypeOK, FlushTypeOK, Table
  <2> QED BY <1>1, <2>1, <2>2, Zenon DEF ReuseDims, FlushTypeOK
<1>2. CASE OpenDimFile
  <2>1. newDimGeneration \in Gens /\ static.dimGen \in Gens
    <3>1. static.dimGen \in Gens /\ static.dimGen < MaxGen
      BY <1>2, Zenon DEF OpenDimFile, Table, ProcessTypeOK, GenRoom, Writing
    <3> QED BY ONLY <3>1, ConstantsAssumption DEF newDimGeneration, Gens
  <2>2. combinedDims \in Seq(Strings)
    BY DEF combinedDims, Table, ProcessTypeOK
  <2>3. newTable' \in Table
    BY <1>2, <2>1, <2>2, Zenon DEF OpenDimFile, FlushTypeOK, Table
  <2>4. FlushTypeOK'
    BY <1>2, <2>1, <2>3, Zenon DEF OpenDimFile, FlushTypeOK
  <2>5. DirectoryTypeOK'
    BY <1>2, DimFileType, Zenon DEF OpenDimFile, DirectoryTypeOK
  <2>6. ProcessTypeOK' /\ GenRoom'
    BY <1>2, SameProcess, SameRoom, Zenon DEF OpenDimFile, ProcessTypeOK, Phases, Writing
  <2> QED BY <2>4, <2>5, <2>6, Zenon
<1>3. CASE EncodeDims
  <2>1. [st |-> "whole", vals |-> newTable.dims] \in DimFile
    BY Zenon DEF DimFile, FlushTypeOK, Table
  <2>2. DirectoryTypeOK'
    BY <1>3, <2>1, Zenon DEF EncodeDims, DirectoryTypeOK
  <2> QED BY <1>3, <2>2, SameProcess, SameFlush, SameRoom, Zenon
          DEF EncodeDims, ProcessTypeOK, Phases, Writing
<1>4. CASE StoreFails
  <2>1. DirectoryTypeOK'
    <3>1. mishaps' \in Nat
      BY <1>4, MishapCounted, Zenon DEF StoreFails
    <3> QED BY <1>4, <3>1, SameDirectory, Zenon DEF StoreFails, FlushFails
  <2> QED BY <1>4, <2>1, FlushFailsType, Zenon DEF StoreFails
<1>5. CASE DimCloseFails
  <2>1. mishaps' \in Nat
    BY <1>5, MishapCounted, Zenon DEF DimCloseFails
  <2> QED BY <1>5, <2>1, ControlStep, Zenon DEF DimCloseFails, ProcessTypeOK, Phases, Writing
<1>6. CASE SwapTable
  <2>1. ProcessTypeOK'
    BY <1>6, Zenon DEF SwapTable, ProcessTypeOK, FlushTypeOK, Phases
  <2>2. GenRoom'
    BY <1>6, Zenon DEF SwapTable, GenRoom, Writing
  <2> QED BY <1>6, <2>1, <2>2, SameFlush, SameDirectory, Zenon DEF SwapTable, DirectoryTypeOK
<1>7. CASE RequestsFinished
  BY <1>7, ControlStep, Zenon DEF RequestsFinished, ProcessTypeOK, DirectoryTypeOK, Phases, Writing
<1>8. CASE writeMetadataFile
  <2>1. meta' \in Metadata
    <3>1. /\ static.ivs \in [Starts -> Gens \cup {NoGen}] /\ static.dimGen \in Gens
          /\ Len(static.dims) \in Nat
      BY DEF ProcessTypeOK, Table
    <3>2. meta' = [exists |-> TRUE, ivs |-> static.ivs, dimGen |-> static.dimGen,
                   dimSize |-> Len(static.dims)]
      BY <1>8, Zenon DEF writeMetadataFile
    <3> QED BY <3>1, <3>2, Zenon DEF Metadata
  <2>2. DirectoryTypeOK'
    BY <1>8, <2>1, Zenon DEF writeMetadataFile, DirectoryTypeOK
  <2> QED BY <1>8, <2>2, SameProcess, SameFlush, SameRoom, Zenon
          DEF writeMetadataFile, ProcessTypeOK, Phases, Writing
<1>9. CASE WriteMetadataFails
  <2>1. DirectoryTypeOK'
    BY <1>9, SameDirectory DEF WriteMetadataFails, FlushFails, MayFail, DirectoryTypeOK
  <2> QED BY <1>9, <2>1, FlushFailsType, Zenon DEF WriteMetadataFails
<1>10. CASE RemoveOldDims
  <2>1. DirectoryTypeOK'
    BY <1>10, DimFileType, Zenon DEF RemoveOldDims, DirectoryTypeOK
  <2> QED BY <1>10, <2>1, SameProcess, SameFlush, SameRoom, Zenon
          DEF RemoveOldDims, ProcessTypeOK, Phases, Writing
<1>11. ASSUME NEW f \in Names, cleanUpOldIntervals(f)
       PROVE  TypeInv'
  <2>1. ProcessTypeOK'
    BY <1>11, SegmentType, Zenon DEF cleanUpOldIntervals, ProcessTypeOK
  <2>2. DirectoryTypeOK'
    BY <1>11, SegmentType, Zenon DEF cleanUpOldIntervals, DirectoryTypeOK
  <2>3. FlushTypeOK' /\ GenRoom'
    BY <1>11, SameRoom, Zenon DEF cleanUpOldIntervals, FlushTypeOK
  <2> QED BY <2>1, <2>2, <2>3, Zenon
<1>12. CASE FlushDone
  <2>1. ProcessTypeOK'
    BY <1>12, FreshValues DEF FlushDone, ProcessTypeOK, Phases
  <2>2. FlushTypeOK'
    BY <1>12, FreshValues, Zenon DEF FlushDone, FlushTypeOK
  <2>3. GenRoom'
    BY <1>12, Zenon DEF FlushDone, GenRoom, Writing
  <2> QED BY <1>12, <2>1, <2>2, <2>3, SameDirectory, Zenon DEF FlushDone, DirectoryTypeOK
<1> QED BY <1>1, <1>2, <1>3, <1>4, <1>5, <1>6, <1>7, <1>8, <1>9, <1>10, <1>11, <1>12, Zenon

(* Starting, stopping, and the clock. *)
LEMMA ProcessType ==
  ASSUME TypeInv, LoadDB \/ Relaunch \/ Crash \/ ExitOnFlushError \/ Tick \/ HandleInsert
  PROVE  TypeInv'
<1> USE DEF TypeInv, TypeOK
<1>1. CASE OpenDB
  <2>1. [ivs |-> meta.ivs, dims |-> dimFiles[meta.dimGen].vals, dimGen |-> meta.dimGen] \in Table
    BY Zenon DEF DirectoryTypeOK, Metadata, Table, DimFile
  <2>2. [f \in Names |-> IF f \in Files(meta) THEN segs[f] ELSE NoSegment] \in [Names -> Segment]
    BY SegmentType, Zenon DEF DirectoryTypeOK
  <2>3. ProcessTypeOK' /\ FlushTypeOK' /\ GenRoom'
    BY ONLY <1>1, <2>1, <2>2, FreshType, Zenon DEF OpenDB
  <2> QED BY <1>1, <2>3, SameDirectory, Zenon DEF OpenDB, DirectoryTypeOK
<1>2. CASE NewDB
  <2>1. ProcessTypeOK' /\ FlushTypeOK' /\ GenRoom'
    BY <1>2, FreshType, FreshValues, Zenon DEF NewDB
  <2> QED BY <1>2, <2>1, SameDirectory, Zenon DEF NewDB, DirectoryTypeOK
<1>3. CASE LoadDBFatal \/ Relaunch \/ HandleInsert
  BY <1>3, ControlStep, Zenon DEF LoadDBFatal, Relaunch, HandleInsert, ProcessTypeOK, DirectoryTypeOK,
                           Phases, Writing
<1>4. CASE Crash \/ ExitOnFlushError
  <2>1. ProcessTypeOK' /\ FlushTypeOK' /\ GenRoom'
    BY <1>4, FreshType, FreshValues, Zenon DEF Crash, ExitOnFlushError, Exit
  <2>2. DirectoryTypeOK'
    BY <1>4 DEF Crash, ExitOnFlushError, Exit, DirectoryTypeOK
  <2> QED BY <2>1, <2>2, Zenon
<1>5. CASE Tick
  <2>1. DirectoryTypeOK'
    BY <1>5 DEF Tick, DirectoryTypeOK
  <2> QED BY <1>5, <2>1, SameProcess, SameFlush, SameRoom, Zenon DEF Tick, ProcessTypeOK
<1> QED BY <1>1, <1>2, <1>3, <1>4, <1>5, Zenon DEF LoadDB

(* Requests. *)
LEMMA RequestType ==
  ASSUME TypeInv, NEW r \in Readers, HandleRequest(r) \/ Respond(r) \/ Done(r)
  PROVE  TypeInv'
<1> USE DEF TypeInv, TypeOK
<1>1. ProcessTypeOK'
  <2>1. CASE HandleRequest(r)
    BY <2>1, Zenon DEF HandleRequest, ProcessTypeOK
  <2>2. CASE Respond(r)
    BY <2>2, Zenon DEF Respond, ProcessTypeOK
  <2>3. CASE Done(r)
    BY <2>3, FreshValues, Zenon DEF Done, ProcessTypeOK
  <2> QED BY <2>1, <2>2, <2>3, Zenon
<1> QED BY <1>1, SameFlush, SameDirectory, SameRoom, Zenon DEF HandleRequest, Respond, Done, DirectoryTypeOK

LEMMA TypeNext == TypeInv /\ [Next]_vars => TypeInv'
<1> SUFFICES ASSUME TypeInv, [Next]_vars PROVE TypeInv'
  BY Zenon
<1>1. CASE UNCHANGED vars
  BY <1>1, ControlStep, Zenon DEF vars, TypeInv, TypeOK, ProcessTypeOK, DirectoryTypeOK
<1>2. CASE LoadDB \/ Relaunch \/ Crash \/ ExitOnFlushError \/ Tick \/ HandleInsert
  BY <1>2, ProcessType, Zenon
<1>3. CASE InsertStep
  BY <1>3, InsertStepType, Zenon
<1>4. CASE FlushStart \/ FlushStep
  BY <1>4, CombineType, PublishType, Zenon DEF FlushStep
<1>5. ASSUME NEW r \in Readers, HandleRequest(r) \/ Respond(r) \/ Done(r)
      PROVE  TypeInv'
  BY <1>5, RequestType, Zenon
<1> QED BY <1>1, <1>2, <1>3, <1>4, <1>5, Zenon DEF Next

(***************************************************************************)
(* Types are kept by every operation: in particular a dimension index in   *)
(* the memTable always fits the column, and file names stay in bounds.     *)
(***************************************************************************)
THEOREM TypeCorrect == Spec => []TypeOK
<1>1. Spec => []TypeInv
  BY TypeInit, TypeNext, PTL DEF Spec
<1> QED BY <1>1, PTL DEF TypeInv

(* A StaticTable's files: one per interval, at that interval's generation. *)
LEMMA FilesAt ==
  ASSUME NEW tb, NEW t, NEW g
  PROVE  <<t, g>> \in Files(tb) <=> t \in Starts /\ tb.ivs[t] = g /\ g # NoGen
BY Zenon DEF Files, Keys

LEMMA FilesForm ==
  ASSUME NEW tb, NEW f \in Files(tb)
  PROVE  \E t \in Starts : t \in Keys(tb) /\ f = <<t, tb.ivs[t]>>
BY Zenon DEF Files, Keys

LEMMA SameFiles ==
  ASSUME NEW tb, NEW tc, tb.ivs = tc.ivs
  PROVE  Files(tb) = Files(tc) /\ Keys(tb) = Keys(tc)
BY Zenon DEF Files, Keys

LEMMA NoFiles ==
  /\ Files(NewStaticTable) = {} /\ Keys(NewStaticTable) = {}
  /\ Files(NoMetadata) = {}
BY Zenon DEF Files, Keys, NewStaticTable, NoMetadata

LEMMA FilesInNames ==
  ASSUME NEW tb, tb.ivs \in [Starts -> Gens \cup {NoGen}]
  PROVE  Files(tb) \subseteq Names
BY DEF Files, Keys, Names

LEMMA SegmentInit == Init => SegmentInv
BY NoFiles, Zenon
   DEF Init, SegmentInv, PhaseInv, ReaderInv, IntactInv, CombineInv, CleanupInv, MetaInv,
       Combining, Swapped, MetaCurrent

(* Each part of the invariant where a step leaves alone what it is about. *)
LEMMA SameIntact ==
  ASSUME IntactInv, UNCHANGED <<segs, mapped, meta, static>>
  PROVE  IntactInv'
BY Zenon DEF IntactInv, Intact

LEMMA SameMeta ==
  ASSUME MetaInv, UNCHANGED <<meta, static>>, MetaCurrent' => MetaCurrent
  PROVE  MetaInv'
BY Zenon DEF MetaInv

LEMMA SameReaders ==
  ASSUME ReaderInv, UNCHANGED <<readerVars, static, cleanup>>, ins' = "await" <=> ins = "await"
  PROVE  ReaderInv'
BY Zenon DEF ReaderInv

LEMMA SameCombine ==
  ASSUME CombineInv, UNCHANGED <<segs, mapped, static, newTable, staticKeys, queued, open, cleanup>>,
         ins' \in Combining => ins \in Combining
  PROVE  CombineInv'
BY Zenon DEF CombineInv, Intact

LEMMA SameCleanup ==
  ASSUME CleanupInv, UNCHANGED <<mapped, static, staticKeys, cleanup, clock>>, Swapped' => Swapped,
         \A p \in {"partitionMem", "await"} : ins' = p => ins = p
  PROVE  CleanupInv'
BY Zenon DEF CleanupInv, intervalStartOutOfRetention

(* Steps that touch neither a table nor a segment, within a stage of the flush. *)
LEMMA ControlSegments ==
  ASSUME SegmentInv, UNCHANGED <<failed, segs, mapped, meta, static, readerVars, clock>>,
         UNCHANGED <<newTable, staticKeys, queued, open, cleanup>>, MetaCurrent' => MetaCurrent,
         \/ ins' = ins
         \/ {ins, ins'} \subseteq {"idle", "insertRows"}
         \/ ins = "combine" /\ ins' = "storeDims" /\ queued = {} /\ open = {}
         \/ ins = "encodeDims" /\ ins' = "swap"
         \/ ins = "removeDims" /\ ins' = "cleanup"
  PROVE  SegmentInv'
<1>1. PhaseInv'
  BY Zenon DEF SegmentInv, PhaseInv
<1>2. IntactInv' /\ MetaInv'
  BY SameIntact, SameMeta, Zenon DEF SegmentInv
<1>3. ReaderInv'
  BY SameReaders, Zenon DEF SegmentInv
<1>4. CombineInv'
  BY SameCombine, Zenon DEF SegmentInv, Combining
<1>5. CleanupInv'
  BY SameCleanup, Zenon DEF SegmentInv, Swapped
<1> QED BY <1>1, <1>2, <1>3, <1>4, <1>5, Zenon DEF SegmentInv

(* A process that has just loaded a table, or is gone: there is no request,    *)
(* no flush, and the files of the table are those that were mapped.            *)
LEMMA FreshSegments ==
  ASSUME NEW tb, NEW maps, Fresh(tb, maps), UNCHANGED <<segs, meta>>,
         SegmentInv,
         \A f \in Files(tb) : maps[f].st = "whole" /\ segs[f].st = "whole",
         proc' = "up" => tb.ivs = meta.ivs
  PROVE  SegmentInv'
<1>1. PhaseInv'
  BY Zenon DEF Fresh, PhaseInv
<1>2. ReaderInv'
  BY Zenon DEF Fresh, ReaderInv
<1>3. IntactInv'
  BY Zenon DEF Fresh, IntactInv, SegmentInv, Intact
<1>4. CombineInv' /\ CleanupInv'
  BY Zenon DEF Fresh, CombineInv, CleanupInv, Combining, Swapped
<1>5. MetaInv'
  BY Zenon DEF Fresh, MetaInv, SegmentInv, MetaCurrent
<1> QED BY <1>1, <1>2, <1>3, <1>4, <1>5, Zenon DEF SegmentInv

(* The name an interval is written to belongs to no table. *)
LEMMA NewName ==
  ASSUME TypeInv, SegmentInv, proc = "up", ins = "combine", NEW t \in queued \cup open
  PROVE  /\ <<t, newGeneration(t)>> \in Names
         /\ <<t, newGeneration(t)>> \notin Files(static) \cup Files(meta) \cup Files(newTable) \cup cleanup
<1>1. t \in Starts /\ static.ivs[t] \in Gens \cup {NoGen} /\ static.ivs[t] < MaxGen
  BY Zenon DEF TypeInv, TypeOK, ProcessTypeOK, FlushTypeOK, GenRoom, Writing, Table
<1>2. newGeneration(t) \in Gens /\ newGeneration(t) # NoGen
  BY <1>1, ConstantsAssumption DEF newGeneration, Gens, NoGen
<1>3. newTable.ivs[t] = NoGen /\ (t \in Keys(static) => t \in staticKeys)
  BY Zenon DEF SegmentInv, CombineInv, Combining
<1>4. newGeneration(t) # static.ivs[t]
  <2>1. CASE t \in staticKeys
    BY <1>1, <2>1, ConstantsAssumption DEF newGeneration, Gens, NoGen
  <2>2. CASE t \notin staticKeys
    BY <1>1, <1>2, <1>3, <2>2, Zenon DEF Keys
  <2> QED BY <2>1, <2>2, Zenon
<1>5. <<t, newGeneration(t)>> \notin Files(static) \cup Files(newTable)
  BY <1>2, <1>3, <1>4, FilesAt, Zenon
<1>6. Files(meta) = Files(static) /\ cleanup \subseteq Files(static)
  <2>1. meta.ivs = static.ivs
    BY Zenon DEF SegmentInv, MetaInv, MetaCurrent, PhaseInv
  <2> QED BY <2>1, SameFiles, Zenon DEF SegmentInv, CombineInv, Combining
<1> QED BY <1>1, <1>2, <1>5, <1>6, Zenon DEF Names

(* Opening a segment file tears no file in use. *)
LEMMA OpenSegmentInv ==
  ASSUME TypeInv, SegmentInv, NEW t \in Starts, OpenSegment(t)
  PROVE  SegmentInv'
<1> DEFINE g == <<t, newGeneration(t)>>
<1>1. g \in Names /\ g \notin Files(static) \cup Files(meta) \cup Files(newTable) \cup cleanup
  BY NewName, Zenon DEF OpenSegment
<1>2. \A f \in Names \ {g} : segs'[f] = segs[f] /\ mapped'[f] = mapped[f]
  BY Zenon DEF OpenSegment, TypeInv, TypeOK, ProcessTypeOK, DirectoryTypeOK
<1>3. Files(static) \subseteq Names /\ Files(meta) \subseteq Names /\ Files(newTable) \subseteq Names
  BY FilesInNames, Zenon DEF TypeInv, TypeOK, ProcessTypeOK, FlushTypeOK, DirectoryTypeOK, Table, Metadata
<1> HIDE DEF g
<1>4. IntactInv'
  BY <1>1, <1>2, <1>3, Zenon DEF OpenSegment, SegmentInv, IntactInv, Intact
<1>5. CombineInv'
  BY <1>1, <1>2, <1>3, Zenon DEF OpenSegment, SegmentInv, CombineInv, Intact
<1>6. PhaseInv' /\ ReaderInv' /\ MetaInv'
  BY Zenon DEF OpenSegment, SegmentInv, PhaseInv, ReaderInv, MetaInv, MetaCurrent
<1>7. CleanupInv'
  BY Zenon DEF OpenSegment, CleanupInv, Swapped
<1> QED BY <1>4, <1>5, <1>6, <1>7, Zenon DEF SegmentInv

(* A frozen interval joins the new table intact. *)
LEMMA FreezeIntervalInv ==
  ASSUME TypeInv, SegmentInv, NEW t \in Starts, FreezeInterval(t)
  PROVE  SegmentInv'
<1> DEFINE g == <<t, newGeneration(t)>>
<1>1. g \in Names /\ g \notin Files(static) \cup Files(meta) \cup Files(newTable) \cup cleanup
  BY NewName, Zenon DEF FreezeInterval
<1>2. /\ \A f \in Names \ {g} : segs'[f] = segs[f] /\ mapped'[f] = mapped[f]
      /\ segs'[g].st = "whole" /\ mapped'[g].st = "whole"
  BY <1>1, Zenon DEF FreezeInterval, TypeInv, TypeOK, ProcessTypeOK, DirectoryTypeOK
<1>3. Files(static) \subseteq Names /\ Files(meta) \subseteq Names /\ Files(newTable) \subseteq Names
  BY FilesInNames, Zenon DEF TypeInv, TypeOK, ProcessTypeOK, FlushTypeOK, DirectoryTypeOK, Table, Metadata
<1>4. /\ newTable.ivs[t] = NoGen /\ newTable'.ivs[t] = newGeneration(t)
      /\ \A u \in Starts \ {t} : newTable'.ivs[u] = newTable.ivs[u]
  BY Zenon DEF FreezeInterval, SegmentInv, CombineInv, Combining, TypeInv, TypeOK, FlushTypeOK, Table
<1>5. Files(newTable') = Files(newTable) \cup {g}
  <2>1. newGeneration(t) # NoGen
    BY <1>1 DEF Names, Gens, NoGen
  <2> QED BY <1>4, <2>1, Zenon DEF Files, Keys
<1> HIDE DEF g
<1>6. IntactInv'
  BY <1>1, <1>2, <1>3, Zenon DEF FreezeInterval, SegmentInv, IntactInv, Intact
<1>7. CombineInv'
  <2> SUFFICES ASSUME ins = "combine", ins' = "combine" PROVE CombineInv'
    BY Zenon DEF FreezeInterval
  <2>1. \A u \in queued' \cup open' :
          newTable'.ivs[u] = NoGen /\ (u \in Keys(static') => u \in staticKeys')
    <3>1. t \notin queued' \cup open'
      BY Zenon DEF FreezeInterval, SegmentInv, PhaseInv
    <3> QED BY <1>4, <3>1, Zenon
            DEF FreezeInterval, SegmentInv, CombineInv, Combining, TypeInv, TypeOK, FlushTypeOK
  <2>2. /\ cleanup' \subseteq Files(static') /\ cleanup' \cap Files(newTable') = {}
        /\ Files(static') \subseteq Files(newTable') \cup cleanup'
    BY <1>1, <1>5, Zenon DEF FreezeInterval, SegmentInv, CombineInv, Combining
  <2>3. \A f \in Files(newTable') : Intact(f)'
    BY <1>1, <1>2, <1>3, <1>5, Zenon DEF FreezeInterval, SegmentInv, CombineInv, Combining, Intact
  <2> QED BY <2>1, <2>2, <2>3, Zenon DEF CombineInv
<1>8. PhaseInv' /\ ReaderInv' /\ MetaInv'
  BY Zenon DEF FreezeInterval, SegmentInv, PhaseInv, ReaderInv, MetaInv, MetaCurrent
<1>9. CleanupInv'
  BY Zenon DEF FreezeInterval, CleanupInv, Swapped
<1> QED BY <1>6, <1>7, <1>8, <1>9, Zenon DEF SegmentInv

(* What the flush does not take over from the old table is to be cleaned up. *)
LEMMA PartitionMemInv ==
  ASSUME TypeInv, SegmentInv, PartitionMem
  PROVE  SegmentInv'
<1>1. staticKeys \subseteq Keys(static)
  BY Zenon DEF PartitionMem, TypeInv, GenRoom, Writing
<1>2. \A t \in Starts : newTable'.ivs[t] = IF t \in staticKeys \ memKeys' THEN static.ivs[t] ELSE NoGen
  BY Zenon DEF PartitionMem, NewStaticTable
<1>3. \A t \in memKeys' \cap Keys(static) : t \in staticKeys
  BY Zenon DEF PartitionMem, SegmentInv, CleanupInv
<1>4. /\ Files(newTable') = {<<t, static.ivs[t]>> : t \in staticKeys \ memKeys'}
      /\ cleanup' = {<<t, static.ivs[t]>> : t \in (Keys(static) \ staticKeys)
                                                  \cup (staticKeys \cap memKeys')}
      /\ Files(static) = {<<t, static.ivs[t]>> : t \in Keys(static)}
  <2>1. Keys(newTable') = staticKeys \ memKeys'
    BY <1>1, <1>2, Zenon DEF Keys
  <2>2. \A t \in Keys(newTable') : newTable'.ivs[t] = static.ivs[t]
    BY <1>2, <2>1, Zenon DEF Keys
  <2> QED BY <2>1, <2>2, Zenon DEF Files, PartitionMem
<1>5. cleanup' \subseteq Files(static) /\ Files(newTable') \subseteq Files(static)
  BY <1>1, <1>4, Zenon
<1>6. cleanup' \cap Files(newTable') = {} /\ Files(static) \subseteq Files(newTable') \cup cleanup'
  BY <1>1, <1>4
<1>7. \A t \in queued' \cup open' :
        newTable'.ivs[t] = NoGen /\ (t \in Keys(static) => t \in staticKeys)
  BY <1>2, <1>3, Zenon DEF PartitionMem, SegmentInv, PhaseInv, MemIntervals
<1>8. CombineInv'
  BY <1>5, <1>6, <1>7, Zenon DEF PartitionMem, SegmentInv, IntactInv, CombineInv, Intact
<1>9. PhaseInv' /\ ReaderInv' /\ IntactInv' /\ MetaInv'
  BY Zenon DEF PartitionMem, SegmentInv, PhaseInv, ReaderInv, IntactInv, Intact, MetaInv, MetaCurrent
<1>10. CleanupInv'
  BY Zenon DEF PartitionMem, CleanupInv, Swapped
<1> QED BY <1>8, <1>9, <1>10, Zenon DEF SegmentInv

(* The swap: requests on the old table are those flush will wait for. *)
LEMMA SwapTableInv ==
  ASSUME SegmentInv, SwapTable
  PROVE  SegmentInv'
<1>1. PhaseInv'
  BY Zenon DEF SwapTable, SegmentInv, PhaseInv
<1>2. ReaderInv'
  BY Zenon DEF SwapTable, SegmentInv, ReaderInv, CombineInv, Combining
<1>3. IntactInv'
  BY Zenon DEF SwapTable, SegmentInv, IntactInv, CombineInv, Combining, Intact
<1>4. CombineInv'
  BY Zenon DEF SwapTable, CombineInv, Combining
<1>5. CleanupInv'
  BY Zenon DEF SwapTable, SegmentInv, CleanupInv, CombineInv, IntactInv, Combining, Intact, Swapped
<1>6. MetaInv'
  BY Zenon DEF SwapTable, SegmentInv, MetaInv, MetaCurrent
<1> QED BY <1>1, <1>2, <1>3, <1>4, <1>5, <1>6, Zenon DEF SegmentInv

(* Deleting an interval that neither the table nor db.json has. *)
LEMMA CleanUpInv ==
  ASSUME TypeInv, SegmentInv, NEW g \in Names, cleanUpOldIntervals(g)
  PROVE  SegmentInv'
<1>1. Files(meta) = Files(static)
  <2>1. meta.ivs = static.ivs
    BY Zenon DEF cleanUpOldIntervals, SegmentInv, MetaInv, MetaCurrent, PhaseInv
  <2> QED BY <2>1, SameFiles, Zenon
<1>2. g \notin Files(static)
  BY Zenon DEF cleanUpOldIntervals, SegmentInv, CleanupInv, Swapped
<1>3. \A f \in Names \ {g} : segs'[f] = segs[f] /\ mapped'[f] = mapped[f]
  BY Zenon DEF cleanUpOldIntervals, TypeInv, TypeOK, ProcessTypeOK, DirectoryTypeOK
<1>4. Files(static) \subseteq Names
  BY FilesInNames, Zenon DEF TypeInv, TypeOK, ProcessTypeOK, Table
<1>5. IntactInv'
  BY <1>1, <1>2, <1>3, <1>4, Zenon DEF cleanUpOldIntervals, SegmentInv, IntactInv, Intact
<1>6. PhaseInv' /\ ReaderInv' /\ MetaInv'
  BY Zenon DEF cleanUpOldIntervals, SegmentInv, PhaseInv, ReaderInv, MetaInv, MetaCurrent
<1>7. CombineInv' /\ CleanupInv'
  BY Zenon DEF cleanUpOldIntervals, SegmentInv, CombineInv, Combining, CleanupInv, Swapped
<1> QED BY <1>5, <1>6, <1>7, Zenon DEF SegmentInv

(* flush() returning an error. *)
LEMMA FlushFailsInv ==
  ASSUME SegmentInv, FlushFails, UNCHANGED <<segs, meta>>, ins # "await"
  PROVE  SegmentInv'
<1>1. PhaseInv' /\ ReaderInv'
  BY Zenon DEF FlushFails, SegmentInv, PhaseInv, ReaderInv
<1>2. IntactInv'
  BY Zenon DEF FlushFails, SegmentInv, IntactInv, Intact
<1>3. CombineInv' /\ CleanupInv'
  BY Zenon DEF FlushFails, CombineInv, CleanupInv, Combining, Swapped
<1>4. MetaInv'
  BY Zenon DEF FlushFails, SegmentInv, MetaInv, MetaCurrent
<1> QED BY <1>1, <1>2, <1>3, <1>4, Zenon DEF SegmentInv

(* SegmentInv is inductive, given the types. *)
LEMMA SegmentNext == TypeInv /\ SegmentInv /\ [Next]_vars => SegmentInv'
<1> SUFFICES ASSUME TypeInv, SegmentInv, [Next]_vars PROVE SegmentInv'
  BY Zenon
<1>1. CASE OpenDB
  <2> DEFINE tb == [ivs |-> meta.ivs, dims |-> dimFiles[meta.dimGen].vals, dimGen |-> meta.dimGen]
             maps == [f \in Names |-> IF f \in Files(meta) THEN segs[f] ELSE NoSegment]
  <2>1. Files(tb) = Files(meta) /\ tb.ivs = meta.ivs
    BY Zenon DEF Files, Keys
  <2>2. \A f \in Files(meta) : maps[f].st = "whole" /\ segs[f].st = "whole"
    <3>1. Files(meta) \subseteq Names
      BY FilesInNames, Zenon DEF TypeInv, TypeOK, DirectoryTypeOK, Metadata
    <3> QED BY <3>1, Zenon DEF SegmentInv, IntactInv
  <2>3. Fresh(tb, maps) /\ UNCHANGED <<segs, meta>>
    BY <1>1, Zenon DEF OpenDB
  <2> HIDE DEF tb, maps
  <2> QED BY <2>1, <2>2, <2>3, FreshSegments, Zenon
<1>2. CASE NewDB
  BY <1>2, FreshSegments, NoFiles DEF NewDB, SegmentInv, MetaInv, NoMetadata
<1>3. CASE Crash \/ ExitOnFlushError
  BY <1>3, FreshSegments, NoFiles, Zenon DEF Crash, ExitOnFlushError, Exit
<1>4. CASE LoadDBFatal \/ Relaunch \/ UNCHANGED vars
  <2>1. UNCHANGED <<ins, failed, segs, mapped, meta, static, readerVars, clock>>
    BY <1>4, Zenon DEF LoadDBFatal, Relaunch, vars
  <2>2. UNCHANGED <<newTable, staticKeys, queued, open, cleanup>> /\ (MetaCurrent' => MetaCurrent)
    BY <1>4 DEF LoadDBFatal, Relaunch, vars, MetaCurrent
  <2> QED BY <2>1, <2>2, ControlSegments, Zenon
<1>5. CASE Tick
  <2>1. CleanupInv'
    <3>1. \A t \in Starts : intervalStartOutOfRetention(t) => intervalStartOutOfRetention(t)'
      BY <1>5, ConstantsAssumption
         DEF Tick, intervalStartOutOfRetention, TypeInv, TypeOK, DirectoryTypeOK
    <3>2. Keys(static) \subseteq Starts
      BY Zenon DEF Keys
    <3> QED BY <1>5, <3>1, <3>2, Zenon DEF Tick, SegmentInv, CleanupInv, Swapped
  <2>2. IntactInv' /\ MetaInv' /\ ReaderInv'
    BY <1>5, SameIntact, SameMeta, SameReaders, Zenon DEF Tick, SegmentInv, MetaCurrent
  <2>3. CombineInv' /\ PhaseInv'
    BY <1>5, SameCombine, Zenon DEF Tick, SegmentInv, PhaseInv
  <2> QED BY <2>1, <2>2, <2>3, Zenon DEF SegmentInv
<1>6. CASE HandleInsert \/ InsertDone
  <2>1. UNCHANGED <<failed, segs, mapped, meta, static, readerVars, clock>>
    BY <1>6, Zenon DEF HandleInsert, InsertDone
  <2>2. UNCHANGED <<newTable, staticKeys, queued, open, cleanup>> /\ (MetaCurrent' => MetaCurrent)
    BY <1>6 DEF HandleInsert, InsertDone, MetaCurrent
  <2>3. {ins, ins'} \subseteq {"idle", "insertRows"}
    BY <1>6, Zenon DEF HandleInsert, InsertDone
  <2> QED BY <2>1, <2>2, <2>3, ControlSegments, Zenon
<1>7. ASSUME NEW t \in Starts, NEW s \in Strings, StoreRow(t, s) \/ DropRow(t, s) PROVE SegmentInv'
  <2>1. UNCHANGED <<ins, failed, segs, mapped, meta, static, readerVars, clock>>
    BY <1>7, Zenon DEF StoreRow, DropRow
  <2>2. UNCHANGED <<newTable, staticKeys, queued, open, cleanup>> /\ (MetaCurrent' => MetaCurrent)
    BY <1>7 DEF StoreRow, DropRow, MetaCurrent
  <2> QED BY <2>1, <2>2, ControlSegments, Zenon
<1>8. ASSUME NEW s \in Strings, RejectRow(s) PROVE SegmentInv'
  BY <1>8, ControlSegments, Zenon DEF RejectRow, MetaCurrent
<1>9. CASE FlushStart
  <2>1. CleanupInv'
    BY <1>9, Zenon DEF FlushStart, CleanupInv, Swapped, Keys, intervalStartOutOfRetention
  <2>2. IntactInv' /\ MetaInv' /\ ReaderInv'
    BY <1>9, SameIntact, SameMeta, SameReaders, Zenon DEF FlushStart, SegmentInv, MetaCurrent
  <2>3. CombineInv' /\ PhaseInv'
    BY <1>9, Zenon DEF FlushStart, SegmentInv, PhaseInv, CombineInv, Combining
  <2> QED BY <2>1, <2>2, <2>3, Zenon DEF SegmentInv
<1>10. CASE PartitionMem
  BY <1>10, PartitionMemInv, Zenon
<1>11. ASSUME NEW t \in Starts, OpenSegment(t) \/ FreezeInterval(t) PROVE SegmentInv'
  BY <1>11, OpenSegmentInv, FreezeIntervalInv, Zenon
<1>12. ASSUME NEW t \in Starts, WriteIntervalFails(t) PROVE SegmentInv'
  <2>1. IntactInv' /\ MetaInv' /\ ReaderInv'
    BY <1>12, SameIntact, SameMeta, SameReaders, Zenon DEF WriteIntervalFails, SegmentInv, MetaCurrent
  <2>2. CombineInv'
    BY <1>12, Zenon DEF WriteIntervalFails, SegmentInv, CombineInv, Intact
  <2>3. CleanupInv'
    BY <1>12, SameCleanup, Zenon DEF WriteIntervalFails, SegmentInv, Swapped
  <2>4. PhaseInv'
    BY <1>12, Zenon DEF WriteIntervalFails, SegmentInv, PhaseInv
  <2> QED BY <2>1, <2>2, <2>3, <2>4, Zenon DEF SegmentInv
<1>13. CASE CombineFails \/ StoreFails \/ WriteMetadataFails
  BY <1>13, FlushFailsInv, Zenon DEF CombineFails, StoreFails, WriteMetadataFails
<1>14. CASE CombineDone
  BY <1>14, ControlSegments, Zenon DEF CombineDone, MetaCurrent
<1>15. CASE ReuseDims \/ OpenDimFile
  <2>1. newTable'.ivs = newTable.ivs
    BY <1>15, Zenon DEF ReuseDims, OpenDimFile, TypeInv, TypeOK, FlushTypeOK, Table
  <2>2. Files(newTable') = Files(newTable)
    BY <2>1, SameFiles, Zenon
  <2>3. CombineInv'
    BY <1>15, <2>1, <2>2, Zenon DEF ReuseDims, OpenDimFile, SegmentInv, CombineInv, Combining, Intact
  <2>4. IntactInv' /\ MetaInv' /\ ReaderInv'
    BY <1>15, SameIntact, SameMeta, SameReaders DEF ReuseDims, OpenDimFile, SegmentInv, MetaCurrent
  <2>5. CleanupInv' /\ PhaseInv'
    BY <1>15 DEF ReuseDims, OpenDimFile, SegmentInv, PhaseInv, CleanupInv, Swapped
  <2> QED BY <2>3, <2>4, <2>5, Zenon DEF SegmentInv
<1>16. CASE EncodeDims \/ DimCloseFails \/ RemoveOldDims
  <2>1. UNCHANGED <<failed, segs, mapped, meta, static, readerVars, clock>>
    BY <1>16, Zenon DEF EncodeDims, DimCloseFails, RemoveOldDims
  <2>2. UNCHANGED <<newTable, staticKeys, queued, open, cleanup>> /\ (MetaCurrent' => MetaCurrent)
    BY <1>16 DEF EncodeDims, DimCloseFails, RemoveOldDims, MetaCurrent
  <2>3. (ins = "encodeDims" /\ ins' = "swap") \/ (ins = "removeDims" /\ ins' = "cleanup")
    BY <1>16, Zenon DEF EncodeDims, DimCloseFails, RemoveOldDims
  <2> QED BY <2>1, <2>2, <2>3, ControlSegments, Zenon
<1>17. CASE SwapTable
  BY <1>17, SwapTableInv, Zenon
<1>18. CASE RequestsFinished
  <2>1. IntactInv' /\ MetaInv'
    BY <1>18, SameIntact, SameMeta, Zenon DEF RequestsFinished, SegmentInv, MetaCurrent
  <2>2. ReaderInv'
    BY <1>18, Zenon DEF RequestsFinished, allRequestsFinished, SegmentInv, ReaderInv
  <2>3. CombineInv' /\ PhaseInv'
    BY <1>18, Zenon DEF RequestsFinished, SegmentInv, PhaseInv, CombineInv, Combining
  <2>4. CleanupInv'
    BY <1>18, Zenon DEF RequestsFinished, SegmentInv, CleanupInv, Swapped
  <2> QED BY <2>1, <2>2, <2>3, <2>4, Zenon DEF SegmentInv
<1>19. CASE writeMetadataFile
  <2>1. meta'.ivs = static.ivs /\ meta'.exists
    BY <1>19, Zenon DEF writeMetadataFile
  <2>2. Files(meta') = Files(static)
    BY <2>1, SameFiles, Zenon
  <2>3. IntactInv' /\ MetaInv'
    BY <1>19, <2>1, <2>2, Zenon DEF writeMetadataFile, SegmentInv, IntactInv, Intact, MetaInv
  <2>4. ReaderInv' /\ CombineInv' /\ PhaseInv'
    BY <1>19, SameReaders, Zenon DEF writeMetadataFile, SegmentInv, PhaseInv, CombineInv, Combining
  <2>5. CleanupInv'
    BY <1>19, Zenon DEF writeMetadataFile, SegmentInv, CleanupInv, Swapped
  <2> QED BY <2>3, <2>4, <2>5, Zenon DEF SegmentInv
<1>20. ASSUME NEW f \in Names, cleanUpOldIntervals(f) PROVE SegmentInv'
  BY <1>20, CleanUpInv, Zenon
<1>21. CASE FlushDone
  <2>1. IntactInv' /\ MetaInv' /\ ReaderInv'
    BY <1>21, SameIntact, SameMeta, SameReaders, Zenon DEF FlushDone, SegmentInv, MetaCurrent
  <2>2. CombineInv' /\ CleanupInv'
    BY <1>21, Zenon DEF FlushDone, CombineInv, Combining, CleanupInv, Swapped
  <2>3. PhaseInv'
    BY <1>21, Zenon DEF FlushDone, SegmentInv, PhaseInv
  <2> QED BY <2>1, <2>2, <2>3, Zenon DEF SegmentInv
<1>22. ASSUME NEW r \in Readers, HandleRequest(r) \/ Respond(r) \/ Done(r) PROVE SegmentInv'
  <2>1. ReaderInv'
    <3>1. CASE HandleRequest(r)
      BY <3>1, Zenon DEF HandleRequest, SegmentInv, ReaderInv, TypeInv, TypeOK, ProcessTypeOK
    <3>2. CASE Respond(r) \/ Done(r)
      BY <3>2, Zenon DEF Respond, Done, SegmentInv, ReaderInv, TypeInv, TypeOK, ProcessTypeOK
    <3> QED BY <1>22, <3>1, <3>2, Zenon
  <2>2. UNCHANGED <<procVars, segs, mapped, meta, static, clock>>
    BY <1>22, Zenon DEF HandleRequest, Respond, Done
  <2>3. UNCHANGED <<newTable, staticKeys, queued, open, cleanup>>
    BY <1>22, Zenon DEF HandleRequest, Respond, Done
  <2>4. IntactInv' /\ MetaInv' /\ PhaseInv'
    BY <2>2, <2>3, SameIntact, SameMeta, Zenon DEF SegmentInv, PhaseInv, MetaCurrent
  <2>5. CombineInv' /\ CleanupInv'
    BY <2>2, <2>3, SameCombine, SameCleanup, Zenon DEF SegmentInv, Swapped
  <2> QED BY <2>1, <2>4, <2>5, Zenon DEF SegmentInv
<1> QED
  BY <1>1, <1>2, <1>3, <1>4, <1>5, <1>6, <1>7, <1>8, <1>9, <1>10, <1>11, <1>12, <1>13, <1>14, Zenon,
     <1>15, <1>16, <1>17, <1>18, <1>19, <1>20, <1>21, <1>22
     DEF Next, LoadDB, InsertStep, FlushStep

(***************************************************************************)
(* flush writes and deletes only files that neither the StaticTable nor    *)
(* db.json has, so the files of both are intact at every one of its steps. *)
(***************************************************************************)
THEOREM SegmentsKept == Spec => [](TypeInv /\ SegmentInv)
BY TypeInit, TypeNext, SegmentInit, SegmentNext, PTL DEF Spec

(***************************************************************************)
(* A client that holds a Response never meets a segment that was unmapped  *)
(* or truncated, for any number of clients, intervals, crashes and errors. *)
(***************************************************************************)
THEOREM SnapshotsIntact == Spec => []SnapshotIntact
<1>1. SegmentInv => SnapshotIntact
  BY Zenon DEF SegmentInv, ReaderInv, IntactInv, CleanupInv, Intact, SnapshotIntact
<1> QED BY <1>1, SegmentsKept, PTL

(***************************************************************************)
(* Outside flush's wait there are no requests on a replaced StaticTable.   *)
(***************************************************************************)
THEOREM OldTablesRetired == Spec => []OldTableRetired
<1>1. SegmentInv => OldTableRetired
  BY Zenon DEF SegmentInv, ReaderInv, OldTableRetired
<1> QED BY <1>1, SegmentsKept, PTL
=============================================================================
