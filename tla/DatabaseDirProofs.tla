------------------------- MODULE DatabaseDirProofs -------------------------
(***************************************************************************)
(* The database directory that servers and gumtool clean share, for any    *)
(* number of processes, batches and generations.  SharedInv holds whatever *)
(* happens; UnracedInv as long as nobody raced; SequentialInv when no      *)
(* process or clean starts before the others have ended.                   *)
(***************************************************************************)
EXTENDS DatabaseDir, TLAPS

Active(p) == phase[p] \notin {"off", "fatal"}
Reading(p) == phase[p] \in {"reading", "loaded"}
Flushing(p) == phase[p] \in {"dims", "metadata", "remove", "cleanup"}
Holding(p) == phase[p] = "up" \/ Flushing(p)

(* The generations: a dimension table has one from the start, and a flush   *)
(* that has begun to write has room for the next.  A memTable has only rows *)
(* that were accepted.                                                      *)
GenInv ==
  /\ meta.gen["dimension"] >= 0
  /\ \A p \in Process :
       /\ table[p].gen["dimension"] >= 0 /\ mem[p] \subseteq inserted
       /\ Flushing(p) => \A k \in Kind : NextGen(p, k) <= MaxGen

(* A server that inserts and flushes has the flock, and no other process.   *)
LockInv == \A p \in Process : Holding(p) <=> lock = p

(* No file has a generation that means "no file", and db.json stays.        *)
NameInv ==
  /\ \A k \in Kind : \A g \in Gens :
       IF file[k][g].exists THEN HasFile(k, g) ELSE file[k][g].rows = {}
  /\ ~meta.exists => meta.gen = NoTable.gen
  /\ ~Fresh => meta.exists

SharedInv == TypeOK /\ GenInv /\ LockInv /\ NameInv

(* While nobody raced: db.json names files that are there and hold what was *)
(* flushed.                                                                 *)
NamedInv ==
  /\ DurableKept
  /\ \A k \in Kind : Expected(meta, k) \subseteq Existing(k)

(* What the files of a kind that db.json names hold.                        *)
Named(k) == file[k][meta.gen[k]].rows

(* A process that has not locked yet has read this db.json or an older one, *)
(* and what it loaded is what the files hold as long as db.json is the      *)
(* same.                                                                    *)
ReaderOf(p) ==
  /\ \A k \in Kind : table[p].gen[k] <= meta.gen[k]
  /\ phase[p] = "loaded" /\ table[p].gen = meta.gen => \A k \in Kind : table[p].rows[k] = Named(k)

ReaderInv == \A p \in Process : Reading(p) => ReaderOf(p)

(* The file that a flush writes, unless the old one is used again.          *)
Complete(p, k) == Changed(p, k) => file[k][NextGen(p, k)] = File(NewRows(p, k))

(* The table of the process that has the flock is the one db.json names,    *)
(* until it writes db.json; the files it writes are complete before.        *)
HolderOf(p) ==
  /\ clean.at = "idle"
  /\ IF phase[p] \in {"remove", "cleanup"}
     THEN meta.gen = [k \in Kind |-> NextGen(p, k)] /\ \A k \in Kind : Named(k) = NewRows(p, k)
     ELSE meta.gen = table[p].gen /\ \A k \in Kind : Named(k) = table[p].rows[k]
  /\ phase[p] \in {"dims", "metadata"} => Complete(p, "interval")
  /\ phase[p] = "metadata" => Complete(p, "dimension")

HolderInv == \A p \in Process : Holding(p) => HolderOf(p)

(* Exactly the files of a kind that db.json names are left.                 *)
Tidy(k) == Existing(k) = Expected(meta, k)

CleanInv ==
  clean.at # "idle" =>
    /\ clean.gen = meta.gen
    /\ clean.at \in {"ask", "remove"} =>
         clean.extra = Existing(clean.kind) \ Expected(meta, clean.kind)
    /\ clean.kind = "interval" /\ ~clean.declined => Tidy("dimension")
    /\ clean.at = "done" => clean.kind = "interval" /\ (~clean.declined => Tidy("interval"))
    /\ clean.at = "fatal" => ~meta.exists

UnracedInv == NamedInv /\ ReaderInv /\ HolderInv /\ CleanInv

(* One after the other: no process gets in another's way.                   *)
SequentialInv ==
  /\ ~raced
  /\ \A p \in Process : Active(p) => clean.at = "idle" /\ \A q \in Process : Active(q) => q = p
  /\ \A p \in Process : Reading(p) => table[p].gen = meta.gen
  /\ \A p \in Process : phase[p] = "missing" => ~meta.exists
  /\ ~Fresh => LaunchSucceeds

DirInv == SharedInv /\ (raced \/ UnracedInv) /\ (Overlap \/ SequentialInv)

TableType == [gen: [Kind -> Gens], rows: [Kind -> SUBSET Batch]]
FileType == [exists: BOOLEAN, rows: SUBSET Batch]

(* What the sets of types say, in the form the provers use.                 *)
LEMMA DirTypes ==
  ASSUME DirAssumption
  PROVE  /\ NoTable.gen \in [Kind -> Gens]
         /\ NoTable.gen["dimension"] = 0 /\ NoTable.gen["interval"] = -1
         /\ NoTable \in TableType
         /\ NoMeta \in [exists: BOOLEAN, gen: [Kind -> Gens]]
         /\ NoFile \in FileType
         /\ \A rows \in SUBSET Batch : File(rows) \in FileType
BY DEF DirAssumption, Kind, Gens, NoTable, NoMeta, NoFile, File, TableType, FileType

LEMMA KindType == Kind = {"dimension", "interval"}
BY Zenon DEF Kind

(* Writing and removing files.                                              *)
LEMMA FileWritten ==
  ASSUME NEW f \in [Kind -> [Gens -> FileType]], NEW k \in Kind, NEW g \in Gens,
         NEW x \in FileType
  PROVE  /\ [f EXCEPT ![k][g] = x] \in [Kind -> [Gens -> FileType]]
         /\ \A l \in Kind : \A h \in Gens :
              [f EXCEPT ![k][g] = x][l][h] = IF l = k /\ h = g THEN x ELSE f[l][h]
BY Zenon

(* Loading the rows of a table leaves its generations.                      *)
LEMMA RowsLoaded ==
  ASSUME NEW tb \in [Process -> TableType], NEW p \in Process, NEW rows \in [Kind -> SUBSET Batch]
  PROVE  /\ [tb EXCEPT ![p].rows = rows] \in [Process -> TableType]
         /\ \A q \in Process : [tb EXCEPT ![p].rows = rows][q].gen = tb[q].gen
BY Zenon DEF TableType

LEMMA DirInitShared ==
  ASSUME DirAssumption, Init
  PROVE  SharedInv
<1> USE DirTypes
<1>1. TypeOK
  <2>1. meta \in [exists: BOOLEAN, gen: [Kind -> Gens]]
    BY Zenon DEF Init, NoMeta
  <2>2. file \in [Kind -> [Gens -> [exists: BOOLEAN, rows: SUBSET Batch]]]
    BY Zenon DEF Init, FileType
  <2>3. clean \in [at: {"idle", "glob", "ask", "remove", "done", "fatal"}, gen: [Kind -> Gens],
                  kind: Kind, extra: SUBSET Gens, declined: BOOLEAN]
    BY KindType, Zenon DEF Init, Idle
  <2>4. table \in [Process -> [gen: [Kind -> Gens], rows: [Kind -> SUBSET Batch]]]
    BY Zenon DEF Init, TableType
  <2>5. phase \in [Process -> {"off", "missing", "reading", "loaded", "up", "dims", "metadata", "remove",
                            "cleanup", "fatal"}]
    BY Zenon DEF Init
  <2>6. mem \in [Process -> SUBSET Batch] /\ lock \in Process \cup {Nobody}
    BY Zenon DEF Init
  <2>7. cleans \in 0 .. MaxCleans /\ durable \subseteq inserted /\ inserted \subseteq Batch
    BY DEF Init, DirAssumption
  <2>8. raced \in BOOLEAN
    BY Zenon DEF Init
  <2> QED BY <2>1, <2>2, <2>3, <2>4, <2>5, <2>6, <2>7, <2>8, Zenon DEF TypeOK
<1>2. GenInv /\ LockInv
  BY DEF Init, GenInv, LockInv, Holding, Flushing, NoMeta, DirAssumption
<1>3. NameInv
  BY Zenon DEF Init, NameInv, NoMeta, NoFile
<1> QED BY <1>1, <1>2, <1>3, Zenon DEF SharedInv

LEMMA DirInitInv ==
  ASSUME DirAssumption, Init
  PROVE  DirInv
<1> USE DirTypes, KindType
<1>1. SharedInv
  BY DirInitShared, Zenon
<1>2. NamedInv
  BY DEF Init, NamedInv, NoMeta, Expected, Existing, HasFile, DurableKept
<1>3. ReaderInv /\ HolderInv /\ CleanInv
  BY Zenon DEF Init, ReaderInv, HolderInv, CleanInv, Reading, Holding, Flushing, Idle
<1>4. SequentialInv
  BY Zenon DEF Init, SequentialInv, Active, Reading, LaunchSucceeds
<1> QED BY <1>1, <1>2, <1>3, <1>4, Zenon DEF DirInv, UnracedInv

USE DEF diskVars, procVars, cleanVars

PhaseType == {"off", "missing", "reading", "loaded", "up", "dims", "metadata", "remove", "cleanup", "fatal"}

(* The types of what a process changes.                                     *)
LEMMA ProcessTypes ==
  ASSUME TypeOK, NEW p \in Process
  PROVE  /\ table \in [Process -> TableType] /\ file \in [Kind -> [Gens -> FileType]]
         /\ table[p].gen \in [Kind -> Gens] /\ table[p].rows \in [Kind -> SUBSET Batch]
         /\ phase \in [Process -> PhaseType]
         /\ mem \in [Process -> SUBSET Batch] /\ meta.gen \in [Kind -> Gens]
BY Zenon DEF TypeOK, TableType, FileType, PhaseType

LEMMA PhaseTypes ==
  /\ "off" \in PhaseType /\ "missing" \in PhaseType /\ "reading" \in PhaseType /\ "loaded" \in PhaseType
  /\ "up" \in PhaseType /\ "dims" \in PhaseType /\ "metadata" \in PhaseType /\ "remove" \in PhaseType
  /\ "cleanup" \in PhaseType /\ "fatal" \in PhaseType
BY Zenon DEF PhaseType

(* The state stays of its type when the parts that a step changes do.       *)
LEMMA TypeKept ==
  ASSUME TypeOK,
         meta' \in [exists: BOOLEAN, gen: [Kind -> Gens]],
         file' \in [Kind -> [Gens -> FileType]], table' \in [Process -> TableType],
         lock' \in Process \cup {Nobody}, phase' \in [Process -> PhaseType],
         mem' \in [Process -> SUBSET Batch],
         durable' \subseteq inserted' /\ inserted' \subseteq Batch,
         UNCHANGED <<clean, cleans>>, raced' \in BOOLEAN
  PROVE  TypeOK'
BY Zenon DEF TypeOK, TableType, FileType, PhaseType

LEMMA OldTypes ==
  ASSUME TypeOK
  PROVE  /\ meta \in [exists: BOOLEAN, gen: [Kind -> Gens]] /\ lock \in Process \cup {Nobody}
         /\ durable \subseteq inserted /\ inserted \subseteq Batch
         /\ raced \in BOOLEAN
BY Zenon DEF TypeOK

(* What a step needs of the types, without the fields it does not look at.  *)
Shape ==
  /\ table \in [Process -> TableType] /\ file \in [Kind -> [Gens -> FileType]]
  /\ phase \in [Process -> PhaseType] /\ mem \in [Process -> SUBSET Batch]
  /\ meta.gen \in [Kind -> Gens]

LEMMA SharedShape ==
  ASSUME SharedInv
  PROVE  Shape
BY Zenon DEF SharedInv, TypeOK, Shape, TableType, FileType, PhaseType

(* What a flush makes of a table and a memTable: the next generation of a   *)
(* file that it changes, which holds the rows of both.                      *)
LEMMA NextTypes ==
  ASSUME Shape, NEW p \in Process, NEW k \in Kind
  PROVE  /\ table[p].gen[k] \in Gens /\ NextGen(p, k) \in Int /\ NextGen(p, k) >= table[p].gen[k]
         /\ NextGen(p, k) <= MaxGen => NextGen(p, k) \in Gens
         /\ Changed(p, k) => NextGen(p, k) = table[p].gen[k] + 1
         /\ ~Changed(p, k) => NextGen(p, k) = table[p].gen[k] /\ NewRows(p, k) = table[p].rows[k]
         /\ NewRows(p, k) \in SUBSET Batch /\ table[p].rows[k] \cup mem[p] \subseteq NewRows(p, k)
<1>1. /\ table[p].gen[k] \in Gens /\ table[p].rows[k] \in SUBSET Batch /\ mem[p] \in SUBSET Batch
      /\ table[p].gen[k] \in Int /\ table[p].gen[k] >= -1
  BY DEF Shape, TableType, Gens
<1>2. k = "interval" /\ ~Changed(p, k) => table[p].rows[k] \cup mem[p] = table[p].rows[k]
  BY DEF Changed
<1>3. \A batches \in SUBSET Batch : Known(batches) \in SUBSET Batch /\ batches \subseteq Known(batches)
  BY Zenon DEF Known
<1>4. NewRows(p, k) \in SUBSET Batch /\ table[p].rows[k] \cup mem[p] \subseteq NewRows(p, k)
  <2>1. CASE k = "interval"
    BY <1>1, <2>1 DEF NewRows
  <2>2. CASE k # "interval" /\ Changed(p, k)
    <3>1. table[p].rows[k] \cup mem[p] \in SUBSET Batch
      BY <1>1, Zenon
    <3> QED BY <1>3, <2>2, <3>1, Zenon DEF NewRows
  <2>3. CASE k # "interval" /\ ~Changed(p, k)
    BY <1>1, <2>3, Zenon DEF NewRows, Changed
  <2> QED BY <2>1, <2>2, <2>3, Zenon
<1>5. ~Changed(p, k) => NewRows(p, k) = table[p].rows[k]
  BY <1>2, Zenon DEF NewRows
<1>6. /\ Changed(p, k) => NextGen(p, k) = table[p].gen[k] + 1
      /\ ~Changed(p, k) => NextGen(p, k) = table[p].gen[k]
  BY Zenon DEF NextGen
<1>7. NextGen(p, k) \in Int /\ NextGen(p, k) >= table[p].gen[k]
  BY <1>1, <1>6
<1>8. NextGen(p, k) <= MaxGen => NextGen(p, k) \in Gens
  BY <1>1, <1>7 DEF Gens
<1> QED BY <1>1, <1>2, <1>4, <1>5, <1>6, <1>7, <1>8, Zenon

LEMMA NextKept ==
  ASSUME NEW p \in Process, table'[p] = table[p], mem'[p] = mem[p], NEW k \in Kind
  PROVE  Changed(p, k)' = Changed(p, k) /\ NextGen(p, k)' = NextGen(p, k) /\ NewRows(p, k)' = NewRows(p, k)
BY Zenon DEF Changed, NextGen, NewRows, Known

(* A step of one process keeps the generations if its own are kept.         *)
LEMMA GenKept ==
  ASSUME GenInv, NEW p \in Process, meta'.gen["dimension"] >= 0, inserted \subseteq inserted',
         \A q \in Process \ {p} : phase'[q] = phase[q] /\ table'[q] = table[q] /\ mem'[q] = mem[q],
         table'[p].gen["dimension"] >= 0, mem'[p] \subseteq inserted',
         Flushing(p)' => \A k \in Kind : NextGen(p, k)' <= MaxGen
  PROVE  GenInv'
<1>1. ASSUME NEW q \in Process \ {p}
      PROVE  /\ table'[q].gen["dimension"] >= 0 /\ mem'[q] \subseteq inserted'
             /\ Flushing(q)' => \A k \in Kind : NextGen(q, k)' <= MaxGen
  <2>1. \A k \in Kind : NextGen(q, k)' = NextGen(q, k)
    BY NextKept, Zenon
  <2> QED BY <2>1, Zenon DEF GenInv, Flushing
<1> QED BY <1>1, Zenon DEF GenInv

(* One step of a server keeps types, generations, flock and names.          *)
LEMMA ServerShared ==
  ASSUME DirAssumption, SharedInv, NEW p \in Process,
         \/ OpenDB(p) \/ LoadFiles(p) \/ DBDoesNotExist(p) \/ NewDB(p) \/ addFlock(p)
         \/ Exit(p) \/ \E b \in Batch : Insert(p, b)
         \/ FlushIntervals(p) \/ FlushDimensions(p) \/ writeMetadataFile(p)
         \/ RemoveOld(p) \/ cleanUpOldIntervals(p)
  PROVE  SharedInv'
<1>1. TypeOK /\ GenInv /\ LockInv /\ NameInv
  BY Zenon DEF SharedInv
<1>2. /\ table \in [Process -> TableType] /\ file \in [Kind -> [Gens -> FileType]]
      /\ table[p].gen \in [Kind -> Gens] /\ table[p].rows \in [Kind -> SUBSET Batch]
      /\ phase \in [Process -> PhaseType]
      /\ mem \in [Process -> SUBSET Batch] /\ meta.gen \in [Kind -> Gens]
  BY <1>1, ProcessTypes, Zenon
<1>3. /\ meta \in [exists: BOOLEAN, gen: [Kind -> Gens]] /\ lock \in Process \cup {Nobody}
      /\ durable \subseteq inserted /\ inserted \subseteq Batch
      /\ raced \in BOOLEAN
  BY <1>1, OldTypes, Zenon
<1>0. /\ Shape /\ meta.gen["dimension"] >= 0 /\ table[p].gen["dimension"] >= 0 /\ mem[p] \subseteq inserted
      /\ NoTable.gen["dimension"] >= 0
  BY <1>1, <1>2, DirTypes DEF Shape, GenInv
<1>4. CASE OpenDB(p)
  <2>1. table' \in [Process -> TableType]
    BY <1>2, <1>4 DEF OpenDB, TableType
  <2>2. file' \in [Kind -> [Gens -> FileType]]
    BY <1>2, <1>4, Zenon DEF OpenDB
  <2>3. phase' \in [Process -> PhaseType]
    BY <1>2, <1>4, PhaseTypes, Zenon DEF OpenDB
  <2>4. TypeOK'
    BY <1>1, <1>2, <1>3, <1>4, <2>1, <2>2, <2>3, TypeKept, Zenon DEF OpenDB
  <2>5. GenInv'
    <3>1. /\ UNCHANGED <<meta, inserted>> /\ table'[p].gen["dimension"] >= 0 /\ mem'[p] \subseteq inserted
          /\ \A q \in Process \ {p} : phase'[q] = phase[q] /\ table'[q] = table[q] /\ mem'[q] = mem[q]
          /\ ~Flushing(p)'
      BY <1>0, <1>2, <1>4, DirTypes, Zenon DEF OpenDB, TableType, Flushing
    <3> QED BY <1>0, <1>1, <3>1, GenKept, Zenon
  <2>6. LockInv'
    BY <1>1, <1>2, <1>4, Zenon DEF LockInv, Holding, Flushing, OpenDB, DirAssumption
  <2>7. NameInv'
    BY <1>1, <1>4, Zenon DEF NameInv, OpenDB
  <2> QED BY <2>4, <2>5, <2>6, <2>7, Zenon DEF SharedInv
<1>5. CASE LoadFiles(p)
  <2> DEFINE Loaded == [k \in Kind |-> file[k][table[p].gen[k]].rows]
  <2>0. /\ phase' = [phase EXCEPT ![p] = "loaded"] \/ phase' = [phase EXCEPT ![p] = "fatal"]
        /\ table' = table \/ table' = [table EXCEPT ![p].rows = Loaded]
    BY <1>5, Zenon DEF LoadFiles
  <2>8. Loaded \in [Kind -> SUBSET Batch]
    <3>1. \A k \in Kind : file[k][table[p].gen[k]].rows \in SUBSET Batch
      BY <1>2, Zenon DEF FileType
    <3> QED BY <3>1, Zenon
  <2> HIDE DEF Loaded
  <2>9. /\ [table EXCEPT ![p].rows = Loaded] \in [Process -> TableType]
        /\ \A q \in Process : [table EXCEPT ![p].rows = Loaded][q].gen = table[q].gen
    BY <1>2, <2>8, RowsLoaded
  <2>1. table' \in [Process -> TableType]
    BY <1>2, <2>0, <2>9, Zenon
  <2>2. file' \in [Kind -> [Gens -> FileType]]
    BY <1>2, <1>5, Zenon DEF LoadFiles
  <2>3. phase' \in [Process -> PhaseType]
    BY <1>2, <2>0, PhaseTypes, Zenon
  <2>4. TypeOK'
    BY <1>1, <1>2, <1>3, <1>5, <2>1, <2>2, <2>3, TypeKept, Zenon DEF LoadFiles
  <2>5. GenInv'
    <3>1. UNCHANGED <<meta, mem, inserted>> /\ ~Flushing(p)'
          /\ \A q \in Process \ {p} : phase'[q] = phase[q] /\ table'[q] = table[q]
      BY <1>2, <1>5, <2>0, Zenon DEF LoadFiles, Flushing
    <3>2. table'[p].gen = table[p].gen
      BY <2>0, <2>9, Zenon
    <3> QED BY <1>0, <1>1, <3>1, <3>2, GenKept, Zenon
  <2>6. LockInv'
    BY <1>1, <1>2, <1>5, <2>0, Zenon DEF LockInv, Holding, Flushing, LoadFiles, DirAssumption
  <2>7. NameInv'
    BY <1>1, <1>5, Zenon DEF NameInv, LoadFiles
  <2> QED BY <2>4, <2>5, <2>6, <2>7, Zenon DEF SharedInv
<1>6. CASE DBDoesNotExist(p)
  <2>1. table' \in [Process -> TableType]
    BY <1>2, <1>6, Zenon DEF DBDoesNotExist
  <2>2. file' \in [Kind -> [Gens -> FileType]]
    BY <1>2, <1>6, Zenon DEF DBDoesNotExist
  <2>3. phase' \in [Process -> PhaseType]
    BY <1>2, <1>6, PhaseTypes, Zenon DEF DBDoesNotExist
  <2>4. TypeOK'
    BY <1>1, <1>2, <1>3, <1>6, <2>1, <2>2, <2>3, TypeKept, Zenon DEF DBDoesNotExist
  <2>5. GenInv'
    <3>1. /\ UNCHANGED <<meta, inserted>> /\ table'[p].gen["dimension"] >= 0 /\ mem'[p] \subseteq inserted
          /\ \A q \in Process \ {p} : phase'[q] = phase[q] /\ table'[q] = table[q] /\ mem'[q] = mem[q]
          /\ ~Flushing(p)'
      BY <1>0, <1>2, <1>6, DirTypes, Zenon DEF DBDoesNotExist, TableType, Flushing
    <3> QED BY <1>0, <1>1, <3>1, GenKept, Zenon
  <2>6. LockInv'
    BY <1>1, <1>2, <1>6, Zenon DEF LockInv, Holding, Flushing, DBDoesNotExist, DirAssumption
  <2>7. NameInv'
    BY <1>1, <1>6, Zenon DEF NameInv, DBDoesNotExist
  <2> QED BY <2>4, <2>5, <2>6, <2>7, Zenon DEF SharedInv
<1>7. CASE NewDB(p)
  <2>1. table' \in [Process -> TableType]
    BY <1>2, <1>7, DirTypes, Zenon DEF NewDB
  <2>2. file' \in [Kind -> [Gens -> FileType]]
    BY <1>2, <1>7, Zenon DEF NewDB
  <2>3. phase' \in [Process -> PhaseType]
    BY <1>2, <1>7, PhaseTypes, Zenon DEF NewDB
  <2>4. TypeOK'
    BY <1>1, <1>2, <1>3, <1>7, <2>1, <2>2, <2>3, TypeKept, Zenon DEF NewDB
  <2>5. GenInv'
    <3>1. /\ UNCHANGED <<meta, inserted>> /\ table'[p].gen["dimension"] >= 0 /\ mem'[p] \subseteq inserted
          /\ \A q \in Process \ {p} : phase'[q] = phase[q] /\ table'[q] = table[q] /\ mem'[q] = mem[q]
          /\ ~Flushing(p)'
      BY <1>0, <1>2, <1>7, DirTypes, Zenon DEF NewDB, TableType, Flushing
    <3> QED BY <1>0, <1>1, <3>1, GenKept, Zenon
  <2>6. LockInv'
    BY <1>1, <1>2, <1>7, Zenon DEF LockInv, Holding, Flushing, NewDB, DirAssumption
  <2>7. NameInv'
    BY <1>1, <1>7, Zenon DEF NameInv, NewDB
  <2> QED BY <2>4, <2>5, <2>6, <2>7, Zenon DEF SharedInv
<1>8. CASE addFlock(p)
  <2>1. table' \in [Process -> TableType]
    BY <1>2, <1>8, DirTypes, Zenon DEF addFlock
  <2>2. file' \in [Kind -> [Gens -> FileType]]
    BY <1>2, <1>8, Zenon DEF addFlock
  <2>3. phase' \in [Process -> PhaseType]
    BY <1>2, <1>8, PhaseTypes, Zenon DEF addFlock
  <2>4. TypeOK'
    <3>1. lock' \in Process \cup {Nobody}
      BY <1>3, <1>8, Zenon DEF addFlock
    <3>2. raced' \in BOOLEAN
      BY <1>3, <1>8, Zenon DEF addFlock
    <3> QED BY <1>1, <1>2, <1>3, <1>8, <2>1, <2>2, <2>3, <3>1, <3>2, TypeKept, Zenon DEF addFlock
  <2>5. GenInv'
    <3>1. /\ UNCHANGED <<meta, inserted>> /\ table'[p].gen["dimension"] >= 0 /\ mem'[p] \subseteq inserted
          /\ \A q \in Process \ {p} : phase'[q] = phase[q] /\ table'[q] = table[q] /\ mem'[q] = mem[q]
          /\ ~Flushing(p)'
      BY <1>0, <1>2, <1>8, DirTypes, Zenon DEF addFlock, TableType, Flushing
    <3> QED BY <1>0, <1>1, <3>1, GenKept, Zenon
  <2>6. LockInv'
    BY <1>1, <1>2, <1>8, Zenon DEF LockInv, Holding, Flushing, addFlock, DirAssumption
  <2>7. NameInv'
    BY <1>1, <1>8, Zenon DEF NameInv, addFlock
  <2> QED BY <2>4, <2>5, <2>6, <2>7, Zenon DEF SharedInv
<1>9. CASE Exit(p)
  <2>1. table' \in [Process -> TableType]
    BY <1>2, <1>9, DirTypes, Zenon DEF Exit
  <2>2. file' \in [Kind -> [Gens -> FileType]]
    BY <1>2, <1>9, Zenon DEF Exit
  <2>3. phase' \in [Process -> PhaseType]
    BY <1>2, <1>9, PhaseTypes, Zenon DEF Exit
  <2>4. TypeOK'
    <3>1. mem' \in [Process -> SUBSET Batch]
      BY <1>2, <1>9, Zenon DEF Exit
    <3>2. lock' \in Process \cup {Nobody}
      BY <1>3, <1>9, Zenon DEF Exit
    <3> QED BY <1>1, <1>3, <1>9, <2>1, <2>2, <2>3, <3>1, <3>2, TypeKept, Zenon DEF Exit
  <2>5. GenInv'
    <3>1. /\ UNCHANGED <<meta, inserted>> /\ table'[p].gen["dimension"] >= 0 /\ mem'[p] \subseteq inserted
          /\ \A q \in Process \ {p} : phase'[q] = phase[q] /\ table'[q] = table[q] /\ mem'[q] = mem[q]
          /\ ~Flushing(p)'
      BY <1>0, <1>2, <1>9, DirTypes, Zenon DEF Exit, TableType, Flushing
    <3> QED BY <1>0, <1>1, <3>1, GenKept, Zenon
  <2>6. LockInv'
    BY <1>1, <1>2, <1>9, Zenon DEF LockInv, Holding, Flushing, Exit, DirAssumption
  <2>7. NameInv'
    BY <1>1, <1>9, Zenon DEF NameInv, Exit
  <2> QED BY <2>4, <2>5, <2>6, <2>7, Zenon DEF SharedInv
<1>10. CASE \E b \in Batch : Insert(p, b)
  <2>1. table' \in [Process -> TableType]
    BY <1>2, <1>10, Zenon DEF Insert
  <2>2. file' \in [Kind -> [Gens -> FileType]]
    BY <1>2, <1>10, Zenon DEF Insert
  <2>3. phase' \in [Process -> PhaseType]
    BY <1>2, <1>10, PhaseTypes, Zenon DEF Insert
  <2>4. TypeOK'
    <3>1. mem' \in [Process -> SUBSET Batch]
      BY <1>2, <1>10 DEF Insert
    <3>2. durable' \subseteq inserted' /\ inserted' \subseteq Batch
      BY <1>3, <1>10, Zenon DEF Insert
    <3> QED BY <1>1, <1>3, <1>10, <2>1, <2>2, <2>3, <3>1, <3>2, TypeKept, Zenon DEF Insert
  <2>5. GenInv'
    <3>1. UNCHANGED <<meta, table, phase>> /\ inserted \subseteq inserted' /\ ~Flushing(p)'
          /\ \A q \in Process \ {p} : mem'[q] = mem[q]
      BY <1>2, <1>10, Zenon DEF Insert, Flushing
    <3>2. mem'[p] \subseteq inserted'
      BY <1>0, <1>2, <1>10, Zenon DEF Insert
    <3> QED BY <1>0, <1>1, <3>1, <3>2, GenKept, Zenon
  <2>6. LockInv'
    BY <1>1, <1>2, <1>10, Zenon DEF LockInv, Holding, Flushing, Insert, DirAssumption
  <2>7. NameInv'
    BY <1>1, <1>10, Zenon DEF NameInv, Insert
  <2> QED BY <2>4, <2>5, <2>6, <2>7, Zenon DEF SharedInv
<1>11. ASSUME NEW k \in Kind, Write(p, k), ~Flushing(p) => \A l \in Kind : NextGen(p, l) <= MaxGen,
              Holding(p), phase' \in {[phase EXCEPT ![p] = "dims"], [phase EXCEPT ![p] = "metadata"]},
              UNCHANGED <<meta, cleanVars, lock, table, mem, inserted, durable>>
       PROVE  SharedInv'
  <2>1. \A l \in Kind : NextGen(p, l) <= MaxGen /\ NextGen(p, l) \in Gens
    BY <1>0, <1>1, <1>11, NextTypes, Zenon DEF GenInv
  <2>2. /\ file' \in [Kind -> [Gens -> FileType]]
        /\ \A l \in Kind : \A g \in Gens :
             file'[l][g] = file[l][g] \/ (file'[l][g].exists /\ HasFile(l, g))
    <3>1. CASE ~Changed(p, k)
      BY <1>2, <1>11, <3>1, Zenon DEF Write
    <3>2. CASE Changed(p, k)
      <4>1. NextGen(p, k) \in Gens /\ File(NewRows(p, k)) \in FileType
        BY <1>0, <1>11, <2>1, NextTypes, DirTypes, Zenon
      <4>2. HasFile(k, NextGen(p, k))
        <5>1. NextGen(p, k) = table[p].gen[k] + 1 /\ table[p].gen[k] \in Gens
          BY <1>0, <1>11, <3>2, NextTypes, Zenon
        <5> QED BY <1>0, <1>11, <5>1, KindType DEF HasFile, Gens
      <4>3. file' = [file EXCEPT ![k][NextGen(p, k)] = File(NewRows(p, k))]
        BY <1>11, <3>2, Zenon DEF Write
      <4>4. /\ file' \in [Kind -> [Gens -> FileType]]
            /\ \A l \in Kind : \A g \in Gens :
                 file'[l][g] = IF l = k /\ g = NextGen(p, k) THEN File(NewRows(p, k)) ELSE file[l][g]
        BY <1>2, <1>11, <4>1, <4>3, FileWritten
      <4>5. File(NewRows(p, k)).exists
        BY Zenon DEF File
      <4> QED BY <4>2, <4>4, <4>5, Zenon
    <3> QED BY <3>1, <3>2, Zenon
  <2>3. phase' \in [Process -> PhaseType] /\ Flushing(p)' /\ \A q \in Process \ {p} : phase'[q] = phase[q]
    BY <1>2, <1>11, PhaseTypes, Zenon DEF Flushing
  <2>4. TypeOK'
    BY <1>1, <1>2, <1>3, <1>11, <2>2, <2>3, TypeKept, Zenon
  <2>5. GenInv'
    <3>1. \A l \in Kind : NextGen(p, l)' <= MaxGen
      BY <1>11, <2>1, NextKept, Zenon
    <3> QED BY <1>0, <1>1, <1>11, <2>3, <3>1, GenKept, Zenon
  <2>6. LockInv'
    BY <1>1, <1>11, <2>3, Zenon DEF LockInv, Holding, Flushing
  <2>7. NameInv'
    BY <1>1, <1>11, <2>2, ZenonT(40) DEF NameInv
  <2> QED BY <2>4, <2>5, <2>6, <2>7, Zenon DEF SharedInv
<1>12. CASE FlushIntervals(p) \/ FlushDimensions(p)
  <2>1. Holding(p) /\ (~Flushing(p) => \A l \in Kind : NextGen(p, l) <= MaxGen)
    BY <1>12, Zenon DEF FlushIntervals, FlushDimensions, Holding, Flushing
  <2>2. /\ Write(p, "interval") \/ Write(p, "dimension")
        /\ phase' \in {[phase EXCEPT ![p] = "dims"], [phase EXCEPT ![p] = "metadata"]}
        /\ UNCHANGED <<meta, cleanVars, lock, table, mem, inserted, durable>>
    BY <1>12, Zenon DEF FlushIntervals, FlushDimensions
  <2> QED BY <1>11, <2>1, <2>2, KindType, Zenon
<1>13. CASE writeMetadataFile(p)
  <2>1. table' \in [Process -> TableType]
    BY <1>2, <1>13, Zenon DEF writeMetadataFile
  <2>2. file' \in [Kind -> [Gens -> FileType]]
    BY <1>2, <1>13, Zenon DEF writeMetadataFile
  <2>3. phase' \in [Process -> PhaseType]
    BY <1>2, <1>13, PhaseTypes, Zenon DEF writeMetadataFile
  <2>4. \A k \in Kind : NextGen(p, k) <= MaxGen /\ NextGen(p, k) \in Gens
    BY <1>0, <1>1, <1>13, NextTypes, Zenon DEF GenInv, Flushing, writeMetadataFile
  <2>5. TypeOK'
    <3>1. [k \in Kind |-> NextGen(p, k)] \in [Kind -> Gens]
      BY <2>4, Zenon
    <3>2. meta' \in [exists: BOOLEAN, gen: [Kind -> Gens]]
      BY <1>13, <3>1, Zenon DEF writeMetadataFile
    <3>3. durable' \subseteq inserted' /\ inserted' \subseteq Batch
      BY <1>1, <1>3, <1>13, Zenon DEF GenInv, writeMetadataFile
    <3> QED BY <1>1, <1>2, <1>3, <1>13, <2>1, <2>2, <2>3, <3>2, <3>3, TypeKept, Zenon DEF writeMetadataFile
  <2>6. GenInv'
    <3>1. /\ meta'.gen["dimension"] = NextGen(p, "dimension") /\ UNCHANGED <<table, mem, inserted>>
          /\ \A q \in Process \ {p} : phase'[q] = phase[q]
      BY <1>2, <1>13, KindType, Zenon DEF writeMetadataFile
    <3>2. NextGen(p, "dimension") \in Int /\ NextGen(p, "dimension") >= table[p].gen["dimension"] /\ table[p].gen["dimension"] \in Int
      BY <1>0, KindType, NextTypes DEF Gens
    <3>3. meta'.gen["dimension"] >= 0
      BY <1>0, <3>1, <3>2
    <3>4. \A k \in Kind : NextGen(p, k)' <= MaxGen
      BY <2>4, <3>1, NextKept, Zenon
    <3> QED BY <1>0, <1>1, <3>1, <3>3, <3>4, GenKept, Zenon
  <2>7. LockInv' /\ NameInv'
    BY <1>1, <1>2, <1>13, Zenon DEF LockInv, Holding, Flushing, NameInv, writeMetadataFile
  <2> QED BY <2>5, <2>6, <2>7, Zenon DEF SharedInv
<1>14. ASSUME NEW k \in Kind, RemoveFile(p, k)
       PROVE  /\ file' \in [Kind -> [Gens -> FileType]]
              /\ UNCHANGED meta => NameInv'
  <2>1. /\ file' \in [Kind -> [Gens -> FileType]]
        /\ \A l \in Kind : \A g \in Gens : file'[l][g] = file[l][g] \/ file'[l][g] = NoFile
    <3>1. CASE ~Changed(p, k)
      BY <1>2, <1>14, <3>1, Zenon DEF RemoveFile
    <3>2. CASE Changed(p, k)
      <4>1. file' = [file EXCEPT ![k][table[p].gen[k]] = NoFile]
        BY <1>14, <3>2, Zenon DEF RemoveFile
      <4>2. table[p].gen[k] \in Gens /\ NoFile \in FileType
        BY <1>0, <1>14, NextTypes, DirTypes, Zenon
      <4> QED BY <1>2, <1>14, <4>1, <4>2, FileWritten
    <3> QED BY <3>1, <3>2, Zenon
  <2>2. \A l \in Kind : \A g \in Gens :
          file'[l][g] = file[l][g] \/ (~file'[l][g].exists /\ file'[l][g].rows = {})
    <3>1. ~NoFile.exists /\ NoFile.rows = {}
      BY Zenon DEF NoFile
    <3> QED BY <2>1, <3>1, Zenon
  <2>3. UNCHANGED meta => NameInv'
    BY <1>1, <2>2, Zenon DEF NameInv
  <2> QED BY <2>1, <2>3, Zenon
<1>15. CASE RemoveOld(p)
  <2>1. /\ UNCHANGED <<meta, cleanVars, lock, table, mem, inserted, durable>> /\ phase' \in [Process -> PhaseType]
        /\ Flushing(p) /\ Flushing(p)' /\ \A q \in Process \ {p} : phase'[q] = phase[q]
    BY <1>2, <1>15, PhaseTypes, Zenon DEF RemoveOld, Flushing
  <2>2. file' \in [Kind -> [Gens -> FileType]] /\ NameInv'
    BY <1>14, <1>15, <2>1, KindType, Zenon DEF RemoveOld
  <2>3. TypeOK'
    BY <1>1, <1>2, <1>3, <2>1, <2>2, TypeKept, Zenon
  <2>4. GenInv'
    <3>1. \A k \in Kind : NextGen(p, k)' <= MaxGen
      BY <1>1, <2>1, NextKept, Zenon DEF GenInv
    <3> QED BY <1>0, <1>1, <2>1, <3>1, GenKept, Zenon
  <2>5. LockInv'
    BY <1>1, <2>1, Zenon DEF LockInv, Holding, Flushing
  <2> QED BY <2>2, <2>3, <2>4, <2>5, Zenon DEF SharedInv
<1>16. CASE cleanUpOldIntervals(p)
  <2> DEFINE New == [gen |-> [k \in Kind |-> NextGen(p, k)], rows |-> [k \in Kind |-> NewRows(p, k)]]
  <2>1. /\ UNCHANGED <<meta, cleanVars, lock, inserted, durable>> /\ phase' = [phase EXCEPT ![p] = "up"]
        /\ Flushing(p) /\ mem' = [mem EXCEPT ![p] = {}] /\ table' = [table EXCEPT ![p] = New]
    BY <1>16, Zenon DEF cleanUpOldIntervals, Flushing
  <2>2. file' \in [Kind -> [Gens -> FileType]] /\ NameInv'
    BY <1>14, <1>16, <2>1, KindType, Zenon DEF cleanUpOldIntervals
  <2>3. New \in TableType
    <3>1. \A k \in Kind : NextGen(p, k) \in Gens /\ NewRows(p, k) \in SUBSET Batch
      BY <1>0, <1>1, <2>1, NextTypes, Zenon DEF GenInv
    <3> QED BY <3>1, Zenon DEF TableType
  <2>4. /\ table' \in [Process -> TableType] /\ mem' \in [Process -> SUBSET Batch]
        /\ phase' \in [Process -> PhaseType]
    BY <1>2, <2>1, <2>3, PhaseTypes, Zenon
  <2>5. TypeOK'
    BY <1>1, <1>2, <1>3, <2>1, <2>2, <2>4, TypeKept, Zenon
  <2>6. GenInv'
    <3>1. /\ table'[p] = New /\ phase'[p] = "up" /\ mem'[p] = {}
          /\ \A q \in Process \ {p} : table'[q] = table[q] /\ phase'[q] = phase[q] /\ mem'[q] = mem[q]
      BY <1>2, <2>1, Zenon
    <3>2. table'[p].gen["dimension"] = NextGen(p, "dimension")
      BY <3>1, KindType
    <3>3. NextGen(p, "dimension") \in Int /\ NextGen(p, "dimension") >= table[p].gen["dimension"] /\ table[p].gen["dimension"] \in Int
      BY <1>0, KindType, NextTypes DEF Gens
    <3>4. table'[p].gen["dimension"] >= 0 /\ ~Flushing(p)'
      BY <1>0, <3>1, <3>2, <3>3 DEF Flushing
    <3> QED BY <1>0, <1>1, <2>1, <3>1, <3>4, GenKept, Zenon
  <2>7. LockInv'
    BY <1>1, <1>2, <2>1, Zenon DEF LockInv, Holding, Flushing
  <2> QED BY <2>2, <2>5, <2>6, <2>7, Zenon DEF SharedInv
<1> QED BY <1>4, <1>5, <1>6, <1>7, <1>8, <1>9, <1>10, <1>12, <1>13, <1>15, <1>16, Zenon

CleanType ==
  [at: {"idle", "glob", "ask", "remove", "done", "fatal"}, gen: [Kind -> Gens],
   kind: Kind, extra: SUBSET Gens, declined: BOOLEAN]

(* A step of gumtool clean does, too.                                       *)
LEMMA CleanShared ==
  ASSUME DirAssumption, SharedInv,
         CleanStart \/ Glob \/ Answer \/ Remove \/ CleanEnds
  PROVE  SharedInv'
<1>1. /\ UNCHANGED <<meta, lock, phase, table, mem, inserted, durable>>
      /\ TypeOK /\ file \in [Kind -> [Gens -> FileType]]
  BY Zenon DEF SharedInv, CleanStart, Glob, Answer, Remove, CleanEnds, TypeOK, FileType
<1>2. clean \in CleanType /\ Idle \in CleanType /\ meta.gen \in [Kind -> Gens]
  BY <1>1, DirTypes, KindType, Zenon DEF TypeOK, CleanType, Idle
<1>3. \A k \in Kind : After(k) \in CleanType /\ Extra(k) \in SUBSET Gens
  BY <1>2, KindType, Zenon DEF CleanType, After, Extra, Existing
<1>4. clean' \in CleanType
  <2>1. CASE CleanStart
    BY <1>2, <2>1, Zenon DEF CleanType, CleanStart
  <2>2. CASE Glob
    BY <1>2, <1>3, <2>2, Zenon DEF CleanType, Glob
  <2>3. CASE Answer
    BY <1>2, <1>3, <2>3, Zenon DEF CleanType, Answer
  <2>4. CASE Remove
    BY <1>2, <1>3, <2>4 DEF CleanType, Remove
  <2>5. CASE CleanEnds
    BY <1>2, <2>5, Zenon DEF CleanEnds
  <2> QED BY <2>1, <2>2, <2>3, <2>4, <2>5, Zenon
<1>5. /\ file' \in [Kind -> [Gens -> FileType]]
      /\ \A k \in Kind : \A g \in Gens : file'[k][g] = file[k][g] \/ file'[k][g] = NoFile
  <2>1. CASE Remove
    <3>1. file' = file \/ \E g \in clean.extra : file' = [file EXCEPT ![clean.kind][g] = NoFile]
      BY <2>1, Zenon DEF Remove
    <3>2. CASE file' = file
      BY <1>1, <3>2, Zenon
    <3>3. ASSUME NEW g \in clean.extra, file' = [file EXCEPT ![clean.kind][g] = NoFile]
          PROVE  <1>5!1 /\ <1>5!2
      <4>1. clean.kind \in Kind /\ g \in Gens /\ NoFile \in FileType
        BY <1>2, DirTypes, Zenon DEF CleanType
      <4> QED BY <1>1, <3>3, <4>1, FileWritten
    <3> QED BY <3>1, <3>2, <3>3, Zenon
  <2>2. CASE CleanStart \/ Glob \/ Answer \/ CleanEnds
    BY <1>1, <2>2, Zenon DEF CleanStart, Glob, Answer, CleanEnds
  <2> QED BY <2>1, <2>2, Zenon
<1>6. cleans' \in 0 .. MaxCleans
  BY <1>1 DEF CleanStart, Glob, Answer, Remove, CleanEnds, TypeOK, DirAssumption
<1>7. raced' \in BOOLEAN
  BY <1>1, Zenon DEF CleanStart, Glob, Answer, Remove, CleanEnds, TypeOK
<1>8. TypeOK'
  BY <1>1, <1>4, <1>5, <1>6, <1>7, Zenon DEF TypeOK, CleanType, FileType
<1>9. GenInv' /\ LockInv'
  BY <1>1, Zenon DEF SharedInv, GenInv, LockInv, Holding, Flushing, NextGen, Changed
<1>10. NameInv'
  BY <1>1, <1>5 DEF SharedInv, NameInv, NoFile
<1> QED BY <1>8, <1>9, <1>10, Zenon DEF SharedInv

LEMMA SharedKept ==
  ASSUME DirAssumption, SharedInv, [Next]_vars
  PROVE  SharedInv'
<1>1. CASE UNCHANGED vars
  <2>1. TypeOK' /\ GenInv'
    BY <1>1, Zenon DEF vars, SharedInv, TypeOK, GenInv, Flushing, NextGen, Changed
  <2>2. LockInv' /\ NameInv'
    BY <1>1, Zenon DEF vars, SharedInv, LockInv, Holding, Flushing, NameInv
  <2> QED BY <2>1, <2>2, Zenon DEF SharedInv
<1> QED BY <1>1, ServerShared, CleanShared, Zenon DEF Next

(* What a process holds or has read is good as long as it, db.json and the  *)
(* files it names stay.                                                     *)
LEMMA HolderKept ==
  ASSUME NEW p \in Process, HolderOf(p), UNCHANGED <<meta, file, clean>>,
         phase'[p] = phase[p], table'[p] = table[p], mem'[p] = mem[p]
  PROVE  HolderOf(p)'
<1>1. \A k \in Kind : Changed(p, k)' = Changed(p, k) /\ NextGen(p, k)' = NextGen(p, k) /\ NewRows(p, k)' = NewRows(p, k)
  BY NextKept, Zenon
<1>2. Complete(p, "interval") => Complete(p, "interval")'
  BY <1>1, KindType, Zenon DEF Complete
<1>3. Complete(p, "dimension") => Complete(p, "dimension")'
  BY <1>1, KindType, Zenon DEF Complete
<1>4. \A k \in Kind : Named(k)' = Named(k)
  BY Zenon DEF Named
<1>5. [k \in Kind |-> NextGen(p, k)]' = [k \in Kind |-> NextGen(p, k)]
  BY <1>1, Zenon
<1> QED BY <1>1, <1>2, <1>3, <1>4, <1>5, Zenon DEF HolderOf

LEMMA ReaderKept ==
  ASSUME NEW p \in Process, ReaderOf(p), UNCHANGED meta, \A k \in Kind : Named(k)' = Named(k),
         phase'[p] = phase[p], table'[p] = table[p]
  PROVE  ReaderOf(p)'
BY Zenon DEF ReaderOf

(* Unless somebody raced, each step keeps what db.json names.               *)
LEMMA OpenUnraced ==
  ASSUME DirAssumption, SharedInv, SharedInv', UnracedInv, NEW p \in Process,
         OpenDB(p) \/ LoadFiles(p) \/ DBDoesNotExist(p) \/ NewDB(p) \/ Exit(p)
  PROVE  UnracedInv'
<1>1. /\ UNCHANGED <<meta, file, durable, clean>> /\ ~Holding(p)'
      /\ \A q \in Process \ {p} : phase'[q] = phase[q] /\ table'[q] = table[q] /\ mem'[q] = mem[q]
  BY SharedShape, Zenon DEF Shape, TableType, Holding, Flushing, OpenDB, LoadFiles, DBDoesNotExist, NewDB, Exit
<1>2. NamedInv' /\ CleanInv'
  BY <1>1, Zenon DEF UnracedInv, NamedInv, CleanInv, Tidy, DurableKept, Expected, Existing
<1>3. HolderInv'
  <2>1. ASSUME NEW q \in Process \ {p}, Holding(q)'
        PROVE  HolderOf(q)'
    <3>1. HolderOf(q)
      BY <1>1, <2>1, Zenon DEF UnracedInv, HolderInv, Holding, Flushing
    <3> QED BY <1>1, <3>1, HolderKept, Zenon
  <2> QED BY <1>1, <2>1, Zenon DEF HolderInv
<1>4. \A k \in Kind : Named(k)' = Named(k)
  BY <1>1, Zenon DEF Named
<1>5. ReaderInv'
  <2>1. ASSUME NEW q \in Process \ {p}, Reading(q)'
        PROVE  ReaderOf(q)'
    <3>1. ReaderOf(q)
      BY <1>1, <2>1, Zenon DEF UnracedInv, ReaderInv, Reading
    <3> QED BY <1>1, <1>4, <3>1, ReaderKept, Zenon
  <2>2. ASSUME Reading(p)'
        PROVE  ReaderOf(p)'
    <3>1. CASE OpenDB(p)
      <4>1. table'[p].gen = meta.gen /\ phase'[p] = "reading"
        BY <3>1, SharedShape, Zenon DEF Shape, TableType, OpenDB
      <4>2. \A k \in Kind : meta.gen[k] \in Int
        BY SharedShape DEF Shape, Gens
      <4> QED BY <1>1, <4>1, <4>2 DEF ReaderOf
    <3>2. CASE LoadFiles(p)
      <4> DEFINE Loaded == [k \in Kind |-> file[k][table[p].gen[k]].rows]
      <4>1. table' = [table EXCEPT ![p].rows = Loaded] /\ Reading(p)
        BY <2>2, <3>2, SharedShape, Zenon DEF Shape, LoadFiles, Reading
      <4>2. table'[p].gen = table[p].gen /\ table'[p].rows = Loaded
        BY <4>1, SharedShape, Zenon DEF Shape, TableType
      <4>3. \A k \in Kind : table[p].gen[k] <= meta.gen[k]
        BY <4>1, Zenon DEF UnracedInv, ReaderInv, ReaderOf
      <4>4. \A k \in Kind : table'[p].rows[k] = file[k][table[p].gen[k]].rows
        BY <4>2, Zenon
      <4>5. table'[p].gen = meta'.gen => \A k \in Kind : table'[p].rows[k] = Named(k)
        <5> SUFFICES ASSUME table'[p].gen = meta'.gen, NEW k \in Kind PROVE table'[p].rows[k] = Named(k)
          BY Zenon
        <5>1. table[p].gen[k] = meta.gen[k]
          BY <1>1, <4>2, Zenon
        <5> QED BY <4>4, <5>1, Zenon DEF Named
      <4> QED BY <1>1, <1>4, <4>2, <4>3, <4>5, Zenon DEF ReaderOf
    <3>3. CASE NewDB(p)
      <4>1. table'[p] = NoTable
        BY <3>3, SharedShape, Zenon DEF Shape, TableType, NewDB
      <4>2. \A k \in Kind : NoTable.gen[k] <= meta.gen[k]
        BY DirTypes, KindType, SharedShape DEF SharedInv, GenInv, Shape, TableType, Gens
      <4>3. \A k \in Kind : NoTable.rows[k] = file[k][NoTable.gen[k]].rows
        <5>1. -1 \in Gens /\ 0 \in Gens /\ ~HasFile("interval", -1) /\ ~HasFile("dimension", 0)
          BY DEF Gens, HasFile, DirAssumption
        <5>2. file["interval"][-1].rows = {} /\ file["dimension"][0].rows = {}
          BY <5>1, KindType, Zenon DEF SharedInv, NameInv
        <5>3. \A k \in Kind : NoTable.rows[k] = {}
          BY Zenon DEF NoTable
        <5> QED BY <5>2, <5>3, DirTypes, KindType, Zenon
      <4>4. table'[p].gen = meta'.gen => \A k \in Kind : table'[p].rows[k] = Named(k)
        BY <1>1, <4>1, <4>3, Zenon DEF Named
      <4> QED BY <1>1, <1>4, <4>1, <4>2, <4>4, Zenon DEF ReaderOf
    <3>4. CASE DBDoesNotExist(p) \/ Exit(p)
      BY <2>2, <3>4, SharedShape, Zenon DEF Shape, TableType, Reading, DBDoesNotExist, Exit
    <3> QED BY <3>1, <3>2, <3>3, <3>4, Zenon
  <2> QED BY <2>1, <2>2, Zenon DEF ReaderInv
<1> QED BY <1>2, <1>3, <1>5, Zenon DEF UnracedInv

LEMMA FlockUnraced ==
  ASSUME DirAssumption, SharedInv, SharedInv', UnracedInv, ~raced', NEW p \in Process, addFlock(p)
  PROVE  UnracedInv'
<1>1. /\ UNCHANGED <<meta, file, durable, clean, mem>>
      /\ \A q \in Process \ {p} : phase'[q] = phase[q] /\ table'[q] = table[q]
      /\ Reading(p) /\ phase[p] = "loaded"
  BY SharedShape, Zenon DEF Shape, TableType, addFlock, Reading
<1>2. NamedInv' /\ CleanInv' /\ \A k \in Kind : Named(k)' = Named(k)
  BY <1>1, Zenon DEF UnracedInv, NamedInv, CleanInv, Tidy, DurableKept, Expected, Existing, Named
<1>3. \/ phase'[p] = "off"
      \/ phase'[p] = "up" /\ table' = table /\ table[p].gen = meta.gen /\ clean.at = "idle"
  BY SharedShape, Zenon DEF Shape, TableType, addFlock
<1>4. ReaderInv'
  <2>1. ~Reading(p)'
    BY <1>3, Zenon DEF Reading
  <2>2. ASSUME NEW q \in Process \ {p}, Reading(q)'
        PROVE  ReaderOf(q)'
    <3>1. ReaderOf(q)
      BY <1>1, <2>2, Zenon DEF UnracedInv, ReaderInv, Reading
    <3> QED BY <1>1, <1>2, <3>1, ReaderKept, Zenon
  <2> QED BY <2>1, <2>2, Zenon DEF ReaderInv
<1>5. HolderInv'
  <2>1. ASSUME NEW q \in Process \ {p}, Holding(q)'
        PROVE  HolderOf(q)'
    <3>1. HolderOf(q)
      BY <1>1, <2>1, Zenon DEF UnracedInv, HolderInv, Holding, Flushing
    <3> QED BY <1>1, <3>1, HolderKept, Zenon
  <2>2. phase'[p] = "up" => \A k \in Kind : table[p].rows[k] = Named(k)
    BY <1>1, <1>3, Zenon DEF UnracedInv, ReaderInv, ReaderOf
  <2>3. ASSUME Holding(p)'
        PROVE  HolderOf(p)'
    <3>1. phase'[p] = "up"
      BY <1>3, <2>3, Zenon DEF Holding, Flushing
    <3> QED BY <1>1, <1>2, <1>3, <2>2, <3>1, Zenon DEF HolderOf
  <2> QED BY <2>1, <2>3, Zenon DEF HolderInv
<1> QED BY <1>2, <1>4, <1>5, Zenon DEF UnracedInv

(* The process that has the flock is the only one that writes.              *)
LEMMA HolderAlone ==
  ASSUME SharedInv, NEW p \in Process, Holding(p)
  PROVE  \A q \in Process : Holding(q) => q = p
BY Zenon DEF SharedInv, LockInv

LEMMA InsertUnraced ==
  ASSUME SharedInv, UnracedInv, NEW p \in Process, NEW b \in Batch, Insert(p, b)
  PROVE  UnracedInv'
<1>1. /\ UNCHANGED <<meta, file, durable, clean, table, phase>> /\ phase[p] = "up"
      /\ \A q \in Process \ {p} : mem'[q] = mem[q]
  BY SharedShape, Zenon DEF Shape, TableType, Insert
<1>2. NamedInv' /\ CleanInv' /\ ReaderInv' /\ \A k \in Kind : Named(k)' = Named(k)
  BY <1>1, Zenon DEF UnracedInv, NamedInv, CleanInv, ReaderInv, ReaderOf, Reading, Tidy, DurableKept, Expected, Existing, Named
<1>3. HolderInv'
  <2>1. ASSUME NEW q \in Process \ {p}, Holding(q)'
        PROVE  HolderOf(q)'
    <3>1. HolderOf(q)
      BY <1>1, <2>1, Zenon DEF UnracedInv, HolderInv, Holding, Flushing
    <3> QED BY <1>1, <3>1, HolderKept, Zenon
  <2>2. HolderOf(p)
    BY <1>1, Zenon DEF UnracedInv, HolderInv, Holding
  <2>3. HolderOf(p)'
    BY <1>1, <1>2, <2>2, Zenon DEF HolderOf
  <2> QED BY <2>1, <2>3, Zenon DEF HolderInv
<1> QED BY <1>2, <1>3, Zenon DEF UnracedInv

(* A step of the process that has the flock that leaves db.json and the     *)
(* files it names: the others have nothing to do with it.                   *)
LEMMA HolderSteps ==
  ASSUME SharedInv, UnracedInv, NEW p \in Process, Holding(p), HolderOf(p)', Holding(p)',
         UNCHANGED <<meta, durable, clean>>,
         \A q \in Process \ {p} : phase'[q] = phase[q] /\ table'[q] = table[q],
         \A k \in Kind : file'[k][meta.gen[k]] = file[k][meta.gen[k]]
  PROVE  UnracedInv'
<1>1. \A q \in Process \ {p} : ~Holding(q)
  BY HolderAlone, Zenon
<1>2. \A k \in Kind : Named(k)' = Named(k) /\ meta.gen[k] \in Gens
  BY SharedShape, Zenon DEF Named, Shape
<1>3. NamedInv'
  <2>1. DurableKept'
    BY Zenon DEF UnracedInv, NamedInv, DurableKept
  <2>2. \A k \in Kind : Expected(meta, k) \subseteq Existing(k)'
    BY <1>2, Zenon DEF UnracedInv, NamedInv, Expected, Existing
  <2> QED BY <2>1, <2>2, Zenon DEF NamedInv, Expected
<1>4. ReaderInv'
  <2>1. ASSUME NEW q \in Process, Reading(q)'
        PROVE  ReaderOf(q)'
    <3>1. q # p
      BY <2>1, Zenon DEF Reading, Holding, Flushing
    <3>2. ReaderOf(q)
      BY <2>1, <3>1, Zenon DEF UnracedInv, ReaderInv, Reading
    <3> QED BY <1>2, <3>1, <3>2, ReaderKept, Zenon
  <2> QED BY <2>1, Zenon DEF ReaderInv
<1>5. HolderInv'
  BY <1>1, Zenon DEF HolderInv, Holding, Flushing
<1>6. CleanInv'
  BY Zenon DEF CleanInv, HolderOf
<1> QED BY <1>3, <1>4, <1>5, <1>6, Zenon DEF UnracedInv

LEMMA WriteUnraced ==
  ASSUME DirAssumption, SharedInv, UnracedInv, NEW p \in Process, NEW k \in Kind, Write(p, k),
         \A l \in Kind : NextGen(p, l) \in Gens,
         \/ phase[p] = "up" /\ k = "interval" /\ phase' = [phase EXCEPT ![p] = "dims"]
         \/ phase[p] = "dims" /\ k = "dimension" /\ phase' = [phase EXCEPT ![p] = "metadata"],
         UNCHANGED <<meta, durable, clean, table, mem>>
  PROVE  UnracedInv'
<1>1. /\ Holding(p) /\ Holding(p)' /\ phase[p] \notin {"remove", "cleanup"}
      /\ \A q \in Process \ {p} : phase'[q] = phase[q]
      /\ \/ k = "interval" /\ phase'[p] = "dims"
         \/ k = "dimension" /\ phase[p] = "dims" /\ phase'[p] = "metadata"
  BY SharedShape, Zenon DEF Shape, TableType, Holding, Flushing
<1>2. /\ clean.at = "idle" /\ meta.gen = table[p].gen /\ \A l \in Kind : Named(l) = table[p].rows[l]
      /\ phase[p] = "dims" => Complete(p, "interval")
  BY <1>1, Zenon DEF UnracedInv, HolderInv, HolderOf
<1>3. \A l \in Kind : (Changed(p, l) => NextGen(p, l) # meta.gen[l]) /\ meta.gen[l] \in Gens
  BY <1>2, SharedShape, NextTypes DEF Gens
<1>4. \A l \in Kind : \A h \in Gens :
        file'[l][h] = IF Changed(p, k) /\ l = k /\ h = NextGen(p, k) THEN File(NewRows(p, k)) ELSE file[l][h]
  BY SharedShape, Zenon DEF Shape, TableType, Write
<1>5. \A l \in Kind : file'[l][meta.gen[l]] = file[l][meta.gen[l]]
  BY <1>3, <1>4
<1>6. \A l \in Kind : Changed(p, l)' = Changed(p, l) /\ NextGen(p, l)' = NextGen(p, l) /\ NewRows(p, l)' = NewRows(p, l)
  BY NextKept, Zenon
<1>7. Complete(p, k)'
  BY <1>4, <1>6, Zenon DEF Complete
<1>8. k = "dimension" => Complete(p, "interval")'
  <2> SUFFICES ASSUME k = "dimension" PROVE Complete(p, "interval")'
    BY Zenon
  <2>1. file'["interval"][NextGen(p, "interval")] = file["interval"][NextGen(p, "interval")]
    BY <1>4, KindType, Zenon
  <2> QED BY <1>1, <1>2, <1>6, <2>1, KindType, Zenon DEF Complete
<1>9. HolderOf(p)'
  <2>1. \A l \in Kind : Named(l)' = table'[p].rows[l]
    BY <1>2, <1>5, Zenon DEF Named
  <2> QED BY <1>1, <1>2, <1>7, <1>8, <2>1, Zenon DEF HolderOf
<1> QED BY <1>1, <1>5, <1>9, HolderSteps, Zenon

LEMMA FlushUnraced ==
  ASSUME DirAssumption, SharedInv, UnracedInv, NEW p \in Process,
         FlushIntervals(p) \/ FlushDimensions(p)
  PROVE  UnracedInv'
<1>1. \A k \in Kind : NextGen(p, k) <= MaxGen => NextGen(p, k) \in Gens
  BY SharedShape, NextTypes, Zenon
<1>2. CASE FlushIntervals(p)
  BY <1>1, <1>2, WriteUnraced, KindType, Zenon DEF FlushIntervals
<1>3. CASE FlushDimensions(p)
  <2>1. \A k \in Kind : NextGen(p, k) <= MaxGen
    BY <1>3, Zenon DEF SharedInv, GenInv, Flushing, FlushDimensions
  <2> QED BY <1>1, <1>3, <2>1, WriteUnraced, KindType, Zenon DEF FlushDimensions
<1> QED BY <1>2, <1>3, Zenon

LEMMA MetadataUnraced ==
  ASSUME DirAssumption, SharedInv, UnracedInv, NEW p \in Process, writeMetadataFile(p)
  PROVE  UnracedInv'
<1>1. /\ UNCHANGED <<file, clean, table, mem>> /\ Holding(p) /\ Flushing(p)
      /\ phase[p] = "metadata" /\ phase'[p] = "remove"
      /\ \A q \in Process \ {p} : phase'[q] = phase[q] /\ ~Holding(q)
      /\ meta'.gen = [k \in Kind |-> NextGen(p, k)] /\ durable' = durable \cup mem[p]
  BY HolderAlone, SharedShape, Zenon DEF Shape, TableType, Holding, Flushing, writeMetadataFile
<1>2. /\ clean.at = "idle" /\ meta.gen = table[p].gen /\ \A k \in Kind : Named(k) = table[p].rows[k]
      /\ Complete(p, "interval") /\ Complete(p, "dimension")
  BY <1>1, Zenon DEF UnracedInv, HolderInv, HolderOf
<1>3. \A k \in Kind : meta'.gen[k] = NextGen(p, k) /\ NextGen(p, k) \in Gens
  BY <1>1, SharedShape, NextTypes, Zenon DEF SharedInv, GenInv
<1>4. ASSUME NEW k \in Kind
      PROVE  Named(k)' = NewRows(p, k) /\ Expected(meta', k) \subseteq Existing(k)
  <2>1. CASE Changed(p, k)
    <3>1. file[k][NextGen(p, k)] = File(NewRows(p, k))
      BY <1>2, <1>4, <2>1, KindType, Zenon DEF Complete
    <3>2. File(NewRows(p, k)).exists /\ File(NewRows(p, k)).rows = NewRows(p, k)
      BY Zenon DEF File
    <3>3. Named(k)' = NewRows(p, k)
      BY <1>1, <1>3, <3>1, <3>2, Zenon DEF Named
    <3>4. NextGen(p, k) \in Existing(k)
      BY <1>3, <3>1, <3>2, Zenon DEF Existing
    <3> QED BY <1>3, <3>3, <3>4, Zenon DEF Expected
  <2>2. CASE ~Changed(p, k)
    <3>1. NextGen(p, k) = meta.gen[k] /\ NewRows(p, k) = table[p].rows[k]
      BY <1>2, <2>2, SharedShape, NextTypes, Zenon
    <3> QED BY <1>1, <1>2, <1>3, <3>1, Zenon DEF UnracedInv, NamedInv, Named, Expected
  <2> QED BY <2>1, <2>2, Zenon
<1>5. NamedInv'
  <2>1. \A k \in Kind : durable \subseteq Named(k)
    BY Zenon DEF UnracedInv, NamedInv, DurableKept, Named
  <2>2. \A k \in Kind : table[p].rows[k] \cup mem[p] \subseteq NewRows(p, k)
    BY SharedShape, NextTypes, Zenon
  <2>3. \A k \in Kind : durable' \subseteq Named(k)'
    BY <1>1, <1>2, <1>4, <2>1, <2>2
  <2>4. DurableKept'
    BY <2>3, Zenon DEF DurableKept, Named
  <2> QED BY <1>1, <1>4, <2>4, Zenon DEF NamedInv, Existing, Expected
<1>6. ReaderInv'
  <2>1. ASSUME NEW q \in Process, Reading(q)'
        PROVE  q # p /\ table'[q] = table[q] /\ \A k \in Kind : table[q].gen[k] <= meta.gen[k]
    BY <1>1, <2>1, Zenon DEF Reading, UnracedInv, ReaderInv, ReaderOf
  <2>2. \A q \in Process, k \in Kind : table[q].gen[k] \in Int /\ meta.gen[k] \in Int
    BY SharedShape DEF Shape, TableType, Gens
  <2>3. \A k \in Kind : NextGen(p, k) \in Int /\ NextGen(p, k) >= meta.gen[k]
    BY <1>2, SharedShape, NextTypes, Zenon
  <2>4. ASSUME NEW k \in Kind
        PROVE  Changed(p, k) => NextGen(p, k) = meta.gen[k] + 1
    BY <1>2, SharedShape, NextTypes, Zenon
  <2>5. ASSUME NEW q \in Process, Reading(q)'
        PROVE  ReaderOf(q)'
    <3>1. ASSUME NEW k \in Kind
          PROVE  table'[q].gen[k] <= meta'.gen[k]
      BY <1>3, <2>1, <2>2, <2>3, <2>5
    <3>2. ASSUME phase'[q] = "loaded", table'[q].gen = meta'.gen
          PROVE  \A k \in Kind : table'[q].rows[k] = Named(k)'
      <4>1. ASSUME NEW k \in Kind
            PROVE  ~Changed(p, k)
        <5>1. table[q].gen[k] = NextGen(p, k) /\ table[q].gen[k] <= meta.gen[k]
          BY <1>3, <2>1, <2>5, <3>2, <4>1, Zenon
        <5> QED BY <2>2, <2>4, <4>1, <5>1
      <4>2. \A k \in Kind : NextGen(p, k) = meta.gen[k] /\ NewRows(p, k) = Named(k)
        BY <1>2, <4>1, SharedShape, NextTypes, Zenon
      <4>3. table[q].gen = meta.gen
        <5>1. meta.gen \in [Kind -> Gens] /\ table[q].gen \in [Kind -> Gens]
          BY SharedShape DEF Shape, TableType
        <5>2. \A k \in Kind : table[q].gen[k] = meta.gen[k]
          BY <1>3, <2>1, <2>5, <3>2, <4>2, Zenon
        <5> QED BY <5>1, <5>2
      <4>4. \A k \in Kind : table[q].rows[k] = Named(k)
        BY <1>1, <2>1, <2>5, <3>2, <4>3, Zenon DEF Reading, UnracedInv, ReaderInv, ReaderOf
      <4> QED BY <1>4, <2>1, <2>5, <4>2, <4>4, Zenon
    <3> QED BY <3>1, <3>2, Zenon DEF ReaderOf
  <2> QED BY <2>5, Zenon DEF ReaderInv
<1>7. HolderInv'
  <2>1. \A k \in Kind : NextGen(p, k)' = NextGen(p, k) /\ NewRows(p, k)' = NewRows(p, k)
    BY <1>1, NextKept, Zenon
  <2>2. [k \in Kind |-> NextGen(p, k)]' = [k \in Kind |-> NextGen(p, k)]
    BY <2>1, Zenon
  <2>3. HolderOf(p)'
    BY <1>1, <1>2, <1>4, <2>1, <2>2, Zenon DEF HolderOf
  <2> QED BY <1>1, <2>3, Zenon DEF HolderInv, Holding, Flushing
<1>8. CleanInv'
  BY <1>1, <1>2, Zenon DEF CleanInv
<1> QED BY <1>5, <1>6, <1>7, <1>8, Zenon DEF UnracedInv

(* A file that a flush removes has not the generation that db.json names.   *)
LEMMA RemoveNotNamed ==
  ASSUME SharedInv, UnracedInv, NEW p \in Process, phase[p] \in {"remove", "cleanup"},
         NEW k \in Kind, RemoveFile(p, k)
  PROVE  /\ \A l \in Kind : file'[l][meta.gen[l]] = file[l][meta.gen[l]]
         /\ Holding(p) /\ clean.at = "idle"
         /\ meta.gen = [l \in Kind |-> NextGen(p, l)] /\ \A l \in Kind : Named(l) = NewRows(p, l)
<1>1. Holding(p)
  BY Zenon DEF Holding, Flushing
<1>2. clean.at = "idle" /\ meta.gen = [l \in Kind |-> NextGen(p, l)] /\ \A l \in Kind : Named(l) = NewRows(p, l)
  BY <1>1, Zenon DEF UnracedInv, HolderInv, HolderOf
<1>3. Changed(p, k) => table[p].gen[k] # meta.gen[k]
  BY <1>2, SharedShape, NextTypes DEF Gens
<1>4. \A l \in Kind : file'[l][meta.gen[l]] = file[l][meta.gen[l]]
  BY <1>3, SharedShape, Zenon DEF RemoveFile, Shape
<1> QED BY <1>1, <1>2, <1>4, Zenon

LEMMA RemoveUnraced ==
  ASSUME DirAssumption, SharedInv, UnracedInv, NEW p \in Process, RemoveOld(p) \/ cleanUpOldIntervals(p)
  PROVE  UnracedInv'
<1>1. CASE RemoveOld(p)
  <2>1. /\ UNCHANGED <<meta, clean, durable, table, mem>> /\ phase[p] = "remove" /\ phase'[p] = "cleanup"
        /\ \A q \in Process \ {p} : phase'[q] = phase[q]
    BY <1>1, SharedShape, Zenon DEF Shape, RemoveOld
  <2>2. /\ \A l \in Kind : file'[l][meta.gen[l]] = file[l][meta.gen[l]]
        /\ Holding(p) /\ clean.at = "idle"
        /\ meta.gen = [l \in Kind |-> NextGen(p, l)] /\ \A l \in Kind : Named(l) = NewRows(p, l)
    BY <1>1, <2>1, RemoveNotNamed, KindType, Zenon DEF RemoveOld
  <2>3. HolderOf(p)'
    <3>1. \A k \in Kind : NextGen(p, k)' = NextGen(p, k) /\ NewRows(p, k)' = NewRows(p, k)
      BY <2>1, NextKept, Zenon
    <3>2. [k \in Kind |-> NextGen(p, k)]' = [k \in Kind |-> NextGen(p, k)]
      BY <3>1, Zenon
    <3>3. \A k \in Kind : Named(k)' = Named(k)
      BY <2>1, <2>2, Zenon DEF Named
    <3>4. meta'.gen = [k \in Kind |-> NextGen(p, k)]' /\ \A k \in Kind : Named(k)' = NewRows(p, k)'
      BY <2>1, <2>2, <3>1, <3>2, <3>3
    <3>5. clean'.at = "idle" /\ phase'[p] = "cleanup"
      BY <2>1, <2>2, Zenon
    <3> QED BY <3>4, <3>5, Zenon DEF HolderOf
  <2>4. Holding(p)'
    BY <2>1, Zenon DEF Holding, Flushing
  <2> QED BY <2>1, <2>2, <2>3, <2>4, HolderSteps, Zenon
<1>2. CASE cleanUpOldIntervals(p)
  <2>1. /\ UNCHANGED <<meta, clean, durable>> /\ phase[p] = "cleanup" /\ phase'[p] = "up"
        /\ \A q \in Process \ {p} : phase'[q] = phase[q] /\ table'[q] = table[q]
        /\ table'[p] = [gen |-> [k \in Kind |-> NextGen(p, k)], rows |-> [k \in Kind |-> NewRows(p, k)]]
    BY <1>2, SharedShape, Zenon DEF Shape, cleanUpOldIntervals
  <2>2. /\ \A l \in Kind : file'[l][meta.gen[l]] = file[l][meta.gen[l]]
        /\ Holding(p) /\ clean.at = "idle"
        /\ meta.gen = [l \in Kind |-> NextGen(p, l)] /\ \A l \in Kind : Named(l) = NewRows(p, l)
    BY <1>2, <2>1, RemoveNotNamed, KindType, Zenon DEF cleanUpOldIntervals
  <2>3. HolderOf(p)'
    <3>1. table'[p].gen = [k \in Kind |-> NextGen(p, k)] /\ \A k \in Kind : table'[p].rows[k] = NewRows(p, k)
      BY <2>1
    <3>2. \A k \in Kind : Named(k)' = Named(k)
      BY <2>1, <2>2, Zenon DEF Named
    <3>3. meta'.gen = table'[p].gen /\ \A k \in Kind : Named(k)' = table'[p].rows[k]
      BY <2>1, <2>2, <3>1, <3>2
    <3>4. clean'.at = "idle" /\ phase'[p] = "up"
      BY <2>1, <2>2, Zenon
    <3> QED BY <3>3, <3>4, Zenon DEF HolderOf
  <2>4. Holding(p)'
    BY <2>1, Zenon DEF Holding
  <2> QED BY <2>1, <2>2, <2>3, <2>4, HolderSteps, Zenon
<1> QED BY <1>1, <1>2, Zenon

(* While clean runs nobody has the flock, or somebody raced: clean removes  *)
(* only what db.json does not name, and all of it.                          *)
LEMMA CleanKeepsNames ==
  ASSUME SharedInv, UnracedInv, UNCHANGED <<meta, durable, file, phase, table, mem>>,
         \A p \in Process : ~Holding(p)
  PROVE  NamedInv' /\ ReaderInv' /\ HolderInv'
<1>1. NamedInv' /\ ReaderInv'
  BY Zenon DEF UnracedInv, NamedInv, ReaderInv, ReaderOf, Named, Reading, DurableKept, Expected, Existing
<1>2. HolderInv'
  BY Zenon DEF HolderInv, Holding, Flushing
<1> QED BY <1>1, <1>2, Zenon

LEMMA CleanUnraced ==
  ASSUME DirAssumption, SharedInv, UnracedInv, ~raced',
         CleanStart \/ Glob \/ Answer \/ Remove \/ CleanEnds
  PROVE  UnracedInv'
<1>1. /\ UNCHANGED <<meta, lock, phase, table, mem, inserted, durable>>
      /\ clean \in CleanType /\ file \in [Kind -> [Gens -> FileType]]
      /\ \A k \in Kind : meta.gen[k] \in Gens
  <2>1. UNCHANGED <<meta, lock, phase, table, mem, inserted, durable>>
    BY Zenon DEF CleanStart, Glob, Answer, Remove, CleanEnds
  <2>2. clean \in CleanType
    BY Zenon DEF SharedInv, TypeOK, CleanType
  <2> QED BY <2>1, <2>2, SharedShape, Zenon DEF Shape
<1>2. \A p \in Process : ~Holding(p)
  BY Zenon DEF SharedInv, LockInv, UnracedInv, HolderInv, HolderOf, CleanStart, Glob, Answer, Remove, CleanEnds, DirAssumption
<1>3. CASE CleanStart
  <2>1. UNCHANGED file /\ clean'.at \in {"glob", "fatal"} /\ clean'.gen = meta.gen
        /\ clean'.kind = "dimension" /\ (clean'.at = "fatal" => ~meta.exists)
    BY <1>3, Zenon DEF CleanStart, Idle
  <2>2. CleanInv'
    BY <1>1, <2>1, Zenon DEF CleanInv
  <2> QED BY <1>1, <1>2, <2>1, <2>2, CleanKeepsNames, Zenon DEF UnracedInv
<1>4. ASSUME UNCHANGED file, clean.at # "idle", clean' = After(clean.kind) \/ clean' = [After(clean.kind) EXCEPT !.declined = TRUE],
             clean'.declined \/ Tidy(clean.kind)
      PROVE  CleanInv'
  <2>1. CASE clean.kind = "dimension"
    <3>1. clean'.at = "glob" /\ clean'.gen = clean.gen /\ clean'.kind = "interval"
      BY <1>1, <1>4, <2>1, Zenon DEF CleanType, After
    <3> QED BY <1>1, <1>4, <2>1, <3>1 DEF UnracedInv, CleanInv, Tidy, Existing, Expected
  <2>2. CASE clean.kind = "interval"
    <3>1. /\ clean'.at = "done" /\ clean'.gen = clean.gen /\ clean'.kind = "interval"
          /\ clean'.declined \/ clean'.declined = clean.declined
      BY <1>1, <1>4, <2>2, Zenon DEF CleanType, After
    <3> QED BY <1>1, <1>4, <2>2, <3>1 DEF UnracedInv, CleanInv, Tidy, Existing, Expected
  <2> QED BY <1>1, <2>1, <2>2, KindType, Zenon DEF CleanType
<1>5. clean.at # "idle" => \A k \in Kind : Expected(clean, k) = Expected(meta, k)
  BY Zenon DEF UnracedInv, CleanInv, Expected
<1>6. CASE Glob
  <2>1. CASE Extra(clean.kind) = {}
    <3>1. Tidy(clean.kind)
      BY <1>1, <1>5, <1>6, <2>1, Zenon DEF CleanType, Tidy, Glob, Extra, UnracedInv, NamedInv
    <3> QED BY <1>1, <1>2, <1>4, <1>6, <2>1, <3>1, CleanKeepsNames, Zenon DEF Glob, UnracedInv
  <2>2. CASE Extra(clean.kind) # {}
    <3>1. /\ UNCHANGED file /\ clean'.at = "ask" /\ clean'.gen = clean.gen /\ clean'.kind = clean.kind
          /\ clean'.declined = clean.declined /\ clean'.extra = Extra(clean.kind) /\ clean.at = "glob"
      BY <1>1, <1>6, <2>2, Zenon DEF CleanType, Glob
    <3>2. CleanInv'
      BY <1>1, <1>5, <3>1, Zenon DEF CleanType, UnracedInv, CleanInv, Tidy, Extra, Existing, Expected
    <3> QED BY <1>1, <1>2, <3>1, <3>2, CleanKeepsNames, Zenon DEF UnracedInv
  <2> QED BY <2>1, <2>2, Zenon
<1>7. CASE Answer
  <2>1. CASE clean' = [clean EXCEPT !.at = "remove"]
    <3>1. /\ UNCHANGED file /\ clean'.at = "remove" /\ clean'.gen = clean.gen /\ clean'.kind = clean.kind
          /\ clean'.declined = clean.declined /\ clean'.extra = clean.extra /\ clean.at = "ask"
      BY <1>1, <1>7, <2>1, Zenon DEF CleanType, Answer
    <3>2. CleanInv'
      BY <1>1, <3>1, Zenon DEF UnracedInv, CleanInv, Tidy, Existing, Expected
    <3> QED BY <1>1, <1>2, <3>1, <3>2, CleanKeepsNames, Zenon DEF UnracedInv
  <2>2. CASE clean' = [After(clean.kind) EXCEPT !.declined = TRUE]
    <3>1. clean'.declined
      BY <1>1, <2>2, KindType, Zenon DEF CleanType, After
    <3> QED BY <1>1, <1>2, <1>4, <1>7, <2>2, <3>1, CleanKeepsNames, Zenon DEF Answer, UnracedInv
  <2> QED BY <1>7, <2>1, <2>2, Zenon DEF Answer
<1>8. CASE Remove
  <2>1. /\ clean.at = "remove" /\ clean.gen = meta.gen
        /\ clean.extra = Existing(clean.kind) \ Expected(meta, clean.kind)
    BY <1>8, Zenon DEF UnracedInv, CleanInv, Remove
  <2>2. CASE clean.extra = {}
    <3>1. Tidy(clean.kind)
      BY <1>1, <2>1, <2>2, Zenon DEF CleanType, Tidy, UnracedInv, NamedInv
    <3> QED BY <1>1, <1>2, <1>4, <1>8, <2>1, <2>2, <3>1, CleanKeepsNames, Zenon DEF Remove, UnracedInv
  <2>3. CASE clean.extra # {}
    <3>1. PICK g \in clean.extra :
            /\ file' = [file EXCEPT ![clean.kind][g] = NoFile]
            /\ clean' = [clean EXCEPT !.extra = @ \ {g}]
      BY <1>8, <2>1, <2>3, Zenon DEF Remove, Existing
    <3>2. g \in Gens /\ clean.kind \in Kind /\ g \notin Expected(meta, clean.kind) /\ file[clean.kind][g].exists
      BY <1>1, <2>1, Zenon DEF CleanType, Existing
    <3>3. \A k \in Kind : \A h \in Gens :
            file'[k][h] = IF k = clean.kind /\ h = g THEN NoFile ELSE file[k][h]
      BY <1>1, <3>1, <3>2, Zenon
    <3>4. g # meta.gen[clean.kind]
      BY <3>2, Zenon DEF SharedInv, NameInv, Expected
    <3>5. NamedInv'
      <4>1. \A k \in Kind : file'[k][meta.gen[k]] = file[k][meta.gen[k]]
        BY <1>1, <3>3, <3>4
      <4>2. DurableKept'
        BY <1>1, <4>1, Zenon DEF UnracedInv, NamedInv, DurableKept
      <4>3. \A k \in Kind : Expected(meta, k) \subseteq Existing(k)'
        BY <1>1, <4>1, Zenon DEF UnracedInv, NamedInv, Expected, Existing
      <4> QED BY <1>1, <4>2, <4>3, Zenon DEF NamedInv, Expected
    <3>6. ReaderInv' /\ HolderInv'
      <4>1. \A k \in Kind : Named(k)' = Named(k)
        BY <1>1, <3>3, <3>4 DEF Named
      <4> QED BY <1>1, <1>2, <4>1, Zenon DEF UnracedInv, ReaderInv, ReaderOf, Reading, HolderInv, Holding, Flushing
    <3>7. CleanInv'
      <4>1. /\ clean'.at = "remove" /\ clean'.gen = clean.gen /\ clean'.kind = clean.kind
            /\ clean'.declined = clean.declined /\ clean'.extra = clean.extra \ {g}
        BY <1>1, <2>1, <3>1, Zenon DEF CleanType
      <4>2. \A k \in Kind : Existing(k)' = IF k = clean.kind THEN Existing(k) \ {g} ELSE Existing(k)
        BY <3>2, <3>3 DEF Existing, NoFile
      <4>3. clean'.extra = Existing(clean.kind)' \ Expected(meta, clean.kind)
        BY <2>1, <3>2, <4>1, <4>2, Zenon
      <4>4. clean.kind = "interval" => (Tidy("dimension") => Tidy("dimension")')
        BY <1>1, <4>2, KindType, Zenon DEF Tidy, Expected
      <4> QED BY <1>1, <2>1, <4>1, <4>3, <4>4, Zenon DEF UnracedInv, CleanInv, Expected
    <3> QED BY <3>5, <3>6, <3>7, Zenon DEF UnracedInv
  <2> QED BY <2>2, <2>3, Zenon
<1>9. CASE CleanEnds
  <2>1. UNCHANGED file /\ clean'.at = "idle"
    BY <1>9, Zenon DEF CleanEnds, Idle
  <2>2. CleanInv'
    BY <2>1, Zenon DEF CleanInv
  <2> QED BY <1>1, <1>2, <2>1, <2>2, CleanKeepsNames, Zenon DEF UnracedInv
<1> QED BY <1>3, <1>6, <1>7, <1>8, <1>9, Zenon

(* Once somebody raced it stays recorded, so a step that is not raced ends  *)
(* a history without races.                                                 *)
LEMMA UnracedKept ==
  ASSUME DirAssumption, SharedInv, SharedInv', raced \/ UnracedInv, [Next]_vars
  PROVE  raced' \/ UnracedInv'
<1> SUFFICES ASSUME ~raced' PROVE UnracedInv'
  BY Zenon
<1>1. CASE UNCHANGED vars
  <2>1. UnracedInv
    BY <1>1, Zenon DEF vars
  <2>2. NamedInv' /\ ReaderInv'
    BY <1>1, <2>1, Zenon DEF vars, UnracedInv, NamedInv, ReaderInv, ReaderOf, Named, Reading, DurableKept, Expected, Existing
  <2>3. HolderInv'
    <3>1. ASSUME NEW p \in Process, Holding(p)'
          PROVE  HolderOf(p)'
      <4>1. HolderOf(p)
        BY <1>1, <2>1, <3>1, Zenon DEF vars, UnracedInv, HolderInv, Holding, Flushing
      <4> QED BY <1>1, <4>1, HolderKept, Zenon DEF vars
    <3> QED BY <3>1, Zenon DEF HolderInv
  <2>4. CleanInv'
    BY <1>1, <2>1, Zenon DEF vars, UnracedInv, CleanInv, Tidy, Expected, Existing
  <2> QED BY <2>2, <2>3, <2>4, Zenon DEF UnracedInv
<1>2. CASE \E p \in Process : OpenDB(p) \/ LoadFiles(p) \/ DBDoesNotExist(p) \/ NewDB(p) \/ Exit(p)
  <2>1. ~raced
    BY <1>2, Zenon DEF OpenDB, LoadFiles, DBDoesNotExist, NewDB, Exit
  <2> QED BY <1>2, <2>1, OpenUnraced, Zenon
<1>3. CASE \E p \in Process : addFlock(p)
  <2>1. ~raced
    BY <1>3, Zenon DEF addFlock
  <2> QED BY <1>3, <2>1, FlockUnraced, Zenon
<1>4. CASE \E p \in Process : \E b \in Batch : Insert(p, b)
  <2>1. ~raced
    BY <1>4 DEF Insert
  <2> QED BY <1>4, <2>1, InsertUnraced, Zenon
<1>5. CASE \E p \in Process : FlushIntervals(p) \/ FlushDimensions(p)
  <2>1. ~raced
    BY <1>5, Zenon DEF FlushIntervals, FlushDimensions
  <2> QED BY <1>5, <2>1, FlushUnraced, Zenon
<1>6. CASE \E p \in Process : writeMetadataFile(p)
  <2>1. ~raced
    BY <1>6 DEF writeMetadataFile
  <2> QED BY <1>6, <2>1, MetadataUnraced, Zenon
<1>7. CASE \E p \in Process : RemoveOld(p) \/ cleanUpOldIntervals(p)
  <2>1. ~raced
    BY <1>7, Zenon DEF RemoveOld, cleanUpOldIntervals
  <2> QED BY <1>7, <2>1, RemoveUnraced, Zenon
<1>8. CASE CleanStart \/ Glob \/ Answer \/ Remove \/ CleanEnds
  <2>1. ~raced
    BY <1>8, Zenon DEF CleanStart, Glob, Answer, Remove, CleanEnds
  <2> QED BY <1>8, <2>1, CleanUnraced, Zenon
<1> QED BY <1>1, <1>2, <1>3, <1>4, <1>5, <1>6, <1>7, <1>8, Zenon DEF Next

(* When each process starts only after the others have ended, none races.   *)
LEMMA SequentialServer ==
  ASSUME DirAssumption, SharedInv, SharedInv', UnracedInv, SequentialInv, ~Overlap, NEW p \in Process,
         \/ OpenDB(p) \/ LoadFiles(p) \/ DBDoesNotExist(p) \/ NewDB(p) \/ addFlock(p)
         \/ Exit(p) \/ \E b \in Batch : Insert(p, b)
         \/ FlushIntervals(p) \/ FlushDimensions(p) \/ writeMetadataFile(p)
         \/ RemoveOld(p) \/ cleanUpOldIntervals(p)
  PROVE  SequentialInv'
<1>1. clean.at = "idle" /\ clean' = clean /\ \A q \in Process : Active(q) => q = p
  BY Zenon DEF SequentialInv, Active, MayStart, Alone, OpenDB, LoadFiles, DBDoesNotExist, NewDB,
         addFlock, Exit, Insert, FlushIntervals, FlushDimensions, writeMetadataFile, RemoveOld, cleanUpOldIntervals
<1>2. \A q \in Process \ {p} : phase'[q] = phase[q] /\ table'[q] = table[q]
  <2>1. CASE OpenDB(p) \/ LoadFiles(p) \/ DBDoesNotExist(p) \/ NewDB(p) \/ Exit(p)
    BY <2>1, SharedShape, Zenon DEF Shape, TableType, OpenDB, LoadFiles, DBDoesNotExist, NewDB, Exit
  <2>2. CASE addFlock(p) \/ (\E b \in Batch : Insert(p, b)) \/ writeMetadataFile(p)
    BY <2>2, SharedShape, Zenon DEF Shape, TableType, addFlock, Insert, writeMetadataFile
  <2>3. CASE FlushIntervals(p) \/ FlushDimensions(p) \/ RemoveOld(p) \/ cleanUpOldIntervals(p)
    BY <2>3, SharedShape, Zenon DEF Shape, TableType, FlushIntervals, FlushDimensions, RemoveOld, cleanUpOldIntervals
  <2> QED BY <2>1, <2>2, <2>3, Zenon
<1>3. \A q \in Process : Active(q)' => q = p
  BY <1>1, <1>2, Zenon DEF Active
<1>4. \A q \in Process : Reading(q)' => q = p
  BY <1>3, Zenon DEF Active, Reading
<1>5. ~raced'
  <2>1. CASE addFlock(p)
    <3>1. Reading(p)
      BY <2>1, Zenon DEF addFlock, Reading
    <3>2. table[p].gen = meta.gen
      BY <3>1, Zenon DEF SequentialInv
    <3> QED BY <1>1, <2>1, <3>2, Zenon DEF SequentialInv, addFlock
  <2> QED BY <2>1, Zenon DEF SequentialInv, OpenDB, LoadFiles, DBDoesNotExist, NewDB,
             Exit, Insert, FlushIntervals, FlushDimensions, writeMetadataFile, RemoveOld, cleanUpOldIntervals
<1>6. /\ Reading(p)' => table'[p].gen = meta'.gen
      /\ phase'[p] = "missing" => ~meta'.exists
      /\ ~Fresh /\ phase[p] # "fatal" => phase'[p] # "fatal"
  <2>1. CASE OpenDB(p) \/ DBDoesNotExist(p)
    BY <2>1, SharedShape DEF Shape, TableType, Reading, OpenDB, DBDoesNotExist
  <2>2. CASE LoadFiles(p)
    <3>1. table[p].gen = meta.gen
      BY <2>2, Zenon DEF SequentialInv, Reading, LoadFiles
    <3>2. \A k \in Kind : Expected(table[p], k) \subseteq Existing(k)
      BY <3>1, Zenon DEF UnracedInv, NamedInv, Expected
    <3>3. /\ phase' = [phase EXCEPT ![p] = "loaded"] /\ UNCHANGED meta
          /\ table' = [table EXCEPT ![p].rows = [k \in Kind |-> file[k][table[p].gen[k]].rows]]
      BY <2>2, <3>2, Zenon DEF LoadFiles
    <3> QED BY <3>1, <3>3, SharedShape, Zenon DEF Shape, TableType
  <2>3. CASE NewDB(p)
    <3>1. ~meta.exists /\ Fresh
      BY <2>3, Zenon DEF SequentialInv, SharedInv, NameInv, NewDB
    <3> QED BY <2>3, <3>1, SharedShape, Zenon DEF SharedInv, NameInv, Shape, TableType, NewDB
  <2>4. CASE addFlock(p) \/ Exit(p)
    BY <2>4, SharedShape, Zenon DEF Shape, TableType, Reading, addFlock, Exit
  <2>5. CASE \E b \in Batch : Insert(p, b)
    BY <2>5, Zenon DEF Reading, Insert
  <2>6. CASE FlushIntervals(p) \/ FlushDimensions(p)
    BY <2>6, SharedShape, Zenon DEF Shape, TableType, Reading, FlushIntervals, FlushDimensions
  <2>7. CASE writeMetadataFile(p) \/ RemoveOld(p) \/ cleanUpOldIntervals(p)
    BY <2>7, SharedShape, Zenon DEF Shape, TableType, Reading, writeMetadataFile, RemoveOld, cleanUpOldIntervals
  <2> QED BY <2>1, <2>2, <2>3, <2>4, <2>5, <2>6, <2>7, Zenon
<1>7. \A q \in Process : phase'[q] = "missing" => q = p
  BY <1>3, Zenon DEF Active
<1>8. ~Fresh => LaunchSucceeds'
  BY <1>2, <1>6, Zenon DEF SequentialInv, LaunchSucceeds
<1> QED BY <1>1, <1>3, <1>4, <1>5, <1>6, <1>7, <1>8, Zenon DEF SequentialInv

LEMMA SequentialKept ==
  ASSUME DirAssumption, DirInv, SharedInv', ~Overlap, [Next]_vars
  PROVE  SequentialInv'
<1>1. SharedInv /\ UnracedInv /\ SequentialInv
  BY Zenon DEF DirInv, SequentialInv
<1>2. CASE UNCHANGED vars
  BY <1>1, <1>2, Zenon DEF vars, SequentialInv, Active, Reading, LaunchSucceeds
<1>3. CASE CleanStart \/ Glob \/ Answer \/ Remove \/ CleanEnds
  <2>1. UNCHANGED <<meta, lock, phase, table>> /\ \A p \in Process : ~Active(p)
    BY <1>1, <1>3, Zenon DEF SequentialInv, Active, MayStart, Alone,
       CleanStart, Glob, Answer, Remove, CleanEnds
  <2>2. lock = Nobody
    BY <1>1, <2>1, OldTypes, Zenon DEF SharedInv, LockInv, Active, Holding, Flushing
  <2>3. ~raced'
    BY <1>1, <1>3, <2>2, Zenon DEF SequentialInv, CleanStart, Glob, Answer, Remove, CleanEnds
  <2> QED BY <1>1, <2>1, <2>3, Zenon DEF SequentialInv, Active, Reading, LaunchSucceeds
<1> QED BY <1>1, <1>2, <1>3, SequentialServer, Zenon DEF Next

LEMMA DirInductive ==
  ASSUME DirAssumption, DirInv, [Next]_vars
  PROVE  DirInv'
<1>1. SharedInv'
  BY SharedKept, Zenon DEF DirInv
<1> QED BY <1>1, UnracedKept, SequentialKept, Zenon DEF DirInv

LEMMA DirInvariant ==
  ASSUME DirAssumption
  PROVE  Spec => []DirInv
<1>1. Init => DirInv
  BY DirInitInv, Zenon
<1>2. DirInv /\ [Next]_vars => DirInv'
  BY DirInductive, Zenon
<1> QED BY <1>1, <1>2, PTL DEF Spec

(* db.go, flush.go and clean.go: whoever starts, dies, flushes and cleans   *)
(* beside whom, what was flushed stays in the files db.json names, unless a *)
(* process locked the directory with a table that db.json had left behind,  *)
(* or ran beside a clean.                                                   *)
THEOREM KeptUnlessRacedInvariant ==
  ASSUME DirAssumption
  PROVE  Spec => []KeptUnlessRaced
<1>1. DirInv => KeptUnlessRaced
  BY Zenon DEF DirInv, UnracedInv, NamedInv, KeptUnlessRaced
<1> QED BY <1>1, DirInvariant, PTL

(* server.go, Flush: a restart returns to a consistent state with what the  *)
(* last successful flush saved, after any sequence of launches, crashes at  *)
(* any point of a flush and cleans, each begun when the one before ended.   *)
THEOREM DurableKeptInvariant ==
  ASSUME DirAssumption, ~Overlap
  PROVE  Spec => []DurableKept
<1>1. DirInv => DurableKept
  BY Zenon DEF DirInv, SequentialInv, UnracedInv, NamedInv
<1> QED BY <1>1, DirInvariant, PTL

(* clean.go: after the same sequences a clean whose questions are answered  *)
(* yes leaves exactly the files db.json names, and the database opens.      *)
THEOREM CleanRepairsInvariant ==
  ASSUME DirAssumption, ~Overlap, ~Fresh
  PROVE  Spec => [](CleanRepairs /\ LaunchSucceeds)
<1>1. DirInv => CleanRepairs /\ LaunchSucceeds
  <2> SUFFICES ASSUME DirInv PROVE CleanRepairs /\ LaunchSucceeds
    BY Zenon
  <2>1. SharedInv /\ UnracedInv /\ SequentialInv
    BY Zenon DEF DirInv, SequentialInv
  <2>2. CleanRepairs
    BY <2>1, KindType, Zenon DEF SharedInv, NameInv, UnracedInv, CleanInv, Tidy, CleanRepairs
  <2> QED BY <2>1, <2>2, Zenon DEF SequentialInv
<1> QED BY <1>1, DirInvariant, PTL
=============================================================================
