---------------------------- MODULE DatabaseDir ----------------------------
(***************************************************************************)
(* One database directory used by several processes: servers that open or  *)
(* create the database (db.go), take the flock, insert, flush and exit at  *)
(* any moment, and a `gumtool clean' that removes the files db.json does    *)
(* not name.  GumshoeDB.tla models the inside of one flush; here a flush    *)
(* is its writes to the directory, in order, and the question is what       *)
(* other processes may do between them.                                     *)
(*                                                                         *)
(* The database has one interval and one string dimension, so a file is a   *)
(* kind and a generation; its content is the set of row batches in it, and  *)
(* of a dimension file the batches whose dimension value it has.            *)
(***************************************************************************)
EXTENDS Integers, FiniteSets

CONSTANTS
    Process,    \* the server processes, and successive launches of them
    Batch,      \* batches of rows that clients insert
    Value,      \* the dimension value of the rows of each batch
    MaxGen,     \* bound on generations
    MaxCleans,  \* bound on runs of gumtool clean
    Fresh,      \* TRUE: the directory starts without a database
    Overlap,    \* TRUE: a process or a clean may start while others run
    Nobody      \* the lock is free

DirAssumption ==
    /\ MaxGen \in Nat \ {0} /\ MaxCleans \in Nat
    /\ Fresh \in BOOLEAN /\ Overlap \in BOOLEAN
    /\ Nobody \notin Process

VARIABLES
    meta,       \* db.json: whether it exists and the generations it names
    file,       \* per kind and generation: the file, if it exists, and its rows
    lock,       \* the flock on the directory
    phase,      \* per process: where it is in loadDB and in its flush
    table,      \* per process: its StaticTable, a generation per kind and its rows
    mem,        \* per process: the batches of its memTable
    inserted,   \* batches some server has accepted
    durable,    \* batches of flushes that wrote their metadata
    clean,      \* the running gumtool clean
    cleans,     \* runs of gumtool clean so far
    raced       \* a process took the lock with an old table, or beside a clean

vars == <<meta, file, lock, phase, table, mem, inserted, durable, clean, cleans, raced>>

Kind == {"dimension", "interval"}
Gens == -1 .. MaxGen          \* -1: the StaticTable has no such interval
NoFile == [exists |-> FALSE, rows |-> {}]
File(rows) == [exists |-> TRUE, rows |-> rows]
NoTable == [gen |-> [k \in Kind |-> IF k = "interval" THEN -1 ELSE 0], rows |-> [k \in Kind |-> {}]]
NoMeta == [exists |-> FALSE, gen |-> NoTable.gen]

(* A dimension table of generation 0 and an absent interval have no file. *)
HasFile(k, g) == IF k = "dimension" THEN g > 0 ELSE g >= 0
Existing(k) == {g \in Gens : file[k][g].exists}
Expected(m, k) == {g \in {m.gen[k]} : HasFile(k, g)}

Idle == [at |-> "idle", gen |-> NoTable.gen, kind |-> "dimension", extra |-> {}, declined |-> FALSE]

Init ==
    /\ meta = IF Fresh THEN NoMeta ELSE [exists |-> TRUE, gen |-> NoTable.gen]
    /\ file = [k \in Kind |-> [g \in Gens |-> NoFile]]
    /\ lock = Nobody
    /\ phase = [p \in Process |-> "off"]
    /\ table = [p \in Process |-> NoTable]
    /\ mem = [p \in Process |-> {}]
    /\ inserted = {} /\ durable = {}
    /\ clean = Idle /\ cleans = 0 /\ raced = FALSE

Alone == clean.at = "idle" /\ \A p \in Process : phase[p] \in {"off", "fatal"}
MayStart == Overlap \/ Alone

diskVars == <<meta, file>>
procVars == <<lock, phase, table, mem, inserted, durable>>
cleanVars == <<clean, cleans, raced>>

-----------------------------------------------------------------------------
(* loadDB.  openDBDir reads db.json, then maps every file it names, and only then takes the flock. *)
OpenDB(p) ==
    /\ phase[p] = "off" /\ MayStart /\ meta.exists
    /\ phase' = [phase EXCEPT ![p] = "reading"]
    /\ table' = [table EXCEPT ![p].gen = meta.gen]
    /\ UNCHANGED <<diskVars, cleanVars, lock, mem, inserted, durable>>

LoadFiles(p) ==
    /\ phase[p] = "reading"
    /\ IF \A k \in Kind : Expected(table[p], k) \subseteq Existing(k)
       THEN /\ phase' = [phase EXCEPT ![p] = "loaded"]
            /\ table' = [table EXCEPT ![p].rows = [k \in Kind |-> file[k][table[p].gen[k]].rows]]
       ELSE phase' = [phase EXCEPT ![p] = "fatal"] /\ UNCHANGED table
    /\ UNCHANGED <<diskVars, cleanVars, lock, mem, inserted, durable>>

DBDoesNotExist(p) ==
    /\ phase[p] = "off" /\ MayStart /\ ~meta.exists
    /\ phase' = [phase EXCEPT ![p] = "missing"]
    /\ UNCHANGED <<diskVars, cleanVars, lock, table, mem, inserted, durable>>

(* NewDB looks for *.json and *.dat files, and again locks only afterwards. *)
NewDB(p) ==
    /\ phase[p] = "missing"
    /\ phase' = [phase EXCEPT ![p] =
         IF meta.exists \/ Existing("interval") # {} THEN "fatal" ELSE "loaded"]
    /\ table' = [table EXCEPT ![p] = NoTable]
    /\ UNCHANGED <<diskVars, cleanVars, lock, mem, inserted, durable>>

addFlockIgnored(p) ==    \* mutant: the error of flock is dropped
    /\ phase[p] = "loaded"
    /\ lock' = p /\ phase' = [phase EXCEPT ![p] = "up"]
    /\ raced' = (raced \/ table[p].gen # meta.gen \/ clean.at # "idle")
    /\ UNCHANGED <<diskVars, clean, cleans, table, mem, inserted, durable>>

addFlock(p) ==
    /\ phase[p] = "loaded"
    /\ IF lock = Nobody
       THEN /\ lock' = p /\ phase' = [phase EXCEPT ![p] = "up"]
            /\ raced' = (raced \/ table[p].gen # meta.gen \/ clean.at # "idle")
            /\ UNCHANGED table
       ELSE /\ phase' = [phase EXCEPT ![p] = "off"] /\ table' = [table EXCEPT ![p] = NoTable]   \* Log.Fatal
            /\ UNCHANGED <<lock, raced>>
    /\ UNCHANGED <<diskVars, clean, cleans, mem, inserted, durable>>

-----------------------------------------------------------------------------
Insert(p, b) ==
    /\ phase[p] = "up" /\ b \notin inserted
    /\ mem' = [mem EXCEPT ![p] = @ \cup {b}]
    /\ inserted' = inserted \cup {b}
    /\ UNCHANGED <<diskVars, cleanVars, lock, phase, table, durable>>

(* The rows whose dimension value is the value of one of these batches.  A  *)
(* dimension table in which the memTable has no new value is used again.    *)
Known(batches) == {b \in Batch : \E c \in batches : Value[b] = Value[c]}
Changed(p, k) == IF k = "interval" THEN mem[p] # {} ELSE ~(mem[p] \subseteq table[p].rows[k])

NextGen(p, k) == IF Changed(p, k) THEN table[p].gen[k] + 1 ELSE table[p].gen[k]
NewRows(p, k) ==
    IF k = "interval" THEN table[p].rows[k] \cup mem[p]
    ELSE IF Changed(p, k) THEN Known(table[p].rows[k] \cup mem[p]) ELSE table[p].rows[k]

Write(p, k) ==
    file' = IF Changed(p, k) THEN [file EXCEPT ![k][NextGen(p, k)] = File(NewRows(p, k))] ELSE file

RemoveFile(p, k) ==
    file' = IF Changed(p, k) THEN [file EXCEPT ![k][table[p].gen[k]] = NoFile] ELSE file

FlushIntervals(p) ==
    /\ phase[p] = "up" /\ \A k \in Kind : NextGen(p, k) <= MaxGen
    /\ Write(p, "interval")
    /\ phase' = [phase EXCEPT ![p] = "dims"]
    /\ UNCHANGED <<meta, cleanVars, lock, table, mem, inserted, durable>>

FlushDimensions(p) ==
    /\ phase[p] = "dims"
    /\ Write(p, "dimension")
    /\ phase' = [phase EXCEPT ![p] = "metadata"]
    /\ UNCHANGED <<meta, cleanVars, lock, table, mem, inserted, durable>>

writeMetadataFile(p) ==
    /\ phase[p] = "metadata"
    /\ meta' = [exists |-> TRUE, gen |-> [k \in Kind |-> NextGen(p, k)]]
    /\ durable' = durable \cup mem[p]
    /\ phase' = [phase EXCEPT ![p] = "remove"]
    /\ UNCHANGED <<file, cleanVars, lock, table, mem, inserted>>

(* The files of the previous generation are removed one by one, the         *)
(* dimension table's first, and then the memTable is replaced.              *)
RemoveOldEarly(p) ==    \* mutant: the old file may go before the metadata is written
    /\ phase[p] \in {"metadata", "remove"}
    /\ RemoveFile(p, "dimension")
    /\ UNCHANGED <<meta, cleanVars, procVars>>

RemoveOld(p) ==
    /\ phase[p] = "remove"
    /\ RemoveFile(p, "dimension")
    /\ phase' = [phase EXCEPT ![p] = "cleanup"]
    /\ UNCHANGED <<meta, cleanVars, lock, table, mem, inserted, durable>>

cleanUpOldIntervals(p) ==
    /\ phase[p] = "cleanup"
    /\ RemoveFile(p, "interval")
    /\ table' = [table EXCEPT ![p] =
         [gen |-> [k \in Kind |-> NextGen(p, k)], rows |-> [k \in Kind |-> NewRows(p, k)]]]
    /\ mem' = [mem EXCEPT ![p] = {}]
    /\ phase' = [phase EXCEPT ![p] = "up"]
    /\ UNCHANGED <<meta, cleanVars, lock, inserted, durable>>

(* os.Exit on a flush error, on a signal or a crash: the kernel drops the flock. *)
Exit(p) ==
    /\ phase[p] \notin {"off", "fatal"}
    /\ phase' = [phase EXCEPT ![p] = "off"]
    /\ table' = [table EXCEPT ![p] = NoTable]
    /\ mem' = [mem EXCEPT ![p] = {}]
    /\ lock' = IF lock = p THEN Nobody ELSE lock
    /\ UNCHANGED <<diskVars, cleanVars, inserted, durable>>

-----------------------------------------------------------------------------
(* gumtool clean takes no lock.  It reads db.json once ... *)
CleanStart ==
    /\ clean.at = "idle" /\ cleans < MaxCleans /\ MayStart
    /\ cleans' = cleans + 1 /\ raced' = (raced \/ lock # Nobody)
    /\ clean' = [Idle EXCEPT !.at = IF meta.exists THEN "glob" ELSE "fatal", !.gen = meta.gen]
    /\ UNCHANGED <<diskVars, procVars>>

(* ... then lists the files of each kind in turn and asks before removing the extra ones. *)
After(k) == IF k = "dimension" THEN [clean EXCEPT !.at = "glob", !.kind = "interval", !.extra = {}]
            ELSE [clean EXCEPT !.at = "done", !.extra = {}]

ExtraOlder(k) == {g \in Existing(k) : \A e \in Expected(clean, k) : g < e}   \* mutant
Extra(k) == Existing(k) \ Expected(clean, k)

Glob ==
    /\ clean.at = "glob"
    /\ clean' = IF Extra(clean.kind) = {} THEN After(clean.kind)
                ELSE [clean EXCEPT !.at = "ask", !.extra = Extra(clean.kind)]
    /\ UNCHANGED <<diskVars, procVars, cleans, raced>>

Answer ==
    /\ clean.at = "ask"
    /\ clean' \in {[clean EXCEPT !.at = "remove"], [After(clean.kind) EXCEPT !.declined = TRUE]}
    /\ UNCHANGED <<diskVars, procVars, cleans, raced>>

Remove ==
    /\ clean.at = "remove"
    /\ IF clean.extra = {} THEN clean' = After(clean.kind) /\ UNCHANGED file
       ELSE \E g \in clean.extra :
              IF file[clean.kind][g].exists
              THEN /\ file' = [file EXCEPT ![clean.kind][g] = NoFile]
                   /\ clean' = [clean EXCEPT !.extra = @ \ {g}]
              ELSE clean' = [clean EXCEPT !.at = "fatal"] /\ UNCHANGED file
    /\ UNCHANGED <<meta, procVars, cleans, raced>>

CleanEnds ==
    /\ clean.at \in {"done", "fatal"}
    /\ clean' = Idle
    /\ UNCHANGED <<diskVars, procVars, cleans, raced>>

Next ==
    \/ \E p \in Process :
         \/ OpenDB(p) \/ LoadFiles(p) \/ DBDoesNotExist(p) \/ NewDB(p) \/ addFlock(p) \/ Exit(p)
         \/ \E b \in Batch : Insert(p, b)
         \/ FlushIntervals(p) \/ FlushDimensions(p) \/ writeMetadataFile(p)
         \/ RemoveOld(p) \/ cleanUpOldIntervals(p)
    \/ CleanStart \/ Glob \/ Answer \/ Remove \/ CleanEnds

Spec == Init /\ [][Next]_vars

-----------------------------------------------------------------------------
(* The types of the state. *)
TypeOK ==
    /\ meta \in [exists: BOOLEAN, gen: [Kind -> Gens]]
    /\ file \in [Kind -> [Gens -> [exists: BOOLEAN, rows: SUBSET Batch]]]
    /\ lock \in Process \cup {Nobody}
    /\ phase \in [Process -> {"off", "missing", "reading", "loaded", "up", "dims", "metadata", "remove",
                            "cleanup", "fatal"}]
    /\ table \in [Process -> [gen: [Kind -> Gens], rows: [Kind -> SUBSET Batch]]]
    /\ mem \in [Process -> SUBSET Batch]
    /\ durable \subseteq inserted /\ inserted \subseteq Batch
    /\ clean \in [at: {"idle", "glob", "ask", "remove", "done", "fatal"}, gen: [Kind -> Gens],
                  kind: Kind, extra: SUBSET Gens, declined: BOOLEAN]
    /\ cleans \in 0 .. MaxCleans /\ raced \in BOOLEAN

(* server.go's Flush: a restart "will return us to a consistent state (but  *)
(* missing any data since the previous successful flush)": whatever ran on  *)
(* the directory, the files db.json names hold every batch whose flush      *)
(* completed, the interval's rows and the dimension values they index.      *)
DurableKept ==
    \A k \in Kind : durable \subseteq file[k][meta.gen[k]].rows

(* Servers and cleans may start at any moment, beside others: as long as no *)
(* process got the lock with a table that db.json had left behind, and none *)
(* ran beside a clean, the flock is enough to keep what was flushed.        *)
KeptUnlessRaced == raced \/ DurableKept

(* flush's comment: the metadata is "the source of truth for which segments *)
(* should be used and which discarded.  'gumtool clean' can perform this    *)
(* task".  When clean ends and every question was answered yes, exactly the *)
(* files db.json names are left.                                            *)
CleanRepairs ==
    clean.at \in {"done", "fatal"} /\ ~clean.declined =>
        \A k \in Kind : Existing(k) = Expected(meta, k)

(* Launching a server on a saved database never fails, whenever the last    *)
(* one died and whatever clean removed in between.                          *)
LaunchSucceeds == \A p \in Process : phase[p] # "fatal"
=============================================================================
