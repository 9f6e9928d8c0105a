------------------------------ MODULE Balance ------------------------------
(* gumtool balance: redistributes the intervals of the source databases     *)
(* over the destinations, with commands run on their hosts over SSH         *)
(* (src/gumtool/balance.go).                                                *)
(*                                                                          *)
(* A source is [host, intervals] and a destination [host, config]; they are *)
(* numbered as on the command line.  The rows of an interval of a source    *)
(* are <<source, interval>>.  Directories are named by what is in them.     *)
EXTENDS Integers, Sequences

CONSTANTS sources, dests,   (* sequences                                    *)
          CommandsFail      (* whether a command or a connection may fail   *)

Source == DOMAIN sources

Dest == DOMAIN dests

(* The map partialsByDest has destinations as keys: they are given once.    *)
BalanceAssumption ==
    /\ sources \in Seq([host: STRING, intervals: SUBSET Nat]) /\ sources # <<>>
    /\ dests \in Seq([host: STRING, config: STRING]) /\ dests # <<>>
    /\ \A c, d \in Dest : dests[c] = dests[d] => c = d

uniqueHosts == {sources[s].host : s \in Source} \cup {dests[d].host : d \in Dest}

VARIABLES phase,            (* the numbered step balance is in              *)
          clientCache,      (* hosts with an open connection                *)
          workDirs,         (* hosts with a work directory                  *)
          partials,         (* <<host, name>> -> the rows in a directory    *)
          archives,         (* <<host, name>> -> the rows in a .tgz         *)
          pc,               (* source goroutines, then destination ones     *)
          index,            (* the i of PreparePartials' loop, by source    *)
          partialsByDest,   (* destination -> sources with a partial for it *)
          shards            (* destination -> the rows of its new database  *)

vars == <<phase, clientCache, workDirs, partials, archives, pc, index, partialsByDest, shards>>

Put(f, k, v) == [x \in DOMAIN f \cup {k} |-> IF x = k THEN v ELSE f[x]]

PartialName(s, d) == [source |-> sources[s].host, dest |-> dests[d].host]

(* The destination of an interval; Go's indices count from zero.            *)
DestOf(t) == (t % Len(dests)) + 1

MakePartialDBs(s) == [d \in Dest |-> {<<s, t>> : t \in {i \in sources[s].intervals : DestOf(i) = d}}]

Init ==
    /\ phase = "load" /\ clientCache = {} /\ workDirs = {} /\ partials = <<>> /\ archives = <<>>
    /\ pc = [s \in Source |-> "off"] /\ index = [s \in Source |-> 1]
    /\ partialsByDest = [d \in Dest |-> {}] /\ shards = [d \in Dest |-> {}]

(* log.Fatal in any goroutine ends the process: what is on the hosts stays. *)
Fatal == phase' = "fatal" /\ UNCHANGED <<clientCache, workDirs, partials, archives, pc, index, partialsByDest, shards>>

(* Steps 1 and 2: read every db.json and every configuration.  This opens   *)
(* the connections that the goroutines use later.                           *)
Load ==
    /\ phase = "load"
    /\ clientCache' = uniqueHosts /\ phase' = "mkdir"
    /\ UNCHANGED <<workDirs, partials, archives, pc, index, partialsByDest, shards>>

MakeWorkDirs ==
    /\ phase = "mkdir"
    /\ workDirs' = uniqueHosts
    /\ phase' = "prepare"
    /\ pc' = [s \in Source |-> "mkdir"]
    /\ UNCHANGED <<clientCache, partials, archives, index, partialsByDest, shards>>

-----------------------------------------------------------------------------
(* Step 3: PreparePartials, one goroutine for each source.                  *)

PrepareStep(s) == phase = "prepare" /\ index[s] \in Dest /\ MakePartialDBs(s)[index[s]] # {}

(* A partial that is nil is passed over.                                    *)
NilPartial(s) ==
    /\ phase = "prepare" /\ pc[s] = "mkdir" /\ index[s] \in Dest /\ MakePartialDBs(s)[index[s]] = {}
    /\ index' = [index EXCEPT ![s] = @ + 1]
    /\ UNCHANGED <<phase, clientCache, workDirs, partials, archives, pc, partialsByDest, shards>>

(* mkdir fails when the directory is there.                                 *)
MakePartialDir(s) ==
    LET dir == <<sources[s].host, PartialName(s, index[s])>>
    IN  /\ PrepareStep(s) /\ pc[s] = "mkdir"
        /\ IF dir \in DOMAIN partials THEN Fatal
           ELSE /\ partials' = Put(partials, dir, {})
                /\ pc' = [pc EXCEPT ![s] = "copy"]
                /\ UNCHANGED <<phase, clientCache, workDirs, archives, index, partialsByDest, shards>>

(* Segment files, dimension files, and db.json last.                        *)
CopyFiles(s) ==
    LET d == index[s]
        dir == <<sources[s].host, PartialName(s, d)>>
    IN  /\ PrepareStep(s) /\ pc[s] = "copy"
        /\ partials' = [partials EXCEPT ![dir] = @ \cup MakePartialDBs(s)[d]]
        /\ IF sources[s].host = dests[d].host
           THEN pc' = [pc EXCEPT ![s] = "mkdir"] /\ index' = [index EXCEPT ![s] = @ + 1]
           ELSE pc' = [pc EXCEPT ![s] = "send"] /\ UNCHANGED index
        /\ UNCHANGED <<phase, clientCache, workDirs, archives, partialsByDest, shards>>

(* tar and scp.                                                             *)
SendArchive(s) ==
    LET d == index[s]
    IN  /\ PrepareStep(s) /\ pc[s] = "send"
        /\ archives' = Put(archives, <<dests[d].host, PartialName(s, d)>>,
                           partials[<<sources[s].host, PartialName(s, d)>>])
        /\ pc' = [pc EXCEPT ![s] = "mkdir"] /\ index' = [index EXCEPT ![s] = @ + 1]
        /\ UNCHANGED <<phase, clientCache, workDirs, partials, partialsByDest, shards>>

(* The goroutine enters its partials under the mutex.                       *)
Prepared(s) ==
    /\ phase = "prepare" /\ index[s] = Len(dests) + 1 /\ pc[s] = "mkdir"
    /\ partialsByDest' = [d \in Dest |-> IF MakePartialDBs(s)[d] # {} THEN partialsByDest[d] \cup {s}
                                         ELSE partialsByDest[d]]
    /\ pc' = [pc EXCEPT ![s] = "done"]
    /\ UNCHANGED <<phase, clientCache, workDirs, partials, archives, index, shards>>

WaitSourcesNot ==
    /\ phase = "prepare" /\ \E s \in Source : pc[s] = "done"
    /\ phase' = "merge"
    /\ pc' = [d \in Dest |-> "extract"]
    /\ UNCHANGED <<clientCache, workDirs, partials, archives, index, partialsByDest, shards>>

WaitSources ==
    /\ phase = "prepare" /\ \A s \in Source : pc[s] = "done"
    /\ phase' = "merge"
    /\ pc' = [d \in Dest |-> "extract"]
    /\ UNCHANGED <<clientCache, workDirs, partials, archives, index, partialsByDest, shards>>

-----------------------------------------------------------------------------
(* Step 4: MergeDBs, one goroutine for each destination.                    *)

Extract(d) ==
    LET remote == {s \in partialsByDest[d] : sources[s].host # dests[d].host}
        names == {<<dests[d].host, PartialName(s, d)>> : s \in remote}
    IN  /\ phase = "merge" /\ pc[d] = "extract"
        /\ partials' = [x \in DOMAIN partials \cup names |-> IF x \in names THEN archives[x] ELSE partials[x]]
        /\ pc' = [pc EXCEPT ![d] = "merge"]
        /\ UNCHANGED <<phase, clientCache, workDirs, archives, index, partialsByDest, shards>>

(* gumtool merge wants at least one database.                               *)
MergeDBs(d) ==
    /\ phase = "merge" /\ pc[d] = "merge"
    /\ IF partialsByDest[d] = {} THEN Fatal
       ELSE /\ shards' = [shards EXCEPT ![d] =
                             UNION {partials[<<dests[d].host, PartialName(s, d)>>] : s \in partialsByDest[d]}]
            /\ pc' = [pc EXCEPT ![d] = "done"]
            /\ UNCHANGED <<phase, clientCache, workDirs, partials, archives, index, partialsByDest>>

RemoveWorkDirsEarly ==
    /\ phase = "merge" /\ \E d \in Dest : pc[d] = "done"
    /\ workDirs' = {} /\ partials' = <<>> /\ archives' = <<>> /\ phase' = "done"
    /\ UNCHANGED <<clientCache, pc, index, partialsByDest, shards>>

RemoveWorkDirs ==
    /\ phase = "merge" /\ \A d \in Dest : pc[d] = "done"
    /\ workDirs' = {} /\ partials' = <<>> /\ archives' = <<>> /\ phase' = "done"
    /\ UNCHANGED <<clientCache, pc, index, partialsByDest, shards>>

CommandFails == CommandsFail /\ phase \notin {"done", "fatal"} /\ Fatal

Returned == phase \in {"done", "fatal"} /\ UNCHANGED vars

Next ==
    \/ Load \/ MakeWorkDirs \/ WaitSources \/ RemoveWorkDirs \/ CommandFails \/ Returned
    \/ \E s \in Source : NilPartial(s) \/ MakePartialDir(s) \/ CopyFiles(s) \/ SendArchive(s) \/ Prepared(s)
    \/ \E d \in Dest : Extract(d) \/ MergeDBs(d)

Spec == Init /\ [][Next]_vars

-----------------------------------------------------------------------------
AllRows == UNION {{<<s, t>> : t \in sources[s].intervals} : s \in Source}

(* When balance reports success every row of the sources is in exactly one  *)
(* destination, that of its interval: rows of one interval come together.   *)
BalancedExactly ==
    phase = "done" =>
        /\ UNION {shards[d] : d \in Dest} = AllRows
        /\ \A c, d \in Dest : c # d => \A r \in shards[c], q \in shards[d] : r[2] # q[2]
        /\ \A d \in Dest : \A q \in shards[d] : q[2] % Len(dests) = d - 1

(* The goroutines only read the maps of connections, which no lock          *)
(* protects: every connection they ask for was opened before they started.  *)
CachesRead ==
    phase \in {"prepare", "merge"} => uniqueHosts \subseteq clientCache

(* A merge never runs on a partial that is not complete, whatever the order *)
(* of the goroutines.                                                       *)
PartialsComplete ==
    \A d \in Dest : phase = "merge" /\ shards'[d] # shards[d] =>
        shards'[d] = UNION {MakePartialDBs(s)[d] : s \in Source}
=============================================================================
