----------------------------- MODULE SftpClient -----------------------------
(***************************************************************************)
(* Requests of the SFTP client (pkg/sftp/client.go) by which gumtool reaches  *)
(* remote databases: sendRequest, which sends and receives in a goroutine of   *)
(* its own and hands every reply to whoever asked for it, and what each        *)
(* operation makes of its reply.                                             *)
(*                                                                         *)
(* The server answers requests in any order and may refuse any of them; the    *)
(* stream to it may end at any time where MayFail.                            *)
(***************************************************************************)
EXTENDS Integers, Sequences, FiniteSets

CONSTANTS
    Callers,    \* goroutines that call operations of the Client
    Ops,        \* the operations they call
    MaxReq,     \* bound on the number of requests
    MayFail     \* TRUE: the connection may be lost

Operations == {"open", "opendir", "Lstat", "fstat", "ReadLink", "readAt", "writeAt", "close", "setstat",
               "removeFile", "removeDirectory", "Rename", "Mkdir", "StatVFS"}

SftpAssumption == MaxReq \in Nat /\ MayFail \in BOOLEAN /\ Ops \subseteq Operations

VARIABLES
    nextid,
    op,         \* the operation of each request
    inflight,   \* ids whose channel is in c.inflight
    mu,         \* the request whose goroutine holds c.mu, or 0
    goroutine,  \* of each request: where it is and what it hands over to whom
    caller,     \* idle, or waiting for the result of a request
    asked,      \* requests the server has not answered
    replies,    \* replies in the stream from the server
    conn,       \* the stream: "up" or "lost"
    outcome     \* per request: what the server did, and what the caller was told

vars == <<nextid, op, inflight, mu, goroutine, caller, asked, replies, conn, outcome>>

Ids == 1 .. MaxReq
NoReply == [id |-> 0, typ |-> "none", code |-> "none"]

Init ==
    /\ nextid = 0
    /\ op = [i \in Ids |-> "none"]
    /\ inflight = {}
    /\ mu = 0
    /\ goroutine = [i \in Ids |-> [pc |-> "none", to |-> 0, reply |-> NoReply]]
    /\ caller = [c \in Callers |-> 0]
    /\ asked = {}
    /\ replies = <<>>
    /\ conn = "up"
    /\ outcome = [i \in Ids |-> [did |-> "none", told |-> "none"]]

-----------------------------------------------------------------------------
(* What an operation makes of a reply: "nil" for success, or its error. *)
checkId(id, r, v) == IF r.id # id THEN "unexpectedId" ELSE v
unmarshalStatus(id, r) == checkId(id, r, r.code)
okOrErr(e) == IF e = "OK" THEN "nil" ELSE e
eofOrErr(e) == IF e = "EOF" THEN "io.EOF" ELSE e

expect(typ, id, r) ==
    CASE r.typ = typ -> checkId(id, r, "nil")
      [] r.typ = "STATUS" -> unmarshalStatus(id, r)
      [] OTHER -> "unimplemented"
expectStatus(id, r) ==
    IF r.typ = "STATUS" THEN okOrErr(unmarshalStatus(id, r)) ELSE "unimplemented"

open(id, r) == expect("HANDLE", id, r)
opendir(id, r) == expect("HANDLE", id, r)
Lstat(id, r) == expect("ATTRS", id, r)
fstat(id, r) == expect("ATTRS", id, r)
ReadLink(id, r) == expect("NAME", id, r)
readAt(id, r) == eofOrErr(expect("DATA", id, r))
writeAt(id, r) == expectStatus(id, r)
close(id, r) == expectStatus(id, r)
setstat(id, r) == expectStatus(id, r)
removeFile(id, r) == expectStatus(id, r)
removeDirectory(id, r) == expectStatus(id, r)
Rename(id, r) == expectStatus(id, r)
Mkdir(id, r) == expectStatus(id, r)
StatVFS(id, r) ==      \* without a look at the id
    CASE r.typ = "EXTENDED_REPLY" -> "nil"
      [] r.typ = "STATUS" -> "STATUS"
      [] OTHER -> "unimplemented"

result(o, id, r) ==
    CASE o = "open" -> open(id, r)            [] o = "opendir" -> opendir(id, r)
      [] o = "Lstat" -> Lstat(id, r)          [] o = "fstat" -> fstat(id, r)
      [] o = "ReadLink" -> ReadLink(id, r)    [] o = "readAt" -> readAt(id, r)
      [] o = "writeAt" -> writeAt(id, r)      [] o = "close" -> close(id, r)
      [] o = "setstat" -> setstat(id, r)      [] o = "removeFile" -> removeFile(id, r)
      [] o = "removeDirectory" -> removeDirectory(id, r)
      [] o = "Rename" -> Rename(id, r)        [] o = "Mkdir" -> Mkdir(id, r)
      [] o = "StatVFS" -> StatVFS(id, r)

(* The type of reply with which a server reports success. *)
SuccessType(o) ==
    CASE o \in {"open", "opendir"} -> "HANDLE"
      [] o \in {"Lstat", "fstat"} -> "ATTRS"
      [] o = "ReadLink" -> "NAME"
      [] o = "readAt" -> "DATA"
      [] o = "StatVFS" -> "EXTENDED_REPLY"
      [] OTHER -> "STATUS"

-----------------------------------------------------------------------------
(* An operation takes an id and starts sendRequest. *)
Call(c, o) ==
    /\ caller[c] = 0 /\ nextid < MaxReq
    /\ nextid' = nextid + 1
    /\ op' = [op EXCEPT ![nextid + 1] = o]
    /\ caller' = [caller EXCEPT ![c] = nextid + 1]
    /\ goroutine' = [goroutine EXCEPT ![nextid + 1].pc = "send"]
    /\ UNCHANGED <<inflight, mu, asked, replies, conn, outcome>>

give(i, to, r) == goroutine' = [goroutine EXCEPT ![i] = [pc |-> "give", to |-> to, reply |-> r]]
Failed == [id |-> 0, typ |-> "error", code |-> "error"]

(* The first half of the goroutine: register, send. *)
SendPacket(i) ==
    /\ goroutine[i].pc = "send" /\ mu = 0
    /\ inflight' = inflight \cup {i}
    /\ IF conn = "lost" THEN give(i, i, Failed) /\ UNCHANGED asked
       ELSE /\ asked' = asked \cup {i}
            /\ goroutine' = [goroutine EXCEPT ![i].pc = "lock"]
    /\ UNCHANGED <<nextid, op, mu, caller, replies, conn, outcome>>

(* The second half: one packet is received with c.mu held. *)
Lock(i) ==
    /\ goroutine[i].pc = "lock" /\ mu = 0
    /\ mu' = i
    /\ goroutine' = [goroutine EXCEPT ![i].pc = "recv"]
    /\ UNCHANGED <<nextid, op, inflight, caller, asked, replies, conn, outcome>>

recvPacketOwn(i) ==      \* mutant: what arrives is taken for the own reply
    /\ goroutine[i].pc = "recv"
    /\ IF replies # <<>>
       THEN /\ replies' = Tail(replies)
            /\ inflight' = inflight \ {Head(replies).id}
            /\ give(i, i, Head(replies))
       ELSE conn = "lost" /\ give(i, i, Failed) /\ UNCHANGED <<replies, inflight>>
    /\ mu' = 0
    /\ UNCHANGED <<nextid, op, caller, asked, conn, outcome>>

recvPacket(i) ==
    /\ goroutine[i].pc = "recv"
    /\ IF replies # <<>>
       THEN LET r == Head(replies) IN
            /\ replies' = Tail(replies)
            /\ inflight' = inflight \ {r.id}
            /\ IF r.id \in inflight THEN give(i, r.id, r) ELSE give(i, i, Failed)
       ELSE conn = "lost" /\ give(i, i, Failed) /\ UNCHANGED <<replies, inflight>>
    /\ mu' = 0
    /\ UNCHANGED <<nextid, op, caller, asked, conn, outcome>>

(* The channels have no buffer: a result is handed to a caller that waits. *)
Receive(i, c) ==
    LET to == goroutine[i].to  r == goroutine[i].reply
    IN  /\ goroutine[i].pc = "give" /\ to # 0 /\ caller[c] = to
        /\ goroutine' = [goroutine EXCEPT ![i] = [pc |-> "end", to |-> 0, reply |-> NoReply]]
        /\ caller' = [caller EXCEPT ![c] = 0]
        /\ outcome' = [outcome EXCEPT ![to].told = IF r = Failed THEN "error" ELSE result(op[to], to, r)]
        /\ UNCHANGED <<nextid, op, inflight, mu, asked, replies, conn>>

(* The server. *)
Respond(i, ok) ==
    /\ i \in asked /\ conn = "up"
    /\ asked' = asked \ {i}
    /\ replies' = Append(replies, [id |-> i, typ |-> IF ok THEN SuccessType(op[i]) ELSE "STATUS",
                                   code |-> IF ok THEN "OK" ELSE "FAILURE"])
    /\ outcome' = [outcome EXCEPT ![i].did = IF ok THEN "yes" ELSE "no"]
    /\ UNCHANGED <<nextid, op, inflight, mu, goroutine, caller, conn>>

ConnLost ==
    /\ MayFail /\ conn = "up"
    /\ conn' = "lost"
    /\ UNCHANGED <<nextid, op, inflight, mu, goroutine, caller, asked, replies, outcome>>

Goroutine(i) == SendPacket(i) \/ Lock(i) \/ recvPacket(i) \/ \E c \in Callers : Receive(i, c)

Next ==
    \/ \E c \in Callers, o \in Ops : Call(c, o)
    \/ \E i \in Ids : Goroutine(i) \/ \E ok \in BOOLEAN : Respond(i, ok)
    \/ ConnLost

Spec == Init /\ [][Next]_vars

-----------------------------------------------------------------------------
TypeOK ==
    /\ inflight \subseteq 1 .. nextid /\ asked \subseteq inflight
    /\ mu \in {0} \cup {i \in Ids : goroutine[i].pc = "recv"}

(* Each operation reports success exactly when the server reported success for  *)
(* that very request, although replies are read by other requests' goroutines   *)
(* and arrive in any order.                                                  *)
TruthfulResult ==
    \A i \in Ids : outcome[i].told \notin {"none", "error"} =>
        /\ outcome[i].told # "unexpectedId"
        /\ (outcome[i].told = "nil") <=> (outcome[i].did = "yes")

(* c.inflight holds exactly the requests whose reply has not been read: a        *)
(* request that was answered leaves nothing behind.                            *)
InflightExact ==
    conn = "up" => inflight = {i \in 1 .. nextid : goroutine[i].pc # "send" /\
                                   (i \in asked \/ \E k \in DOMAIN replies : replies[k].id = i)}

(* The caller waits for the result of an operation.                         *)
Waiting(c) == caller[c] # 0

(* The connection is lost, the goroutine of the request was the one that read   *)
(* somebody else's reply, and no reply to the request is left: nobody will ever *)
(* tell the caller.                                                           *)
Stranded(c) ==
    LET i == caller[c]
    IN  /\ i # 0 /\ conn = "lost"
        /\ goroutine[i].pc \notin {"send", "lock", "recv"}
        /\ \A g \in Ids : ~(goroutine[g].pc = "give" /\ goroutine[g].to = i)
        /\ \A k \in DOMAIN replies : replies[k].id # i
=============================================================================
