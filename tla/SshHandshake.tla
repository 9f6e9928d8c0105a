---------------------------- MODULE SshHandshake ----------------------------
(***************************************************************************)
(* Key exchange on an SSH connection: handshakeTransport (handshake.go) over  *)
(* transport (transport.go) at the client and the server.  At each end run    *)
(* the writers, readLoop, and the user that takes packets from incoming (in   *)
(* the program mux.loop, which also writes).                                 *)
(*                                                                         *)
(* A packet counts as one byte and carries the key it was written under: the  *)
(* number of the exchange and the cipher of its direction.  The messages of   *)
(* the exchange itself are one question of the client and one answer of the   *)
(* server.                                                                  *)
(***************************************************************************)
EXTENDS Integers, Sequences, FiniteSets, SequencesExt

CONSTANTS
    Writers,          \* writing goroutines: records of their side and a name
    Packets,          \* packets each of them writes
    RekeyThreshold,   \* packets under one key before a new one is negotiated
    IncomingCap,      \* capacity of incoming
    Ciphers,          \* preferences of each side: sequences for c2s and s2c
    Answers,          \* sides whose user writes a packet for every one it takes
    MayRefuse,        \* TRUE: the client may refuse the host key
    MayLose           \* TRUE: the connection may be lost

HandshakeAssumption ==
    /\ \A w \in Writers : w.side \in {"client", "server"}
    /\ Packets \in Nat /\ RekeyThreshold \in Nat /\ IncomingCap \in Nat \ {0}
    /\ \A s \in {"client", "server"} : Ciphers[s].c2s # <<>> /\ Ciphers[s].s2c # <<>>
    /\ Answers \subseteq {"client", "server"} /\ MayRefuse \in BOOLEAN
    /\ MayLose \in BOOLEAN

VARIABLES
    wire,         \* packets on their way from each side
    closed,       \* the connection was closed
    key,          \* packetCipher of each side and direction
    pendingKey,   \* pendingKeyChange of each side and direction
    sessionID,
    sentInit,     \* sentInitMsg # nil
    written, readSince,
    writeError,
    mu,           \* t.mu was left locked
    loop,         \* where readLoop is
    held,         \* the packet readLoop is about to deliver
    err,          \* readError
    incoming,
    exchange,     \* exchanges completed by each side
    writer,       \* packets a writer still has to write, and whether it waits
    user          \* the user: "take", "answer" or "waiting"

vars == <<wire, closed, key, pendingKey, sessionID, sentInit, written, readSince, writeError,
          mu, loop, held, err, incoming, exchange, writer, user>>

Sides == {"client", "server"}
Peer(s) == IF s = "client" THEN "server" ELSE "client"
NoKey == [exchange |-> 0, dir |-> "none", cipher |-> "none"]
Plain == [exchange |-> 0, dir |-> "plain", cipher |-> "none"]

Init ==
    /\ wire = [s \in Sides |-> <<>>]
    /\ closed = FALSE
    /\ key = [s \in Sides |-> [r |-> Plain, w |-> Plain]]
    /\ pendingKey = [s \in Sides |-> [r |-> NoKey, w |-> NoKey]]
    /\ sessionID = [s \in Sides |-> 0]
    /\ sentInit = [s \in Sides |-> FALSE]
    /\ written = [s \in Sides |-> 0]
    /\ readSince = [s \in Sides |-> 0]
    /\ writeError = [s \in Sides |-> FALSE]
    /\ mu = [s \in Sides |-> FALSE]
    /\ loop = [s \in Sides |-> "start"]
    /\ held = [s \in Sides |-> "none"]
    /\ err = [s \in Sides |-> "none"]
    /\ incoming = [s \in Sides |-> <<>>]
    /\ exchange = [s \in Sides |-> 0]
    /\ writer = [w \in Writers |-> [pc |-> "idle", left |-> Packets]]
    /\ user = [s \in Sides |-> "take"]

-----------------------------------------------------------------------------
(* findCommonCipher: the client's first choice that the server has. *)
findCommonCipher(c, s) ==
    LET common == {i \in DOMAIN c : Contains(s, c[i])}
    IN  IF common = {} THEN "none" ELSE c[CHOOSE i \in common : \A j \in common : i <= j]

(* findAgreedAlgorithms: w is client to server at either side. *)
findAgreedAlgorithms ==
    [w |-> findCommonCipher(Ciphers["client"].c2s, Ciphers["server"].c2s),
     r |-> findCommonCipher(Ciphers["client"].s2c, Ciphers["server"].s2c)]

(* transport.writePacket: the packet goes out under the old key, and          *)
(* msgNewKeys brings the pending one into use.                               *)
put(s, types) ==
    wire' = IF closed THEN wire
            ELSE [wire EXCEPT ![s] = @ \o [i \in DOMAIN types |-> [type |-> types[i], key |-> key[s].w]]]

newPacketCipher(s, dir) ==
    [exchange |-> exchange[s] + 1,
     dir |-> IF (s = "client") = (dir = "w") THEN "clientKeys" ELSE "serverKeys",
     cipher |-> findAgreedAlgorithms[dir]]

-----------------------------------------------------------------------------
(* sendKexInitLocked: at most one kexInit until the exchange is over. *)
sendKexInit(s) ==
    IF sentInit[s] \/ closed THEN UNCHANGED <<wire, sentInit>>
    ELSE put(s, <<"kexInit">>) /\ sentInit' = [sentInit EXCEPT ![s] = TRUE]

(* clientHandshake and serverHandshake begin with requestKeyChange. *)
requestKeyChange(s) ==
    /\ loop[s] = "start"
    /\ sendKexInit(s)
    /\ loop' = [loop EXCEPT ![s] = "read"]
    /\ UNCHANGED <<closed, key, pendingKey, sessionID, written, readSince, writeError, mu,
                   held, err, incoming, exchange, writer, user>>

(* writePacket up to cond.Wait: past the threshold it asks for a new key. *)
mustWait(s) == sentInit[s] \/ (written[s] > RekeyThreshold /\ ~closed)
startWait(s) ==
    /\ ~mu[s] /\ loop[s] # "start" /\ mustWait(s)
    /\ sendKexInit(s)

(* The rest of writePacket, at once or after the wait: it returns an error     *)
(* with t.mu locked.                                                         *)
writePacket(s, waited) ==
    /\ ~mu[s] /\ loop[s] # "start"
    /\ IF waited THEN ~sentInit[s] ELSE ~mustWait(s)
    /\ IF writeError[s]
       THEN mu' = [mu EXCEPT ![s] = TRUE] /\ UNCHANGED <<wire, written>>
       ELSE /\ put(s, <<"data">>)
            /\ written' = [written EXCEPT ![s] = @ + 1]
            /\ UNCHANGED mu

WriteWaits(w) ==
    /\ writer[w].pc = "idle" /\ writer[w].left > 0
    /\ startWait(w.side)
    /\ writer' = [writer EXCEPT ![w].pc = "waiting"]
    /\ UNCHANGED <<closed, key, pendingKey, sessionID, written, readSince, writeError, mu, loop,
                   held, err, incoming, exchange, user>>

Write(w) ==
    LET s == w.side
    IN  /\ writer[w].left > 0
        /\ writePacket(s, writer[w].pc = "waiting")
        /\ writer' = [writer EXCEPT ![w] =
                         [pc |-> "idle", left |-> IF writeError[s] \/ closed THEN 0 ELSE @.left - 1]]
        /\ UNCHANGED <<closed, key, pendingKey, sessionID, sentInit, readSince, writeError, loop,
                       held, err, incoming, exchange, user>>

(* The user of the connection: readPacket, and an answer where it gives one. *)
readPacket(s) ==
    /\ user[s] = "take" /\ incoming[s] # <<>>
    /\ incoming' = [incoming EXCEPT ![s] = Tail(@)]
    /\ user' = [user EXCEPT ![s] = IF s \in Answers /\ Head(incoming[s]) = "data" THEN "answer" ELSE "take"]
    /\ UNCHANGED <<wire, closed, key, pendingKey, sessionID, sentInit, written, readSince, writeError,
                   mu, loop, held, err, exchange, writer>>

AnswerWaits(s) ==
    /\ user[s] = "answer"
    /\ startWait(s)
    /\ user' = [user EXCEPT ![s] = "waiting"]
    /\ UNCHANGED <<closed, key, pendingKey, sessionID, written, readSince, writeError, mu, loop,
                   held, err, incoming, exchange, writer>>

Answer(s) ==
    /\ user[s] \in {"answer", "waiting"}
    /\ writePacket(s, user[s] = "waiting")
    /\ user' = [user EXCEPT ![s] = "take"]
    /\ UNCHANGED <<closed, key, pendingKey, sessionID, sentInit, readSince, writeError, loop,
                   held, err, incoming, exchange, writer>>

-----------------------------------------------------------------------------
(* readLoop.  A packet that cannot be read, or is not the one the exchange     *)
(* expects, is an error; so is the end of the connection.                     *)
Arrived(s) == Head(wire[Peer(s)])
CanRead(s) == wire[Peer(s)] # <<>> \/ closed
Readable(s) == wire[Peer(s)] # <<>> /\ Arrived(s).key = key[s].r
Take(s) == wire' = [wire EXCEPT ![Peer(s)] = Tail(@)]
ReadError(s) == IF wire[Peer(s)] = <<>> THEN "EOF" ELSE IF Readable(s) THEN "unexpected" ELSE "mac"

(* The kexInit that readOnePacket owes cannot be written. *)
Unasked(s) == closed /\ readSince[s] > RekeyThreshold /\ ~sentInit[s]

(* An error outside of an exchange ends readLoop and nothing else: a kexInit that was sent stays so. *)
LoopFails(s) ==
    /\ loop[s] = "read" /\ CanRead(s)
    /\ Unasked(s) \/ ~(Readable(s) /\ Arrived(s).type \in {"data", "kexInit"})
    /\ err' = [err EXCEPT ![s] = IF Unasked(s) THEN "EOF" ELSE ReadError(s)]
    /\ loop' = [loop EXCEPT ![s] = "dead"]
    /\ UNCHANGED <<wire, closed, key, pendingKey, sessionID, sentInit, written, readSince, writeError,
                   mu, held, incoming, exchange, writer, user>>

(* readOnePacket, outside of an exchange. *)
ReaderRekeys(s) ==
    /\ loop[s] = "read" /\ ~mu[s]
    /\ readSince[s] > RekeyThreshold /\ ~sentInit[s] /\ ~closed
    /\ sendKexInit(s)
    /\ UNCHANGED <<closed, key, pendingKey, sessionID, written, readSince, writeError, mu, loop,
                   held, err, incoming, exchange, writer, user>>

readOnePacket(s) ==
    /\ loop[s] = "read" /\ Readable(s)
    /\ readSince[s] > RekeyThreshold => sentInit[s]
    /\ Arrived(s).type \in {"data", "kexInit"}
    /\ Take(s)
    /\ readSince' = [readSince EXCEPT ![s] = @ + 1]
    /\ IF Arrived(s).type = "kexInit" THEN loop' = [loop EXCEPT ![s] = "init"] /\ UNCHANGED held
       ELSE loop' = [loop EXCEPT ![s] = "push"] /\ held' = [held EXCEPT ![s] = "data"]
    /\ UNCHANGED <<closed, key, pendingKey, sessionID, sentInit, written, writeError, mu,
                   err, incoming, exchange, writer, user>>

Push(s) ==
    /\ loop[s] = "push" /\ Len(incoming[s]) < IncomingCap
    /\ incoming' = [incoming EXCEPT ![s] = Append(@, held[s])]
    /\ held' = [held EXCEPT ![s] = "none"]
    /\ loop' = [loop EXCEPT ![s] = "read"]
    /\ UNCHANGED <<wire, closed, key, pendingKey, sessionID, sentInit, written, readSince, writeError,
                   mu, err, exchange, writer, user>>

(* enterKeyExchange *)
EnterKeyExchange(s) ==
    /\ loop[s] = "init" /\ ~mu[s] /\ ~closed
    /\ findAgreedAlgorithms.w # "none" /\ findAgreedAlgorithms.r # "none"
    /\ IF s = "client"
       THEN /\ put(s, IF sentInit[s] THEN <<"kexdhInit">> ELSE <<"kexInit", "kexdhInit">>)
            /\ sentInit' = [sentInit EXCEPT ![s] = TRUE]
       ELSE sendKexInit(s)
    /\ loop' = [loop EXCEPT ![s] = "agree"]
    /\ UNCHANGED <<closed, key, pendingKey, sessionID, written, readSince, writeError, mu,
                   held, err, incoming, exchange, writer, user>>

(* kex.Client and kex.Server up to the result, then prepareKeyChange. *)
prepareKeyChange(s) ==
    /\ sessionID' = [sessionID EXCEPT ![s] = IF @ = 0 THEN exchange[s] + 1 ELSE @]
    /\ pendingKey' = [pendingKey EXCEPT ![s] = [r |-> newPacketCipher(s, "r"), w |-> newPacketCipher(s, "w")]]

Expected(s) == IF loop[s] = "await" THEN "newKeys" ELSE IF s = "client" THEN "kexdhReply" ELSE "kexdhInit"

Agree(s) ==
    /\ loop[s] = "agree" /\ Readable(s) /\ Arrived(s).type = Expected(s)
    /\ s = "server" => ~closed
    /\ wire' = [[wire EXCEPT ![Peer(s)] = Tail(@)] EXCEPT ![s] =
                   IF s = "client" THEN @ ELSE Append(@, [type |-> "kexdhReply", key |-> key[s].w])]
    /\ prepareKeyChange(s)
    /\ loop' = [loop EXCEPT ![s] = "keys"]
    /\ UNCHANGED <<closed, key, sentInit, written, readSince, writeError, mu,
                   held, err, incoming, exchange, writer, user>>

(* msgNewKeys is the last packet under the old key. *)
SendNewKeysFirst(s) ==      \* mutant: the key changes before msgNewKeys is written
    /\ loop[s] = "keys" /\ ~closed
    /\ wire' = [wire EXCEPT ![s] = Append(@, [type |-> "newKeys", key |-> pendingKey[s].w])]
    /\ key' = [key EXCEPT ![s].w = pendingKey[s].w]
    /\ pendingKey' = [pendingKey EXCEPT ![s].w = NoKey]
    /\ loop' = [loop EXCEPT ![s] = "await"]
    /\ UNCHANGED <<closed, sessionID, sentInit, written, readSince, writeError, mu,
                   held, err, incoming, exchange, writer, user>>

SendNewKeys(s) ==
    /\ loop[s] = "keys" /\ ~closed
    /\ put(s, <<"newKeys">>)
    /\ key' = [key EXCEPT ![s].w = pendingKey[s].w]
    /\ pendingKey' = [pendingKey EXCEPT ![s].w = NoKey]
    /\ loop' = [loop EXCEPT ![s] = "await"]
    /\ UNCHANGED <<closed, sessionID, sentInit, written, readSince, writeError, mu,
                   held, err, incoming, exchange, writer, user>>

ReadNewKeys(s) ==
    /\ loop[s] = "await" /\ Readable(s) /\ Arrived(s).type = Expected(s)
    /\ Take(s)
    /\ key' = [key EXCEPT ![s].r = pendingKey[s].r]
    /\ pendingKey' = [pendingKey EXCEPT ![s].r = NoKey]
    /\ loop' = [loop EXCEPT ![s] = "finish"]
    /\ UNCHANGED <<closed, sessionID, sentInit, written, readSince, writeError, mu,
                   held, err, incoming, exchange, writer, user>>

(* The end of readOnePacket after an exchange: writers go on. *)
FinishKeyExchange(s) ==
    /\ loop[s] = "finish" /\ ~mu[s]
    /\ sentInit' = [sentInit EXCEPT ![s] = FALSE]
    /\ written' = [written EXCEPT ![s] = 0]
    /\ readSince' = [readSince EXCEPT ![s] = 0]
    /\ exchange' = [exchange EXCEPT ![s] = @ + 1]
    /\ held' = [held EXCEPT ![s] = "newKeys"]
    /\ loop' = [loop EXCEPT ![s] = "push"]
    /\ UNCHANGED <<wire, closed, key, pendingKey, sessionID, writeError, mu, err, incoming, writer, user>>

Refuses(s) == MayRefuse /\ s = "client" /\ loop[s] = "agree" /\ Readable(s)

KeyExchangeFails(s) ==
    /\ ~mu[s]
    /\ \/ closed /\ (loop[s] \in {"init", "keys"} \/ (loop[s] = "agree" /\ s = "server"))
       \/ /\ loop[s] = "init"
          /\ findAgreedAlgorithms.w = "none" \/ findAgreedAlgorithms.r = "none"
       \/ /\ loop[s] \in {"agree", "await"} /\ CanRead(s)
          /\ ~(Readable(s) /\ Arrived(s).type = Expected(s))
       \/ Refuses(s)
    /\ err' = [err EXCEPT ![s] = IF loop[s] \in {"agree", "await"} /\ ~Refuses(s)
                                 THEN ReadError(s) ELSE "refused"]
    /\ closed' = TRUE
    /\ wire' = [t \in Sides |-> IF t = s THEN wire[s] ELSE <<>>]
    /\ writeError' = [writeError EXCEPT ![s] = TRUE]
    /\ sentInit' = [sentInit EXCEPT ![s] = FALSE]
    /\ written' = [written EXCEPT ![s] = 0]
    /\ loop' = [loop EXCEPT ![s] = "dead"]
    /\ UNCHANGED <<key, pendingKey, sessionID, readSince, mu, held, incoming, exchange, writer, user>>

(* The network. *)
ConnLost ==
    /\ MayLose /\ ~closed
    /\ closed' = TRUE /\ wire' = [s \in Sides |-> <<>>]
    /\ UNCHANGED <<key, pendingKey, sessionID, sentInit, written, readSince, writeError,
                   mu, loop, held, err, incoming, exchange, writer, user>>

Loop(s) ==
    \/ requestKeyChange(s) \/ LoopFails(s) \/ ReaderRekeys(s) \/ readOnePacket(s) \/ Push(s)
    \/ EnterKeyExchange(s) \/ Agree(s) \/ SendNewKeys(s) \/ ReadNewKeys(s)
    \/ FinishKeyExchange(s) \/ KeyExchangeFails(s)
User(s) == readPacket(s) \/ AnswerWaits(s) \/ Answer(s)
Writer(w) == WriteWaits(w) \/ Write(w)

Next ==
    \/ \E s \in Sides : Loop(s) \/ User(s)
    \/ \E w \in Writers : Writer(w)
    \/ ConnLost

Spec == Init /\ [][Next]_vars

-----------------------------------------------------------------------------
(* prepareKeyChange and the two switches at msgNewKeys: whatever the order in  *)
(* which the two sides ask for a key exchange, every packet is read under the   *)
(* key it was written under, and no side meets a packet that the exchange does  *)
(* not expect.                                                              *)
KeysAgree == \A s \in Sides : err[s] \notin {"mac", "unexpected"}

(* "All writes are blocked until the key change succeeds": after its kexInit a *)
(* side sends nothing but the exchange, up to its msgNewKeys.                  *)
WritesBlocked ==
    \A s \in Sides : \A i, j \in DOMAIN wire[s] :
        (i < j /\ wire[s][i].type = "kexInit" /\ wire[s][j].type = "data") =>
            \E k \in i .. j : wire[s][k].type = "newKeys"

(* A writer that passes the threshold asks for new keys itself, and each        *)
(* goroutine that was waiting writes at most one packet more before it asks     *)
(* again: the packets under one key are bounded.                              *)
RekeyInTime == \A s \in Sides : written[s] <= RekeyThreshold + Cardinality({w \in Writers : w.side = s}) + 1

(* The session ID is that of the first exchange at both sides, also after       *)
(* later exchanges.                                                          *)
SessionFixed == \A s \in Sides : exchange[s] > 0 => sessionID[s] = 1

(* Three ways in which writePacket never returns: another one left t.mu      *)
(* locked when it returned writeError; readLoop met an error with a kexInit   *)
(* outstanding, and nobody wakes those that wait for its exchange; or the     *)
(* user of one side writes, waiting for an exchange that readLoop cannot get   *)
(* to because incoming is full, and the other side waits with it.             *)
Abandoned(s) == loop[s] = "dead" /\ sentInit[s]
Jammed(s) == loop[s] = "push" /\ Len(incoming[s]) = IncomingCap /\ user[s] = "waiting" /\ sentInit[s]
Stuck(s) == mu[s] \/ Abandoned(s) \/ (sentInit[s] /\ \E t \in Sides : Jammed(t))

(* Every write has returned, but for those.                                 *)
Written ==
    /\ \A w \in Writers : writer[w].left = 0 \/ Stuck(w.side)
    /\ \A s \in Sides : user[s] = "take" \/ Stuck(s)
=============================================================================
