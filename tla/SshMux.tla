------------------------------- MODULE SshMux -------------------------------
(***************************************************************************)
(* The multiplexer of an SSH connection (mux.go) at both ends: the list of   *)
(* channels, opening, accepting, rejecting and closing them, requests with a *)
(* reply on a channel or on the connection, and the end of mux.loop.          *)
(*                                                                         *)
(* Each end has openers (openChannel), one user that accepts or rejects what  *)
(* arrives, users that answer requests and may close channels, and askers     *)
(* (SendRequest with wantReply).  A message carries, as ghosts, the channel   *)
(* that sent it and the asker it is for.  The data of channels is in          *)
(* SshChannel.                                                              *)
(***************************************************************************)
EXTENDS Integers, Sequences, FiniteSets, SequencesExt

CONSTANTS
    Sides,        \* the two ends
    Openers,      \* number of goroutines in openChannel at each end
    MaxChan,      \* bound on the channels an end creates
    Askers,       \* askers: records of their end and of what they ask on
    MaxAsks,      \* bound on the requests of an asker
    ChanCap,      \* capacity of the Go channels of a mux and of a channel
    MayReject,    \* TRUE: the user may reject a channel
    Failure       \* how the connection may end: "none", "both" (reads and writes at once) or "read" (reads first)

MuxAssumption ==
    /\ Cardinality(Sides) = 2
    /\ Openers \in [Sides -> Nat] /\ MaxChan \in Nat /\ MaxAsks \in Nat
    /\ ChanCap \in Nat \ {0} /\ MayReject \in BOOLEAN
    /\ Failure \in {"none", "both", "read"}
    /\ \A k \in Askers : k.side \in Sides /\ k.on \in {"channel", "global"}

VARIABLES
    conn,          \* "up", "deaf" (reads fail, writes do not) or "down"
    wire,          \* packets on their way from each end
    chan,          \* the channel structures, in the order of their creation
    chans,         \* chanList of each end: 0 for an empty slot
    incoming,      \* incomingChannels
    globalReqs,    \* incomingRequests of the mux
    globalResp,    \* globalResponses: capacity 1
    loop,          \* mux.loop: "run", "dropped" or "done"
    err,           \* why mux.loop ended
    opener, asker,
    misled         \* ghost: a packet reached a channel that is not its sender's peer

vars == <<conn, wire, chan, chans, incoming, globalReqs, globalResp, loop, err, opener, asker, misled>>

Ids == Sides \X (1 .. MaxChan)
NoId == <<"none", 0>>
Peer(m) == CHOOSE n \in Sides : n # m
OpenerIds == {o \in Sides \X (1 .. MaxChan) : o[2] <= Openers[o[1]]}
Fresh == [st |-> "none", dir |-> "out", open |-> FALSE, decided |-> FALSE, localId |-> 0,
          remoteId |-> 0, peer |-> NoId, msg |-> <<>>, reqs |-> <<>>, sentClose |-> FALSE]

Init ==
    /\ conn = "up"
    /\ wire = [m \in Sides |-> <<>>]
    /\ chan = [x \in Ids |-> Fresh]
    /\ chans = [m \in Sides |-> <<>>]
    /\ incoming = [m \in Sides |-> <<>>]
    /\ globalReqs = [m \in Sides |-> <<>>]
    /\ globalResp = [m \in Sides |-> <<>>]
    /\ loop = [m \in Sides |-> "run"]
    /\ err = [m \in Sides |-> "none"]
    /\ opener = [o \in OpenerIds |-> [pc |-> "start", ch |-> NoId]]
    /\ asker = [k \in Askers |-> [pc |-> "start", n |-> 0, ch |-> NoId]]
    /\ misled = FALSE

(* chanList *)
slots(m) == {i \in DOMAIN chans[m] : chans[m][i] = 0}
addId(m) == IF slots(m) = {} THEN Len(chans[m]) + 1 ELSE CHOOSE i \in slots(m) : \A j \in slots(m) : i <= j
add(m, k) == IF slots(m) = {} THEN Append(chans[m], k) ELSE [chans[m] EXCEPT ![addId(m)] = k]
getChan(m, id) == IF id \in DOMAIN chans[m] THEN chans[m][id] ELSE 0
remove(m, id) == IF id \in DOMAIN chans[m] THEN [chans[m] EXCEPT ![id] = 0] ELSE chans[m]
created(m) == {k \in 1 .. MaxChan : chan[<<m, k>>].st # "none"}
newId(m) == <<m, Cardinality(created(m)) + 1>>
outbound == {x \in Ids : chan[x].st # "none" /\ chan[x].dir = "out"}

newChannel(m, dir) == [st |-> "live", dir |-> dir, open |-> FALSE, decided |-> FALSE,
                       localId |-> addId(m), remoteId |-> 0, peer |-> NoId,
                       msg |-> <<>>, reqs |-> <<>>, sentClose |-> FALSE]

(* Packets: the number of the receiver's channel, that of the sender's where   *)
(* the protocol has it, and the two ghosts.                                   *)
Packet(t, to, id, x, k) == [type |-> t, to |-> to, id |-> id, from |-> x, for |-> k]
NoAsker == [side |-> "none", on |-> "none", name |-> "none"]

(* mux.sendMessage, and channel.sendMessage, whose writePacket sends nothing  *)
(* after a close.                                                            *)
sendMessage(m, p) == wire' = IF conn = "down" THEN wire ELSE [wire EXCEPT ![m] = Append(@, p)]
sendOn(x, t, k) ==
    IF chan[x].sentClose THEN UNCHANGED wire
    ELSE sendMessage(x[1], Packet(t, chan[x].remoteId, chan[x].localId, x, k))

-----------------------------------------------------------------------------
(* openChannel: the channel is in the list before its number is sent. *)
openChannel(o) ==
    LET m == o[1]  x == newId(m)
    IN  /\ opener[o].pc = "start" /\ Cardinality(outbound) < MaxChan
        /\ chan' = [chan EXCEPT ![x] = newChannel(m, "out")]
        /\ chans' = [chans EXCEPT ![m] = add(m, x[2])]
        /\ opener' = [opener EXCEPT ![o] = [pc |-> "send", ch |-> x]]
        /\ UNCHANGED <<conn, wire, incoming, globalReqs, globalResp, loop, err, asker, misled>>

SendOpen(o) ==
    LET x == opener[o].ch
    IN  /\ opener[o].pc = "send"
        /\ sendMessage(o[1], Packet("open", 0, chan[x].localId, x, NoAsker))
        /\ opener' = [opener EXCEPT ![o].pc = IF conn = "down" THEN "failed" ELSE "wait"]
        /\ UNCHANGED <<conn, chan, chans, incoming, globalReqs, globalResp, loop, err, asker, misled>>

Confirmed(o) ==
    LET x == opener[o].ch  c == chan[x]
        ok == c.msg # <<>> /\ Head(c.msg).type = "confirm"
    IN  /\ opener[o].pc = "wait"
        /\ c.msg # <<>> \/ c.st = "closed"
        /\ chan' = [chan EXCEPT ![x].msg = IF @ = <<>> THEN @ ELSE Tail(@), ![x].open = ok]
        /\ opener' = [opener EXCEPT ![o].pc = IF ok THEN "open" ELSE "failed"]
        /\ UNCHANGED <<conn, wire, chans, incoming, globalReqs, globalResp, loop, err, asker, misled>>

(* A goroutine whose channel came to its end opens another one. *)
OpenAgain(o) ==
    /\ opener[o].pc = "failed" \/ (opener[o].pc = "open" /\ chan[opener[o].ch].st = "closed")
    /\ Cardinality(outbound) < MaxChan
    /\ opener' = [opener EXCEPT ![o] = [pc |-> "start", ch |-> NoId]]
    /\ UNCHANGED <<conn, wire, chan, chans, incoming, globalReqs, globalResp, loop, err, asker, misled>>

(* The user takes the next channel that arrived and decides. *)
Accept(m) ==
    LET x == <<m, Head(incoming[m])>>
    IN  /\ incoming[m] # <<>>
        /\ incoming' = [incoming EXCEPT ![m] = Tail(@)]
        /\ chan' = [chan EXCEPT ![x].decided = TRUE, ![x].open = TRUE]
        /\ sendOn(x, "confirm", NoAsker)
        /\ UNCHANGED <<conn, chans, globalReqs, globalResp, loop, err, opener, asker, misled>>

Reject(m) ==
    LET x == <<m, Head(incoming[m])>>
    IN  /\ incoming[m] # <<>> /\ MayReject
        /\ incoming' = [incoming EXCEPT ![m] = Tail(@)]
        /\ chan' = [chan EXCEPT ![x].decided = TRUE]
        /\ sendOn(x, "fail", NoAsker)
        /\ UNCHANGED <<conn, chans, globalReqs, globalResp, loop, err, opener, asker, misled>>

(* Close, by the user of either end. *)
Close(x) ==
    /\ chan[x].open /\ ~chan[x].sentClose
    /\ chan' = [chan EXCEPT ![x].sentClose = TRUE]
    /\ sendOn(x, "close", NoAsker)
    /\ UNCHANGED <<conn, chans, incoming, globalReqs, globalResp, loop, err, opener, asker, misled>>

-----------------------------------------------------------------------------
(* SendRequest with wantReply: sentRequestMu of the channel, globalSentMu of   *)
(* the mux, is held until the reply is there.                                *)
Locked(k, x) == \E j \in Askers \ {k} : asker[j].pc = "wait" /\ j.side = k.side
                                        /\ j.on = k.on /\ asker[j].ch = x

SendRequest(k, x) ==
    /\ asker[k].pc = "start" /\ asker[k].n < MaxAsks /\ ~Locked(k, x)
    /\ k.on = "global" => x = NoId
    /\ k.on = "channel" => x \in outbound /\ x[1] = k.side /\ chan[x].open
    /\ IF k.on = "global" THEN sendMessage(k.side, Packet("greq", 0, 0, NoId, k)) ELSE sendOn(x, "req", k)
    /\ asker' = [asker EXCEPT ![k] =
           IF conn = "down" \/ (k.on = "channel" /\ chan[x].sentClose) THEN [@ EXCEPT !.pc = "failed"]
           ELSE [@ EXCEPT !.pc = "wait", !.n = @ + 1, !.ch = x]]
    /\ UNCHANGED <<conn, chan, chans, incoming, globalReqs, globalResp, loop, err, opener, misled>>

Answered(k, p) == asker' = [asker EXCEPT ![k] = [@ EXCEPT !.pc = IF p.for = k THEN "start" ELSE "wrong", !.ch = NoId]]

ReplyOnChannel(k) ==
    LET c == chan[asker[k].ch]
    IN  /\ asker[k].pc = "wait" /\ k.on = "channel"
        /\ IF c.msg # <<>>
           THEN chan' = [chan EXCEPT ![asker[k].ch].msg = Tail(@)] /\ Answered(k, Head(c.msg))
           ELSE c.st = "closed" /\ asker' = [asker EXCEPT ![k].pc = "failed"] /\ UNCHANGED chan
        /\ UNCHANGED <<conn, wire, chans, incoming, globalReqs, globalResp, loop, err, opener, misled>>

GlobalReply(k) ==
    LET q == globalResp[k.side]
    IN  /\ asker[k].pc = "wait" /\ k.on = "global"
        /\ IF q # <<>>
           THEN globalResp' = [globalResp EXCEPT ![k.side] = Tail(@)] /\ Answered(k, Head(q))
           ELSE loop[k.side] = "done" /\ asker' = [asker EXCEPT ![k].pc = "failed"] /\ UNCHANGED globalResp
        /\ UNCHANGED <<conn, wire, chan, chans, incoming, globalReqs, loop, err, opener, misled>>

(* The users that serve the requests: Request.Reply with ackRequest. *)
ackRequest(x) ==
    /\ chan[x].reqs # <<>> /\ chan[x].open
    /\ chan' = [chan EXCEPT ![x].reqs = Tail(@)]
    /\ sendOn(x, "reply", Head(chan[x].reqs))
    /\ UNCHANGED <<conn, chans, incoming, globalReqs, globalResp, loop, err, opener, asker, misled>>

ackGlobal(m) ==
    /\ globalReqs[m] # <<>>
    /\ globalReqs' = [globalReqs EXCEPT ![m] = Tail(@)]
    /\ sendMessage(m, Packet("greply", 0, 0, NoId, Head(globalReqs[m])))
    /\ UNCHANGED <<conn, chan, chans, incoming, globalResp, loop, err, opener, asker, misled>>

-----------------------------------------------------------------------------
(* mux.onePacket.  A Go channel that is full stops the loop. *)
Arrived(m) == Head(wire[Peer(m)])
Reading(m) == loop[m] = "run" /\ err[m] = "none" /\ conn = "up" /\ wire[Peer(m)] # <<>>
Take(m) ==
    /\ Reading(m)
    /\ wire' = [wire EXCEPT ![Peer(m)] = Tail(@)]

handleChannelOpen(m) ==
    LET p == Arrived(m)  x == newId(m)
    IN  /\ Take(m) /\ p.type = "open"
        /\ Len(incoming[m]) < ChanCap
        /\ chan' = [chan EXCEPT ![x] = [newChannel(m, "in") EXCEPT !.remoteId = p.id, !.peer = p.from]]
        /\ chans' = [chans EXCEPT ![m] = add(m, x[2])]
        /\ incoming' = [incoming EXCEPT ![m] = Append(@, x[2])]
        /\ UNCHANGED <<conn, globalReqs, globalResp, loop, err, opener, asker, misled>>

handleGlobalPacket(m) ==
    LET p == Arrived(m)
    IN  /\ Take(m) /\ p.type \in {"greq", "greply"}
        /\ IF p.type = "greq"
           THEN /\ Len(globalReqs[m]) < ChanCap
                /\ globalReqs' = [globalReqs EXCEPT ![m] = Append(@, p.for)]
                /\ UNCHANGED globalResp
           ELSE /\ Len(globalResp[m]) < 1
                /\ globalResp' = [globalResp EXCEPT ![m] = Append(@, p)]
                /\ UNCHANGED globalReqs
        /\ UNCHANGED <<conn, chan, chans, incoming, loop, err, opener, asker, misled>>

(* channel.close as mux.loop and handlePacket call it. *)
closed(c) == [c EXCEPT !.st = "closed", !.sentClose = TRUE]

(* responseMessageReceived *)
Undecided(c) == c.dir = "out" /\ ~c.decided

handlePacket(m) ==
    LET p == Arrived(m)  k == getChan(m, p.to)  x == <<m, k>>  c == chan[x]
        fails(e) == /\ err' = [err EXCEPT ![m] = e]
                    /\ UNCHANGED <<chan, chans, misled>>
    IN  /\ Reading(m)
        /\ p.type \in {"confirm", "fail", "close", "req", "reply"}
        /\ IF k = 0 THEN fails("invalid channel")
           ELSE IF p.type \in {"confirm", "fail"} /\ ~Undecided(c) THEN fails("duplicate response")
           ELSE /\ p.type = "req" => Len(c.reqs) < ChanCap
                /\ p.type \in {"confirm", "fail", "reply"} => Len(c.msg) < ChanCap
                /\ misled' = (misled \/ chan[p.from].peer # x)
                /\ chan' = [chan EXCEPT ![x] =
                      CASE p.type = "confirm" -> [@ EXCEPT !.decided = TRUE, !.remoteId = p.id,
                                                           !.peer = p.from, !.msg = Append(@, p)]
                        [] p.type = "fail"  -> [@ EXCEPT !.decided = TRUE, !.msg = Append(@, p)]
                        [] p.type = "req"   -> [@ EXCEPT !.reqs = Append(@, p.for)]
                        [] p.type = "reply" -> [@ EXCEPT !.msg = Append(@, p)]
                        [] p.type = "close" -> closed(@)]
                /\ chans' = [chans EXCEPT ![m] = IF p.type \in {"fail", "close"} THEN remove(m, p.to) ELSE @]
                /\ UNCHANGED err
        /\ wire' = [[wire EXCEPT ![Peer(m)] = Tail(@)] EXCEPT ![m] =
              IF k # 0 /\ p.type = "close" /\ ~c.sentClose
              THEN Append(@, Packet("close", c.remoteId, 0, x, NoAsker)) ELSE @]
        /\ UNCHANGED <<conn, incoming, globalReqs, globalResp, loop, opener, asker>>

(* The end of mux.loop: an error or the end of the input, every channel is     *)
(* dropped and closed; then the Go channels and the connection are closed.     *)
DropAllQuiet(m) ==      \* mutant: the channels are dropped and not closed
    /\ loop[m] = "run" /\ (err[m] # "none" \/ conn # "up")
    /\ loop' = [loop EXCEPT ![m] = "dropped"]
    /\ chans' = [chans EXCEPT ![m] = <<>>]
    /\ UNCHANGED <<conn, wire, chan, incoming, globalReqs, globalResp, err, opener, asker, misled>>

DropAll(m) ==
    /\ loop[m] = "run" /\ (err[m] # "none" \/ conn # "up")
    /\ loop' = [loop EXCEPT ![m] = "dropped"]
    /\ chan' = [x \in Ids |-> IF x[1] = m /\ x[2] \in Range(chans[m]) THEN closed(chan[x]) ELSE chan[x]]
    /\ chans' = [chans EXCEPT ![m] = <<>>]
    /\ UNCHANGED <<conn, wire, incoming, globalReqs, globalResp, err, opener, asker, misled>>

LoopExit(m) ==
    /\ loop[m] = "dropped"
    /\ loop' = [loop EXCEPT ![m] = "done"]
    /\ conn' = "down"
    /\ wire' = [n \in Sides |-> <<>>]
    /\ UNCHANGED <<chan, chans, incoming, globalReqs, globalResp, err, opener, asker, misled>>

(* The connection ends: for reads and writes at once, or for reads first, when *)
(* writes are taken until LoopExit closes it.                                *)
ConnEnds ==
    /\ conn = "up" /\ Failure # "none"
    /\ conn' \in {"down"} \cup (IF Failure = "read" THEN {"deaf"} ELSE {})
    /\ wire' = [n \in Sides |-> <<>>]
    /\ UNCHANGED <<chan, chans, incoming, globalReqs, globalResp, loop, err, opener, asker, misled>>

Loop(m) == handleChannelOpen(m) \/ handleGlobalPacket(m) \/ handlePacket(m) \/ DropAll(m) \/ LoopExit(m)
Opener(o) == openChannel(o) \/ SendOpen(o) \/ Confirmed(o)
Asker(k) == ReplyOnChannel(k) \/ GlobalReply(k)
Server(m) == Accept(m) \/ Reject(m) \/ ackGlobal(m)

Next ==
    \/ \E m \in Sides : Loop(m) \/ Server(m)
    \/ \E o \in OpenerIds : Opener(o) \/ OpenAgain(o)
    \/ \E x \in Ids : Close(x) \/ ackRequest(x)
    \/ \E k \in Askers : Asker(k) \/ \E x \in Ids \cup {NoId} : SendRequest(k, x)
    \/ ConnEnds

Spec == Init /\ [][Next]_vars

-----------------------------------------------------------------------------
(* handlePacket finds channels by a number that is used again after a close:   *)
(* every packet reaches the channel at the other end of its sender's, and the  *)
(* numbers of two open channels always name each other.                       *)
Paired ==
    /\ ~misled
    /\ \A x \in Ids : (chan[x].open /\ chan[x].st = "live") =>
         LET y == chan[x].peer IN
         chan[y].st = "live" => /\ getChan(y[1], chan[x].remoteId) = y[2]
                                /\ chan[y].remoteId \in {0, chan[x].localId}

(* Two ends that run this code never end the connection with an error of the   *)
(* protocol: no packet for a number that is not in use, no second answer to an *)
(* open.                                                                    *)
NoProtocolError == \A m \in Sides : err[m] = "none"

(* "Since requests have no ID" the reply a SendRequest returns is the next one *)
(* that arrives: it is the reply to that call's own request.                   *)
RightReply == \A k \in Askers : asker[k].pc # "wrong"

(* openChannel waits for the answer to its open.                            *)
Opening(o) == opener[o].pc = "wait"

(* It put its channel into the list after mux.loop had dropped all of it, and  *)
(* the connection still took the packet: nobody will ever close the channel.   *)
Stranded(o) ==
    LET x == opener[o].ch
    IN  Opening(o) /\ loop[o[1]] # "run" /\ getChan(o[1], chan[x].localId) = x[2]

(* SendRequest waits for the reply to its request.                          *)
Asking(k) == asker[k].pc = "wait"
=============================================================================
