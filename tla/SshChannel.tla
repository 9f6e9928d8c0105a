---------------------------- MODULE SshChannel -----------------------------
(***************************************************************************)
(* One open SSH channel between two ends that run this code: channel.go      *)
(* (WriteExtended, ReadExtended, adjustWindow, handleData, CloseWrite, Close, *)
(* close), the window of common.go and the buffer of buffer.go.  gumtool      *)
(* reaches remote databases through such a channel.                          *)
(*                                                                         *)
(* At each end run a writer and a reader for each stream in use, the caller   *)
(* of CloseWrite and Close, and the goroutine of mux.loop.  Bytes are         *)
(* numbered in the order they are written to their stream; code 0 is the     *)
(* channel's data, 1 its stderr, any other code an extended stream without a  *)
(* buffer.  The connection is a reliable queue in each direction until it     *)
(* fails.                                                                   *)
(***************************************************************************)
EXTENDS Integers, Sequences, FiniteSetsExt, SequencesExt

CONSTANTS
    Sides,             \* the two ends
    Codes,             \* extended codes in use, 0 for the channel itself
    channelWindowSize, \* initial window of either end
    channelMaxPacket,  \* largest payload of a data packet
    MaxWin,            \* largest value of a uint32 window
    Writes,            \* bytes in the one Write call at each end and stream
    Readers,           \* the <<end, code>> that are read
    ReadSize,          \* bound on the size of a reader's buffer
    Closers,           \* ends that may call Close
    EofSenders,        \* ends that may call CloseWrite
    AfterWrites,       \* TRUE: CloseWrite is called when the end's writes are done
    MayFail            \* TRUE: the connection may be lost

ChannelAssumption ==
    /\ Cardinality(Sides) = 2
    /\ {0} \subseteq Codes /\ Codes \subseteq Nat
    /\ channelWindowSize \in Nat \ {0} /\ channelMaxPacket \in Nat \ {0}
    /\ channelWindowSize <= MaxWin
    /\ Writes \in [Sides \X Codes -> Nat]
    /\ Readers \subseteq Sides \X (Codes \cap {0, 1})
    /\ ReadSize \in Nat \ {0}
    /\ Closers \subseteq Sides /\ EofSenders \subseteq Sides
    /\ AfterWrites \in BOOLEAN /\ MayFail \in BOOLEAN

VARIABLES
    conn,      \* the connection: "up" or "lost"
    wire,      \* packets on their way from each end
    win,       \* remoteWin of each end: what it may send, and whether closed
    myWindow,  \* what each end still accepts
    pending,   \* pending and extPending of each end: bytes and closed flag
    sentEOF, sentClose,
    gone,      \* the end removed the channel from its chanList
    loop,      \* where mux.loop of each end is in handling a close
    err,       \* the error that ended mux.loop, if any
    writer, reader, caller,
    got        \* bytes returned by the reads of each end and stream

vars == <<conn, wire, win, myWindow, pending, sentEOF, sentClose, gone, loop, err,
          writer, reader, caller, got>>

Threads == Sides \X Codes
Peer(s) == CHOOSE t \in Sides : t # s
Data(c, b) == [type |-> "data", code |-> c, bytes |-> b]
Adjust(n) == [type |-> "adjust", n |-> n]
Eof == [type |-> "eof"]
CloseMsg == [type |-> "close"]
buffers == Codes \cap {0, 1}

Init ==
    /\ conn = "up"
    /\ wire = [s \in Sides |-> <<>>]
    /\ win = [s \in Sides |-> [win |-> channelWindowSize, closed |-> FALSE]]
    /\ myWindow = [s \in Sides |-> channelWindowSize]
    /\ pending = [t \in Sides \X buffers |-> [buf |-> <<>>, closed |-> FALSE]]
    /\ sentEOF = [s \in Sides |-> FALSE]
    /\ sentClose = [s \in Sides |-> FALSE]
    /\ gone = [s \in Sides |-> FALSE]
    /\ loop = [s \in Sides |-> "read"]
    /\ err = [s \in Sides |-> "none"]
    /\ writer = [t \in Threads |-> [pc |-> IF Writes[t] = 0 THEN "done" ELSE "start",
                                    n |-> 0, space |-> 0]]
    /\ reader = [t \in Sides \X buffers |->
                    [pc |-> IF t \in Readers THEN "read" ELSE "off", n |-> 0]]
    /\ caller = [s \in Sides |-> "open"]
    /\ got = [t \in Sides \X buffers |-> <<>>]

(* window.add refuses a sum that wraps around. *)
addRefuses(w, n) == (w.win + n) % (MaxWin + 1) < n
add(w, n) == [w EXCEPT !.win = @ + n]

write(b, bytes) == [b EXCEPT !.buf = @ \o bytes]
eof(b) == [b EXCEPT !.closed = TRUE]
eofAll(s) == [t \in DOMAIN pending |-> IF t[1] = s THEN eof(pending[t]) ELSE pending[t]]

(* writePacket: nothing follows a close. *)
writePacket(s, m) ==
    /\ wire' = IF sentClose[s] \/ conn = "lost" THEN wire
               ELSE [wire EXCEPT ![s] = Append(@, m)]
    /\ sentClose' = [sentClose EXCEPT ![s] = @ \/ m.type = "close"]

(* WriteExtended up to its loop. *)
StartWrite(s, c) ==
    /\ writer[<<s, c>>].pc = "start"
    /\ writer' = [writer EXCEPT ![<<s, c>>].pc = IF sentEOF[s] THEN "failed" ELSE "reserve"]
    /\ UNCHANGED <<conn, wire, win, myWindow, pending, sentEOF, sentClose, gone, loop, err,
                   reader, caller, got>>

(* window.reserve: waits for window or for the window to be closed. *)
reserve(s, c) ==
    LET want == Min({channelMaxPacket, Writes[<<s, c>>] - writer[<<s, c>>].n})
        space == Min({want, win[s].win})
    IN  /\ writer[<<s, c>>].pc = "reserve"
        /\ win[s].win > 0 \/ win[s].closed
        /\ win' = [win EXCEPT ![s].win = @ - space]
        /\ writer' = [writer EXCEPT ![<<s, c>>] =
                         IF win[s].closed THEN [@ EXCEPT !.pc = "failed"]
                         ELSE [@ EXCEPT !.pc = "send", !.space = space]]
        /\ UNCHANGED <<conn, wire, myWindow, pending, sentEOF, sentClose, gone, loop, err,
                       reader, caller, got>>

(* The rest of the loop body: one data packet, and the next round. *)
SendData(s, c) ==
    LET w == writer[<<s, c>>]
        failed == sentClose[s] \/ conn = "lost"
    IN  /\ w.pc = "send"
        /\ writePacket(s, Data(c, [i \in 1 .. w.space |-> w.n + i]))
        /\ writer' = [writer EXCEPT ![<<s, c>>] =
                         IF failed THEN [@ EXCEPT !.pc = "failed", !.space = 0]
                         ELSE [pc |-> IF w.n + w.space = Writes[<<s, c>>] THEN "done" ELSE "reserve",
                               n |-> w.n + w.space, space |-> 0]]
        /\ UNCHANGED <<conn, win, myWindow, pending, sentEOF, gone, loop, err, reader, caller, got>>

(* buffer.Read: waits for a byte or for the buffer to be closed; data comes  *)
(* before io.EOF.                                                           *)
Read(s, c, k) ==
    LET b == pending[<<s, c>>]  n == Min({k, Len(b.buf)})
    IN  /\ reader[<<s, c>>].pc = "read"
        /\ b.buf # <<>> \/ b.closed
        /\ IF b.buf = <<>>
           THEN reader' = [reader EXCEPT ![<<s, c>>].pc = "eof"] /\ UNCHANGED <<pending, got>>
           ELSE /\ reader' = [reader EXCEPT ![<<s, c>>] = [pc |-> "adjust", n |-> n]]
                /\ pending' = [pending EXCEPT ![<<s, c>>].buf = SubSeq(@, n + 1, Len(@))]
                /\ got' = [got EXCEPT ![<<s, c>>] = @ \o SubSeq(b.buf, 1, n)]
        /\ UNCHANGED <<conn, wire, win, myWindow, sentEOF, sentClose, gone, loop, err, writer, caller>>

(* adjustWindow: first the own window, under windowMu, then the message. *)
adjustWindowTwice(s, c) ==      \* mutant: the window is given back once more
    /\ reader[<<s, c>>].pc = "adjust"
    /\ myWindow' = [myWindow EXCEPT ![s] = @ + 2 * reader[<<s, c>>].n]
    /\ reader' = [reader EXCEPT ![<<s, c>>].pc = "tell"]
    /\ UNCHANGED <<conn, wire, win, pending, sentEOF, sentClose, gone, loop, err, writer, caller, got>>

adjustWindow(s, c) ==
    /\ reader[<<s, c>>].pc = "adjust"
    /\ myWindow' = [myWindow EXCEPT ![s] = @ + reader[<<s, c>>].n]
    /\ reader' = [reader EXCEPT ![<<s, c>>].pc = "tell"]
    /\ UNCHANGED <<conn, wire, win, pending, sentEOF, sentClose, gone, loop, err, writer, caller, got>>

SendAdjust(s, c) ==
    /\ reader[<<s, c>>].pc = "tell"
    /\ writePacket(s, Adjust(reader[<<s, c>>].n))
    /\ reader' = [reader EXCEPT ![<<s, c>>] = [pc |-> "read", n |-> 0]]
    /\ UNCHANGED <<conn, win, myWindow, pending, sentEOF, gone, loop, err, writer, caller, got>>

(* CloseWrite: sentEOF, then the message. *)
CloseWrite(s) ==
    /\ s \in EofSenders /\ caller[s] = "open"
    /\ AfterWrites => \A c \in Codes : writer[<<s, c>>].pc \in {"done", "failed"}
    /\ sentEOF' = [sentEOF EXCEPT ![s] = TRUE]
    /\ caller' = [caller EXCEPT ![s] = "eof"]
    /\ UNCHANGED <<conn, wire, win, myWindow, pending, sentClose, gone, loop, err, writer, reader, got>>

SendEOF(s) ==
    /\ caller[s] = "eof"
    /\ writePacket(s, Eof)
    /\ caller' = [caller EXCEPT ![s] = "half"]
    /\ UNCHANGED <<conn, win, myWindow, pending, sentEOF, gone, loop, err, writer, reader, got>>

Close(s) ==
    /\ s \in Closers /\ caller[s] \in {"open", "half"}
    /\ writePacket(s, CloseMsg)
    /\ caller' = [caller EXCEPT ![s] = "closed"]
    /\ UNCHANGED <<conn, win, myWindow, pending, sentEOF, gone, loop, err, writer, reader, got>>

-----------------------------------------------------------------------------
(* mux.loop: one packet at a time. *)
Received(s) == Head(wire[Peer(s)])
Take(s) == wire' = [wire EXCEPT ![Peer(s)] = Tail(@)]
CanTake(s, type) == loop[s] = "read" /\ wire[Peer(s)] # <<>> /\ Received(s).type = type

(* An error ends the loop, which then closes every channel. *)
Fails(s, e) ==
    /\ err' = [err EXCEPT ![s] = e]
    /\ loop' = [loop EXCEPT ![s] = "eof"]

handleData(s) ==
    LET m == Received(s)  len == Len(m.bytes)
    IN  /\ CanTake(s, "data") /\ Take(s)
        /\ IF gone[s] \/ len > channelMaxPacket \/ myWindow[s] < len
           THEN Fails(s, IF gone[s] THEN "invalid channel" ELSE "wrote too much")
                /\ UNCHANGED <<myWindow, pending>>
           ELSE /\ myWindow' = [myWindow EXCEPT ![s] = @ - len]
                /\ pending' = IF m.code \notin buffers THEN pending     \* discarded
                              ELSE [pending EXCEPT ![<<s, m.code>>] = write(@, m.bytes)]
                /\ UNCHANGED <<err, loop>>
        /\ UNCHANGED <<conn, win, sentEOF, sentClose, gone, writer, reader, caller, got>>

(* windowAdjustMsg. *)
handleAdjust(s) ==
    LET n == Received(s).n
    IN  /\ CanTake(s, "adjust") /\ Take(s)
        /\ IF gone[s] \/ addRefuses(win[s], n)
           THEN Fails(s, IF gone[s] THEN "invalid channel" ELSE "invalid window update")
                /\ UNCHANGED win
           ELSE win' = [win EXCEPT ![s] = add(@, n)] /\ UNCHANGED <<err, loop>>
        /\ UNCHANGED <<conn, myWindow, pending, sentEOF, sentClose, gone, writer, reader, caller, got>>

handleEOF(s) ==
    /\ CanTake(s, "eof") /\ Take(s)
    /\ IF gone[s] THEN Fails(s, "invalid channel") /\ UNCHANGED pending
       ELSE /\ pending' = eofAll(s)
            /\ UNCHANGED <<err, loop>>
    /\ UNCHANGED <<conn, win, myWindow, sentEOF, sentClose, gone, writer, reader, caller, got>>

(* channelCloseMsg: answer, forget the channel, close it. *)
handleClose(s) ==
    /\ CanTake(s, "close") /\ Take(s)
    /\ IF gone[s] THEN Fails(s, "invalid channel")
       ELSE loop' = [loop EXCEPT ![s] = "reply"] /\ UNCHANGED err
    /\ UNCHANGED <<conn, win, myWindow, pending, sentEOF, sentClose, gone, writer, reader, caller, got>>

ReplyClose(s) ==
    /\ loop[s] = "reply"
    /\ writePacket(s, CloseMsg)
    /\ gone' = [gone EXCEPT ![s] = TRUE]
    /\ loop' = [loop EXCEPT ![s] = "eof"]
    /\ UNCHANGED <<conn, win, myWindow, pending, sentEOF, err, writer, reader, caller, got>>

(* channel.close in its order: buffers, sentClose, window. *)
closeBuffers(s) ==
    /\ loop[s] = "eof"
    /\ pending' = eofAll(s)
    /\ loop' = [loop EXCEPT ![s] = "mark"]
    /\ UNCHANGED <<conn, wire, win, myWindow, sentEOF, sentClose, gone, err, writer, reader, caller, got>>

closeWrites(s) ==
    /\ loop[s] = "mark"
    /\ sentClose' = [sentClose EXCEPT ![s] = TRUE]
    /\ loop' = [loop EXCEPT ![s] = "unblock"]
    /\ UNCHANGED <<conn, wire, win, myWindow, pending, sentEOF, gone, err, writer, reader, caller, got>>

closeWindow(s) ==
    /\ loop[s] = "unblock"
    /\ win' = [win EXCEPT ![s].closed = TRUE]
    /\ loop' = [loop EXCEPT ![s] = IF err[s] = "none" THEN "read" ELSE "exit"]
    /\ UNCHANGED <<conn, wire, myWindow, pending, sentEOF, sentClose, gone, err,
                   writer, reader, caller, got>>

(* The loop that failed closes the connection; so may the network. *)
ConnLost ==
    /\ conn = "up"
    /\ MayFail \/ \E s \in Sides : loop[s] = "exit"
    /\ conn' = "lost"
    /\ wire' = [s \in Sides |-> <<>>]
    /\ UNCHANGED <<win, myWindow, pending, sentEOF, sentClose, gone, loop, err, writer, reader, caller, got>>

ReadFails(s) ==
    /\ conn = "lost" /\ loop[s] = "read" /\ wire[Peer(s)] = <<>>
    /\ Fails(s, "connection lost")
    /\ UNCHANGED <<conn, wire, win, myWindow, pending, sentEOF, sentClose, gone,
                   writer, reader, caller, got>>

Loop(s) ==
    \/ handleData(s) \/ handleAdjust(s) \/ handleEOF(s) \/ handleClose(s)
    \/ ReplyClose(s) \/ closeBuffers(s) \/ closeWrites(s) \/ closeWindow(s)
    \/ ReadFails(s)

Writer(s, c) == StartWrite(s, c) \/ reserve(s, c) \/ SendData(s, c)
Reader(s, c) == (\E k \in 1 .. ReadSize : Read(s, c, k)) \/ adjustWindow(s, c) \/ SendAdjust(s, c)

Next ==
    \/ \E s \in Sides : Loop(s) \/ CloseWrite(s) \/ SendEOF(s) \/ Close(s)
    \/ \E t \in Threads : Writer(t[1], t[2])
    \/ \E t \in Readers : Reader(t[1], t[2])
    \/ ConnLost

Spec == Init /\ [][Next]_vars

-----------------------------------------------------------------------------
TypeOK ==
    /\ conn \in {"up", "lost"}
    /\ \A s \in Sides : win[s].win \in 0 .. MaxWin /\ myWindow[s] \in 0 .. MaxWin
    /\ \A t \in Threads : writer[t].n \in 0 .. Writes[t]

SumOver(S, f(_)) == FoldSet(LAMBDA x, acc : acc + f(x), 0, S)
InFlight(s) == SumOver(DOMAIN wire[s], LAMBDA i : IF wire[s][i].type = "data" THEN Len(wire[s][i].bytes) ELSE 0)
Adjusts(s) == SumOver(DOMAIN wire[s], LAMBDA i : IF wire[s][i].type = "adjust" THEN wire[s][i].n ELSE 0)
Reserved(s) == SumOver(Codes, LAMBDA c : writer[<<s, c>>].space)
Telling(s) == SumOver(buffers, LAMBDA c : IF reader[<<s, c>>].pc = "tell" THEN reader[<<s, c>>].n ELSE 0)
Taken(s) == SumOver(buffers, LAMBDA c : IF reader[<<s, c>>].pc = "adjust" THEN reader[<<s, c>>].n ELSE 0)
Unread(s) == SumOver(buffers, LAMBDA c : Len(pending[<<s, c>>].buf))

(* The data of streams without a buffer, which handleExtendedData drops. *)
Discarded(s) ==
    SumOver(Codes \ buffers, LAMBDA c : writer[<<s, c>>].n)
    - SumOver(DOMAIN wire[s], LAMBDA i : IF wire[s][i].type = "data" /\ wire[s][i].code \notin buffers
                                         THEN Len(wire[s][i].bytes) ELSE 0)

Open == conn = "up" /\ \A s \in Sides : ~sentClose[s] /\ err[s] = "none"

(* Flow control of WriteExtended, handleData and adjustWindow: what one end  *)
(* may send, has reserved or has on the wire never exceeds what the other     *)
(* accepts, less the adjustments the first has not seen; the receiver's       *)
(* window and its unread bytes never exceed the initial window.  The comment  *)
(* in adjustWindow ("can never exceed the initial window setting") rests on   *)
(* it.  While the channel is open both are equal: no window is lost, except   *)
(* that of discarded extended data, which is never given back.                *)
WindowConserved ==
    \A s \in Sides :
        LET t == Peer(s)
            sendable == win[s].win + Reserved(s) + InFlight(s) + Adjusts(t) + Telling(t)
            held == myWindow[t] + Taken(t) + Unread(t)
        IN  /\ sendable <= myWindow[t] /\ held <= channelWindowSize
            /\ Open => sendable = myWindow[t] /\ held = channelWindowSize - Discarded(s)

(* Two ends that run this code never see a protocol error from each other,    *)
(* whoever closes when: no data beyond the window, no wrapping adjustment,    *)
(* and nothing for a channel that was already forgotten.                     *)
NoProtocolError == \A s \in Sides : err[s] \in {"none", "connection lost"}

(* Bytes come out of Read in the order they were written, and io.EOF comes    *)
(* only after every byte for which Write of the other end counted success,    *)
(* also when EOF or close arrives before the bytes are read.                  *)
OrderedReliable ==
    \A t \in Readers : LET w == writer[<<Peer(t[1]), t[2]>>] IN
        /\ \A i \in DOMAIN got[t] : got[t][i] = i
        /\ (reader[t].pc = "eof" /\ err[t[1]] = "none") => Len(got[t]) = w.n

(* Every Write has returned.                                                 *)
Written == \A t \in Threads : writer[t].pc \in {"done", "failed"}

(* An end closed the channel, or lost the connection.                        *)
Closing == \E s \in Sides : sentClose[s] \/ err[s] # "none"

(* No goroutine is left in Read or Write.                                    *)
Released == Written /\ \A t \in Readers : reader[t].pc = "eof"

(* A mux.loop that ends closes the connection.                               *)
LoopEnded == \E s \in Sides : loop[s] = "exit"
=============================================================================
