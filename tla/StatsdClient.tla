---------------------------- MODULE StatsdClient ----------------------------
(***************************************************************************)
(* The statsd client (internal/github.com/cespare/gostc): callers of       *)
(* Count, CountProb, Time, Gauge and Set, the sending goroutine            *)
(* bufferAndSend with its timer, and Close. A message is its length and    *)
(* its sampling rate in percent; a packet is the messages it joins.        *)
(*                                                                         *)
(* Close is called when no caller is inside the client, as its comment     *)
(* asks. Time passes when the sending goroutine has nothing to receive.    *)
(***************************************************************************)
EXTENDS Integers, Sequences, SequencesExt
CONSTANTS
  Calls,           \* the calls, each [id, len, rate, prob]
  SuffixLen,       \* the length of "@" and the rate
  buffered,        \* NewBufferedClient, or NewClient
  queueSize, maxPacketBytes, minFlush,
  MaxAge           \* time stops when a message has waited so long
VARIABLES
  todo,      \* calls not made yet
  accepted,  \* messages taken, in order
  incoming, buf,
  packets,   \* what was written to the connection
  pc,        \* bufferAndSend: "select", "drain", "replied"
  closer,    \* Close: "open", "quit", "close", "closed"
  timer,     \* ticks until the timer fires; 0: it has stopped
  fired,     \* timer.C holds a value
  age        \* ticks the first message of buf has waited
vars == <<todo, accepted, incoming, buf, packets, pc, closer, timer, fired, age>>

Init ==
  /\ todo = Calls /\ accepted = <<>> /\ incoming = <<>> /\ buf = <<>> /\ packets = <<>>
  /\ pc = "select" /\ closer = "open" /\ timer = (IF buffered THEN minFlush ELSE 0)
  /\ fired = FALSE /\ age = 0
-----------------------------------------------------------------------------
Length(m) == m.len + IF m.rate = 100 THEN 0 ELSE SuffixLen

\* Messages are joined by newlines
Size(ms) == FoldSeq(LAMBDA m, n : n + Length(m), 0, ms) + IF ms = <<>> THEN 0 ELSE Len(ms) - 1

BadRate(m) == m.rate > 100 \/ m.rate <= 0

\* CountProb and IncProb submit with the probability of the rate
MaySkip(m) == m.prob /\ m.rate < 100

\* Count and the others, once the message is formatted
Submit(m) ==
  /\ accepted' = Append(accepted, m)
  /\ IF buffered
       THEN Len(incoming) < queueSize /\ incoming' = Append(incoming, m) /\ UNCHANGED packets
       ELSE packets' = Append(packets, <<m>>) /\ UNCHANGED incoming

\* ErrSamplingRate, or not drawn by CountProb, or submitted
Call(m) ==
  /\ closer = "open" /\ m \in todo /\ todo' = todo \ {m}
  /\ \/ (BadRate(m) \/ MaySkip(m)) /\ UNCHANGED <<accepted, incoming, packets>>
     \/ ~BadRate(m) /\ Submit(m)
  /\ UNCHANGED <<buf, pc, closer, timer, fired, age>>

\* case <-timer.C
TimerCase ==
  /\ buffered /\ pc = "select" /\ fired
  /\ packets' = (IF buf = <<>> THEN packets ELSE Append(packets, buf)) /\ buf' = <<>>
  /\ timer' = minFlush /\ fired' = FALSE /\ age' = 0
  /\ UNCHANGED <<todo, accepted, incoming, pc, closer>>

Full(m) == Size(buf) + Length(m) + 1 > maxPacketBytes

\* A full packet goes first, even an empty one
AddToPacket(m) ==
  /\ packets' = (IF Full(m) THEN Append(packets, buf) ELSE packets)
  /\ buf' = (IF Full(m) THEN <<m>> ELSE Append(buf, m))
  /\ age' = IF Full(m) \/ buf = <<>> THEN 0 ELSE age

\* case msg := <-c.incoming; a value the timer has sent already stays in timer.C
MessageCase ==
  /\ pc = "select" /\ incoming # <<>> /\ incoming' = Tail(incoming)
  /\ timer' = (IF Full(Head(incoming)) THEN minFlush ELSE timer)
  /\ AddToPacket(Head(incoming))
  /\ UNCHANGED <<todo, accepted, pc, closer, fired>>

\* Close: c.quit <- q is received
QuitCase ==
  /\ buffered /\ closer = "open" /\ pc = "select"
  /\ closer' = "quit" /\ pc' = "drain"
  /\ UNCHANGED <<todo, accepted, incoming, buf, packets, timer, fired, age>>

CloseIncoming ==
  /\ closer = "quit" /\ closer' = "close"
  /\ UNCHANGED <<todo, accepted, incoming, buf, packets, pc, timer, fired, age>>

DrainMessage ==
  /\ pc = "drain" /\ incoming # <<>> /\ incoming' = Tail(incoming)
  /\ AddToPacket(Head(incoming))
  /\ UNCHANGED <<todo, accepted, pc, closer, timer, fired>>

\* what is left in the buffer is not sent
DrainEndDrops ==
  /\ pc = "drain" /\ incoming = <<>> /\ closer = "close" /\ pc' = "replied" /\ closer' = "closed"
  /\ UNCHANGED <<todo, accepted, incoming, buf, packets, timer, fired, age>>

\* The channel is closed and empty: the last packet, q <- true, c.c.Close()
DrainEnd ==
  /\ pc = "drain" /\ incoming = <<>> /\ closer = "close" /\ pc' = "replied" /\ closer' = "closed"
  /\ packets' = (IF buf = <<>> THEN packets ELSE Append(packets, buf)) /\ buf' = <<>> /\ age' = 0
  /\ UNCHANGED <<todo, accepted, incoming, timer, fired>>

\* Close of a client without a buffer
CloseUnbuffered ==
  /\ ~buffered /\ closer = "open" /\ closer' = "closed"
  /\ UNCHANGED <<todo, accepted, incoming, buf, packets, pc, timer, fired, age>>

Tick ==
  /\ buffered /\ pc = "select" /\ incoming = <<>> /\ ~fired /\ age < MaxAge
  /\ timer' = (IF timer > 0 THEN timer - 1 ELSE 0) /\ fired' = (timer = 1)
  /\ age' = IF buf = <<>> THEN 0 ELSE age + 1
  /\ UNCHANGED <<todo, accepted, incoming, buf, packets, pc, closer>>

Closing == QuitCase \/ CloseUnbuffered
Sender == TimerCase \/ MessageCase \/ DrainMessage \/ DrainEnd
Next ==
  \/ \E m \in Calls : Call(m)
  \/ Closing \/ CloseIncoming \/ Sender \/ Tick

Spec == Init /\ [][Next]_vars
-----------------------------------------------------------------------------
(***************************************************************************)
(* Every message the client took is in exactly one place, and the order is *)
(* kept: the packets, then the buffer, then the channel, put one after the *)
(* other, are the messages in the order of the calls, whatever the timer,  *)
(* full packets and Close do in between.                                   *)
(***************************************************************************)
Conserved == FlattenSeq(packets) \o buf \o incoming = accepted

(***************************************************************************)
(* "If the client is buffered, Close first sends any buffered messages."   *)
(***************************************************************************)
CloseSendsAll == closer = "closed" => FlattenSeq(packets) = accepted

(***************************************************************************)
(* "Message are buffered until maxPacketBytes is reached or until some     *)
(* time as passed (no more than minFlush)": no message waits longer in the *)
(* buffer.                                                                 *)
(***************************************************************************)
SentInTime == age <= minFlush

\* A message that fills a packet with its newline, or more than fills it
Fills(m) == Length(m) + 1 > maxPacketBytes

(***************************************************************************)
(* maxPacketBytes is said to be the "maximum single packet size". What     *)
(* bufferAndSend keeps of that: a message that fills a packet is sent in a *)
(* packet of its own, and every other packet is within the limit, newlines *)
(* included. Such a message may exceed the limit by itself, and goes out   *)
(* all the same; and a packet with nothing in it is sent only right before *)
(* one, when the buffer was empty.                                         *)
(***************************************************************************)
PacketBounded ==
  \A i \in DOMAIN packets :
    /\ Size(packets[i]) <= maxPacketBytes \/ \E m \in Calls : packets[i] = <<m>> /\ Fills(m)
    /\ \A k \in DOMAIN packets[i] : Fills(packets[i][k]) => Len(packets[i]) = 1
    /\ packets[i] = <<>> => Fills(Head((FlattenSeq(SubSeq(packets, i + 1, Len(packets))) \o buf)))

\* Close was called, and has returned
CloseCalled == closer # "open"
Closed == closer = "closed"
=============================================================================
