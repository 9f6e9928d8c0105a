----------------------------- MODULE SshForward -----------------------------
(***************************************************************************)
(* Channels the peer opens on an ssh client: handleChannelOpens and the    *)
(* handlers of HandleChannelOpen (ssh/client.go), the forwards of TCP      *)
(* listeners with Listen, Accept and Close (ssh/tcpip.go), and the agent   *)
(* forwarding that handles its channels (ssh/agent/forward.go).            *)
(*                                                                         *)
(* An address is a model value. The mutex of forwardList is held over a    *)
(* blocking operation in one place only, the send of forward: it is held   *)
(* exactly while handleChannels is at "send".                              *)
(***************************************************************************)
EXTENDS Integers, Sequences, FiniteSets
CONSTANTS
  Opens,        \* numbers of the channels the peer opens, 1..n
  Listeners,    \* calls of ListenTCP
  Addrs,        \* addresses
  Auto, None,
  Want,         \* [Listeners -> Addrs \cup {Auto}]; Auto: port 0
  Broken,       \* isBrokenOpenSSHVersion
  Serviced,     \* listeners with a goroutine that calls Accept again and again
  tries,        \* attempts of autoPortListenWorkaround
  ChanCap,      \* capacity of a handler's channel
  MayBreak      \* the connection may end
VARIABLES
  up,        \* the connection lives
  incoming,  \* mux.incomingChannels
  open,      \* [Opens -> [typ, addr]], or None before it is sent
  answer,    \* [Opens -> "none", "accepted", "rejected" or "lost"]
  disp,      \* handleChannelOpens: [pc, id]
  handlers,  \* [types -> "none", "open", "closed"]
  nilMap,    \* channelHandlers = nil
  queue,     \* [types -> the channels sent to the handler]
  agent,     \* ForwardToAgent: "idle", "running", "done", "failed"
  fwd,       \* forwards.handleChannels: [pc, id, to]
  entries,   \* forwardList.entries: listeners in order
  ch,        \* [Listeners -> [q, closed]]: the channel of its entry
  lst,       \* [Listeners -> [pc, addr, tries]]
  acc,       \* [Listeners -> "waiting" or "eof"]: Accept
  closer,    \* the goroutine of NewClient: "wait", "done"
  peer,      \* addresses the peer listens at for us
  panic      \* a channel was closed twice, or sent to when closed
vars == <<up, incoming, open, answer, disp, handlers, nilMap, queue, agent, fwd, entries, ch, lst,
          acc, closer, peer, panic>>
dispVars == <<disp, handlers, nilMap, agent>>
fwdVars == <<entries, ch, lst, acc, closer, panic>>

Types == {"agent", "tcpip"}
Cap == 1   \* make(chan forward, 1)

Init ==
  /\ up = TRUE /\ incoming = <<>> /\ open = [o \in Opens |-> None]
  /\ answer = [o \in Opens |-> "none"] /\ disp = [pc |-> "idle", id |-> None]
  /\ handlers = [t \in Types |-> IF t = "tcpip" THEN "open" ELSE "none"] /\ nilMap = FALSE
  /\ queue = [t \in Types |-> <<>>] /\ agent = "idle"
  /\ fwd = [pc |-> "idle", id |-> None, to |-> None] /\ entries = <<>>
  /\ ch = [l \in Listeners |-> [q |-> <<>>, closed |-> FALSE]]
  /\ lst = [l \in Listeners |-> [pc |-> "idle", addr |-> None, tries |-> 0]]
  /\ acc = [l \in Listeners |-> "waiting"] /\ closer = "wait" /\ peer = {} /\ panic = FALSE
-----------------------------------------------------------------------------
(* The peer and the connection *)

PeerOpens(o) ==
  /\ up /\ open[o] = None /\ (o > 1 => open[o - 1] # None) /\ Len(incoming) < ChanCap
  /\ \E t \in Types \cup {"other"}, a \in Addrs \cup {None} :
       /\ t # "tcpip" => a = None
       /\ open' = [open EXCEPT ![o] = [typ |-> t, addr |-> a]]
  /\ incoming' = Append(incoming, o)
  /\ UNCHANGED <<up, answer, dispVars, queue, fwd, fwdVars, peer>>

\* The mux ends: its channels are closed after what they still hold
Break ==
  /\ MayBreak /\ up /\ up' = FALSE
  /\ UNCHANGED <<incoming, open, answer, dispVars, queue, fwd, fwdVars, peer>>

Decide(o, how) == answer' = [answer EXCEPT ![o] = IF up THEN how ELSE "lost"]
-----------------------------------------------------------------------------
(* client.go *)

Dispatch ==
  /\ disp.pc = "idle" /\ incoming # <<>> /\ incoming' = Tail(incoming)
  /\ LET o == Head(incoming) IN
     IF open[o].typ \in Types /\ handlers[open[o].typ] = "open"
       THEN disp' = [pc |-> "send", id |-> o] /\ UNCHANGED answer
       ELSE Decide(o, "rejected") /\ UNCHANGED disp
  /\ UNCHANGED <<up, open, handlers, nilMap, queue, agent, fwd, fwdVars, peer>>

\* handler <- ch
DispatchSend ==
  /\ disp.pc = "send"
  /\ LET t == open[disp.id].typ IN
       Len(queue[t]) < ChanCap /\ queue' = [queue EXCEPT ![t] = Append(@, disp.id)]
  /\ disp' = [pc |-> "idle", id |-> None]
  /\ UNCHANGED <<up, incoming, open, answer, handlers, nilMap, agent, fwd, fwdVars, peer>>

DispatchEnd ==
  /\ disp.pc = "idle" /\ ~up /\ incoming = <<>> /\ disp' = [pc |-> "done", id |-> None]
  /\ handlers' = [t \in Types |-> IF handlers[t] = "open" THEN "closed" ELSE handlers[t]]
  /\ nilMap' = TRUE
  /\ UNCHANGED <<up, incoming, open, answer, queue, agent, fwd, fwdVars, peer>>

\* ForwardToAgent, with HandleChannelOpen
ForwardToAgent ==
  /\ agent = "idle"
  /\ agent' = (IF nilMap \/ handlers["agent"] = "none" THEN "running" ELSE "failed")
  /\ handlers' = [handlers EXCEPT !["agent"] =
       IF nilMap THEN "closed" ELSE IF @ = "none" THEN "open" ELSE @]
  /\ UNCHANGED <<up, incoming, open, answer, disp, nilMap, queue, fwd, fwdVars, peer>>

\* The goroutine accepts each channel and serves it, until its channel is closed
AgentChannel ==
  /\ agent = "running"
  /\ \/ /\ queue["agent"] # <<>> /\ Decide(Head(queue["agent"]), "accepted")
        /\ queue' = [queue EXCEPT !["agent"] = Tail(@)] /\ UNCHANGED agent
     \/ /\ queue["agent"] = <<>> /\ handlers["agent"] = "closed" /\ agent' = "done"
        /\ UNCHANGED <<queue, answer>>
  /\ UNCHANGED <<up, incoming, open, disp, handlers, nilMap, fwd, fwdVars, peer>>
-----------------------------------------------------------------------------
(* tcpip.go: forwardList *)

Unlocked == fwd.pc # "send"
Entry(a) == SelectSeq(entries, LAMBDA l : lst[l].addr = a)

\* handleChannels takes a channel, and forward looks for its entry
HandleChannel ==
  /\ fwd.pc = "idle" /\ queue["tcpip"] # <<>> /\ queue' = [queue EXCEPT !["tcpip"] = Tail(@)]
  /\ LET o == Head(queue["tcpip"]) IN
     IF open[o].addr = None \/ Entry(open[o].addr) = <<>>
       THEN Decide(o, "rejected") /\ UNCHANGED fwd
       ELSE fwd' = [pc |-> "send", id |-> o, to |-> Head(Entry(open[o].addr))] /\ UNCHANGED answer
  /\ UNCHANGED <<up, incoming, open, dispVars, fwdVars, peer>>

\* f.c <- forward{ch, &raddr}
Forward ==
  /\ fwd.pc = "send"
  /\ \/ /\ ch[fwd.to].closed /\ panic' = TRUE /\ UNCHANGED ch
     \/ /\ ~ch[fwd.to].closed /\ Len(ch[fwd.to].q) < Cap
        /\ ch' = [ch EXCEPT ![fwd.to].q = Append(@, fwd.id)] /\ UNCHANGED panic
  /\ fwd' = [pc |-> "idle", id |-> None, to |-> None]
  /\ UNCHANGED <<up, incoming, open, answer, dispVars, queue, entries, lst, acc, closer, peer>>

HandleEnd ==
  /\ fwd.pc = "idle" /\ queue["tcpip"] = <<>> /\ handlers["tcpip"] = "closed"
  /\ fwd' = [pc |-> "done", id |-> None, to |-> None]
  /\ UNCHANGED <<up, incoming, open, answer, dispVars, queue, fwdVars, peer>>

\* conn.Wait() has returned
closeAll ==
  /\ ~up /\ closer = "wait" /\ Unlocked /\ closer' = "done"
  /\ LET closing == {entries[i] : i \in DOMAIN entries} IN
       /\ ch' = [l \in Listeners |-> [ch[l] EXCEPT !.closed = @ \/ l \in closing]]
       /\ panic' = (panic \/ \E l \in closing : ch[l].closed)
  /\ entries' = <<>>
  /\ UNCHANGED <<up, incoming, open, answer, dispVars, queue, fwd, lst, acc, peer>>
-----------------------------------------------------------------------------
(* tcpip.go: a listener *)

\* ListenTCP sends its request; autoPortListenWorkaround chooses the port
Ask(l) ==
  /\ lst[l].pc \in {"idle", "retry"}
  /\ \E a \in IF Want[l] # Auto THEN {Want[l]} ELSE IF Broken THEN Addrs ELSE {Auto} :
       lst' = [lst EXCEPT ![l] = [pc |-> "asked", addr |-> a, tries |-> @.tries + 1]]
  /\ UNCHANGED <<up, incoming, open, answer, dispVars, queue, fwd, entries, ch, acc, closer, peer, panic>>

\* The peer listens, and chooses the port if the request has none
Granted(l) ==
  /\ up /\ lst[l].pc = "asked"
  /\ \E a \in (IF lst[l].addr = Auto THEN Addrs ELSE {lst[l].addr}) \ peer :
       /\ peer' = peer \cup {a}
       /\ lst' = [lst EXCEPT ![l].pc = "granted", ![l].addr = a]
  /\ UNCHANGED <<up, incoming, open, answer, dispVars, queue, fwd, entries, ch, acc, closer, panic>>

\* Denied, or the connection has ended
Denied(l) ==
  /\ lst[l].pc = "asked"
  /\ lst' = [lst EXCEPT ![l].addr = None, ![l].pc =
       IF Want[l] = Auto /\ Broken /\ lst[l].tries < tries THEN "retry" ELSE "failed"]
  /\ UNCHANGED <<up, incoming, open, answer, dispVars, queue, fwd, entries, ch, acc, closer, peer, panic>>

\* c.forwards.add
Add(l) ==
  /\ lst[l].pc = "granted" /\ Unlocked
  /\ entries' = Append(entries, l) /\ lst' = [lst EXCEPT ![l].pc = "listening"]
  /\ UNCHANGED <<up, incoming, open, answer, dispVars, queue, fwd, ch, acc, closer, peer, panic>>

\* The next connection, or io.EOF
Accept(l) ==
  /\ l \in Serviced /\ lst[l].pc \in {"listening", "remove", "cancel", "closed"} /\ acc[l] = "waiting"
  /\ \/ /\ ch[l].q # <<>> /\ ch' = [ch EXCEPT ![l].q = Tail(@)]
        /\ Decide(Head(ch[l].q), "accepted") /\ UNCHANGED acc
     \/ /\ ch[l].q = <<>> /\ ch[l].closed /\ acc' = [acc EXCEPT ![l] = "eof"]
        /\ UNCHANGED <<ch, answer>>
  /\ UNCHANGED <<up, incoming, open, dispVars, queue, fwd, entries, lst, closer, peer, panic>>

CloseBegin(l) ==
  /\ lst[l].pc = "listening" /\ lst' = [lst EXCEPT ![l].pc = "remove"]
  /\ UNCHANGED <<up, incoming, open, answer, dispVars, queue, fwd, entries, ch, acc, closer, peer, panic>>

\* remove closes the channel of the entry with the listener's address, if there is one
Remove(l) ==
  /\ lst[l].pc = "remove" /\ Unlocked /\ lst' = [lst EXCEPT ![l].pc = "cancel"]
  /\ IF Entry(lst[l].addr) # <<>>
       THEN LET m == Head(Entry(lst[l].addr)) IN
            /\ entries' = SelectSeq(entries, LAMBDA e : e # m)
            /\ ch' = [ch EXCEPT ![m].closed = TRUE] /\ panic' = (panic \/ ch[m].closed)
       ELSE UNCHANGED <<entries, ch, panic>>
  /\ UNCHANGED <<up, incoming, open, answer, dispVars, queue, fwd, acc, closer, peer>>

\* cancel-tcpip-forward, or an error
Cancel(l) ==
  /\ lst[l].pc = "cancel" /\ lst' = [lst EXCEPT ![l].pc = "closed"]
  /\ peer' = peer \ {lst[l].addr}
  /\ UNCHANGED <<up, incoming, open, answer, dispVars, queue, fwd, entries, ch, acc, closer, panic>>

Listener(l) ==
  Ask(l) \/ Granted(l) \/ Denied(l) \/ Add(l) \/ Accept(l) \/ CloseBegin(l) \/ Remove(l) \/ Cancel(l)
Next ==
  \/ \E o \in Opens : PeerOpens(o)
  \/ Dispatch \/ DispatchSend \/ DispatchEnd \/ ForwardToAgent \/ AgentChannel
  \/ HandleChannel \/ Forward \/ HandleEnd \/ closeAll \/ Break
  \/ \E l \in Listeners : Listener(l)

Spec == Init /\ [][Next]_vars
-----------------------------------------------------------------------------
(***************************************************************************)
(* No channel of a forward is closed twice or sent to once it is closed,   *)
(* whichever of Close, closeAll and forward come together.                 *)
(***************************************************************************)
NoPanic == ~panic

(* The peer opened a channel that nobody has answered while the connection  *)
(* lives.                                                                   *)
Unanswered(o) == open[o] # None /\ answer[o] = "none" /\ up

(* The connection has ended.                                                *)
Down == ~up

(* No goroutine handles channels any more.                                  *)
HandlersDone == agent # "running" /\ fwd.pc = "done"
=============================================================================
