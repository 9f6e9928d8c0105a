----------------------------- MODULE SshSession -----------------------------
(***************************************************************************)
(* A session with a remote command (ssh/session.go), by which gumtool starts    *)
(* its merges: Start or Shell and what they set up, the goroutines that copy      *)
(* the three streams, the one that serves the channel's requests, and Wait.        *)
(*                                                                         *)
(* The channel is what SshChannel promises: data, requests, EOF and close arrive   *)
(* in the order in which the server sent them, up to the loss of the connection,    *)
(* which takes what is in flight with it. A server may send output after the exit   *)
(* status, and the close some time after both.                                  *)
(***************************************************************************)
EXTENDS Integers, Sequences, TLC

CONSTANTS
    Settings,   \* Stdin, Stdout, Stderr as the user sets them, and the calls the user may make
    MaxOut,     \* bounds on the chunks of the two output streams
    MaxIn,      \* chunks of a Stdin that is not nil
    MayFail     \* TRUE: the connection may be lost

SessionAssumption == MaxOut \in [{"stdout", "stderr"} -> Nat] /\ MaxIn \in Nat /\ MayFail \in BOOLEAN

VARIABLES
    s,        \* the Session: Stdin, Stdout, Stderr, the pipe flags, started, wm, exitStatus
    user,     \* what the user's goroutine does, and the error its call returned
    copy,     \* the goroutine of each copyFunc, or the error it sent to errors
    feeder,   \* the goroutine that feeds the pipe in front of a Stdin: chunks left
    pipe,     \* that pipe: "none", "open" or "closed"
    ch,       \* the channel: what is in flight, chunks and requests not yet taken, eof, closed, lost
    process,  \* the remote process and its server: state and exit value
    sent, got \* chunks the process wrote, and chunks that reached Stdout and Stderr

vars == <<s, user, copy, feeder, pipe, ch, process, sent, got>>

Streams == {"stdout", "stderr"}
Fds == {"stdin"} \cup Streams

Init ==      \* newSession, with its goroutine in wait()
    /\ \E set \in Settings :
         /\ s = [set |-> set, pipes |-> {}, started |-> FALSE, status |-> -1, signal |-> "none",
                 exitStatus |-> "none"]
         /\ feeder = 0
    /\ user = [pc |-> "idle", call |-> "none", err |-> "none"]
    /\ copy = [f \in Fds |-> "none"]
    /\ pipe = "none"
    /\ ch = [wire |-> <<>>, stdout |-> 0, stderr |-> 0, reqs |-> <<>>,
             eof |-> FALSE, closed |-> FALSE, lost |-> FALSE]
    /\ process = [state |-> "none", exit |-> "none"]
    /\ sent = [f \in Streams |-> 0] /\ got = [f \in Streams |-> 0]

-----------------------------------------------------------------------------
(* The user's calls. *)

(* A pipe is refused where the stream is set. *)
Pipe(f) ==
    /\ user.pc = "idle" /\ f \in s.set.mayPipe
    /\ s' = IF s.set[f] # "nil" \/ s.started THEN s ELSE [s EXCEPT !.pipes = @ \cup {f}]
    /\ UNCHANGED <<user, copy, feeder, pipe, ch, process, sent, got>>

StdinPipe == Pipe("stdin")
StdoutPipe == Pipe("stdout")
StderrPipe == Pipe("stderr")

(* A call that ends with Wait, up to the request; it takes some streams for itself. *)
Call(c, takes) ==
    LET refused == s.started \/ \E f \in takes : s.set[f] # "nil"
    IN  /\ user.pc = "idle" /\ c \in s.set.calls
        /\ s' = IF refused THEN s
                ELSE [s EXCEPT !.set.stdout = IF "stdout" \in takes THEN "buffer" ELSE @,
                               !.set.stderr = IF "stderr" \in takes THEN "buffer" ELSE @]
        /\ user' = IF refused THEN [pc |-> "returned", call |-> c, err |-> "alreadySet"]
                   ELSE [pc |-> "request", call |-> c, err |-> "none"]
        /\ UNCHANGED <<copy, feeder, pipe, ch, process, sent, got>>

Run == Call("Run", {})
Shell == Call("Shell", {})
Output == Call("Output", {"stdout"})
CombinedOutput == Call("CombinedOutput", Streams)

copyFuncs == Fds \ s.pipes

(* SendRequest answers, and start() sets up the copies. *)
start ==
    /\ user.pc = "request" /\ ~ch.lost
    /\ s' = [s EXCEPT !.started = TRUE]
    /\ copy' = [f \in Fds |-> IF f \in copyFuncs THEN "running" ELSE "none"]
    /\ pipe' = IF "stdin" \in copyFuncs /\ s.set.stdin # "nil" THEN "open" ELSE "none"
    /\ feeder' = IF "stdin" \in copyFuncs /\ s.set.stdin # "nil" THEN MaxIn ELSE 0
    /\ process' = [process EXCEPT !.state = "running"]
    /\ user' = [user EXCEPT !.pc = "wait"]
    /\ UNCHANGED <<ch, sent, got>>

startFails(why) ==
    /\ user.pc = "request" /\ (why = "lost") = ch.lost
    /\ user' = [user EXCEPT !.pc = "returned", !.err = why]
    /\ UNCHANGED <<s, copy, feeder, pipe, ch, process, sent, got>>

(* Wait: the exit status, then the copies. *)
WaitStatus ==
    /\ user.pc = "wait" /\ s.exitStatus # "none"
    /\ user' = [user EXCEPT !.pc = "collect", !.err = s.exitStatus]
    /\ pipe' = IF pipe = "open" THEN "closed" ELSE pipe
    /\ UNCHANGED <<s, copy, feeder, ch, process, sent, got>>

Sent == {f \in copyFuncs : copy[f] # "running"}

WaitAny ==      \* mutant: the first copy to end is enough
    /\ user.pc = "collect" /\ Sent # {}
    /\ user' = [user EXCEPT !.pc = "returned"]
    /\ UNCHANGED <<s, copy, feeder, pipe, ch, process, sent, got>>

Wait ==
    /\ user.pc = "collect" /\ Sent = copyFuncs
    /\ user' = [user EXCEPT !.pc = "returned",
                            !.err = IF @ # "nil" THEN @
                                    ELSE IF \E f \in copyFuncs : copy[f] # "nil" THEN "copyError" ELSE "nil"]
    /\ UNCHANGED <<s, copy, feeder, pipe, ch, process, sent, got>>

-----------------------------------------------------------------------------
(* The goroutines of the session. *)

ends(f, err) == copy' = [copy EXCEPT ![f] = err]

(* A packet that cannot be written: EOF on a closed channel, else the error of a lost connection. *)
Unwritable == ch.closed \/ ch.lost
writeError == IF ch.closed THEN "EOF" ELSE "lost"

(* io.Copy(s.ch, stdin) and CloseWrite: a chunk from the feeder, or the end. *)
stdinChunk ==
    /\ copy["stdin"] = "running" /\ pipe = "open" /\ feeder > 0
    /\ feeder' = feeder - 1
    /\ IF Unwritable THEN ends("stdin", writeError) ELSE UNCHANGED copy
    /\ UNCHANGED <<s, user, pipe, ch, process, sent, got>>

stdinEnd ==      \* a Stdin that blocks has no end of its own; an EOF from CloseWrite is no error
    /\ copy["stdin"] = "running"
    /\ pipe # "open" \/ (feeder = 0 /\ s.set.stdin # "blocks")
    /\ ends("stdin", IF Unwritable /\ writeError # "EOF" THEN writeError ELSE "nil")
    /\ UNCHANGED <<s, user, feeder, pipe, ch, process, sent, got>>

(* io.Copy to Stdout or Stderr: Read returns the chunk with the error of the window adjustment, *)
(* EOF excepted, and such an error ends the copy.                                            *)
copyOut(f) ==
    /\ copy[f] = "running"
    /\ \/ /\ ch[f] > 0
          /\ ch' = [ch EXCEPT ![f] = @ - 1]
          /\ got' = [got EXCEPT ![f] = @ + 1]
          /\ IF Unwritable /\ writeError # "EOF" THEN ends(f, writeError) ELSE UNCHANGED copy
       \/ /\ ch[f] = 0 /\ (ch.eof \/ ch.closed)
          /\ ends(f, "nil")
          /\ UNCHANGED <<ch, got>>
    /\ UNCHANGED <<s, user, feeder, pipe, process, sent>>

(* wait(): one request, or the end of the requests; it gives up on an exit-signal that cannot be *)
(* decoded.                                                                                   *)
request ==
    LET r == Head(ch.reqs)
    IN  /\ ch.reqs # <<>> /\ s.exitStatus = "none"
        /\ ch' = [ch EXCEPT !.reqs = Tail(@)]
        /\ s' = CASE r.type = "exit-status" -> [s EXCEPT !.status = r.value]
                  [] r.type = "exit-signal" /\ r.value # "malformed" -> [s EXCEPT !.signal = r.value]
                  [] r.type = "exit-signal" /\ r.value = "malformed" -> [s EXCEPT !.exitStatus = "parseError"]
                  [] OTHER -> s
        /\ UNCHANGED <<user, copy, feeder, pipe, process, sent, got>>

signals == [KILL |-> 9]
signalStatus(sig) == 128 + (IF sig \in DOMAIN signals THEN signals[sig] ELSE 0)

exitError(status, signal) ==
    CASE status = 0 -> "nil"
      [] status = -1 /\ signal = "none" -> "noStatus"
      [] status = -1 /\ signal # "none" -> ToString(signalStatus(signal))
      [] OTHER -> ToString(status)

waitEnds ==
    /\ ch.reqs = <<>> /\ ch.closed /\ s.exitStatus = "none"
    /\ s' = [s EXCEPT !.exitStatus = exitError(s.status, s.signal)]
    /\ UNCHANGED <<user, copy, feeder, pipe, ch, process, sent, got>>

-----------------------------------------------------------------------------
(* The remote process, which need not read its input, and its server. *)
Message(type) == [type |-> type, value |-> 0]
sends(msg) == ch' = [ch EXCEPT !.wire = Append(@, msg)]

ProcessWrites(f) ==      \* the server may read it, or a child may write it, after the exit
    /\ process.state \in {"running", "exited"} /\ ~ch.lost /\ sent[f] < MaxOut[f]
    /\ sent' = [sent EXCEPT ![f] = @ + 1]
    /\ sends(Message(f))
    /\ UNCHANGED <<s, user, copy, feeder, pipe, process, got>>

KeepAlive ==
    /\ process.state = "running" /\ ~ch.lost
    /\ ch.reqs = <<>> /\ Message("keepalive") \notin {ch.wire[i] : i \in DOMAIN ch.wire}
    /\ sends(Message("keepalive"))
    /\ UNCHANGED <<s, user, copy, feeder, pipe, process, sent, got>>

ProcessExits(x) ==
    /\ process.state = "running" /\ ~ch.lost
    /\ process' = [state |-> "exited", exit |-> x]
    /\ IF x.type = "none" THEN UNCHANGED ch ELSE sends(x)
    /\ UNCHANGED <<s, user, copy, feeder, pipe, sent, got>>

ServerEnds ==      \* the EOF once all output was sent, then the close
    /\ process.state \in {"exited", "eof"} /\ ~ch.lost
    /\ process' = [process EXCEPT !.state = IF @ = "exited" THEN "eof" ELSE "closed"]
    /\ sends(Message(IF process.state = "exited" THEN "eof" ELSE "close"))
    /\ UNCHANGED <<s, user, copy, feeder, pipe, sent, got>>

(* mux.onePacket and channel.handlePacket at this end. *)
handlePacket ==
    LET p == Head(ch.wire)
        c == [ch EXCEPT !.wire = Tail(@)]
    IN  /\ ch.wire # <<>>
        /\ ch' = CASE p.type \in Streams -> [c EXCEPT ![p.type] = @ + 1]
                   [] p.type = "eof" -> [c EXCEPT !.eof = TRUE]
                   [] p.type = "close" -> [c EXCEPT !.closed = TRUE]
                   [] OTHER -> [c EXCEPT !.reqs = Append(@, p)]
        /\ UNCHANGED <<s, user, copy, feeder, pipe, process, sent, got>>

(* The connection is lost with all that is in flight; then mux.loop closes the channel. *)
ConnLost ==
    /\ MayFail /\ ~ch.lost /\ ~ch.closed
    /\ ch' = [ch EXCEPT !.lost = TRUE, !.wire = <<>>]
    /\ UNCHANGED <<s, user, copy, feeder, pipe, process, sent, got>>

loopEnds ==
    /\ ch.lost /\ ~ch.closed
    /\ ch' = [ch EXCEPT !.closed = TRUE]
    /\ UNCHANGED <<s, user, copy, feeder, pipe, process, sent, got>>

(* The user reads the pipes. *)
PipeRead(f) ==
    /\ f \in s.pipes /\ ch[f] > 0
    /\ ch' = [ch EXCEPT ![f] = @ - 1]
    /\ UNCHANGED <<s, user, copy, feeder, pipe, process, sent, got>>

Exits == {[type |-> "exit-status", value |-> 0], [type |-> "exit-status", value |-> 3],
          [type |-> "exit-signal", value |-> "KILL"], [type |-> "exit-signal", value |-> "malformed"],
          [type |-> "none", value |-> 0]}

Session ==
    \/ start \/ WaitStatus \/ Wait \/ stdinChunk \/ stdinEnd \/ request \/ waitEnds
    \/ \E f \in Streams : copyOut(f)

Next ==
    \/ StdinPipe \/ StdoutPipe \/ StderrPipe
    \/ Run \/ Shell \/ Output \/ CombinedOutput
    \/ \E why \in {"refused", "lost"} : startFails(why)
    \/ Session
    \/ \E f \in Streams : ProcessWrites(f) \/ PipeRead(f)
    \/ KeepAlive
    \/ \E x \in Exits : ProcessExits(x)
    \/ ServerEnds \/ handlePacket \/ ConnLost \/ loopEnds

Spec == Init /\ [][Next]_vars

-----------------------------------------------------------------------------
Returned == user.pc = "returned" /\ s.started
Captured(f) == s.set[f] # "nil" /\ f \notin s.pipes

(* When Run, Output or CombinedOutput return, Stdout and Stderr hold all that the     *)
(* process wrote, however its output, its exit, the EOF and the close overlap, unless the *)
(* connection was lost; and even then nil means that all that arrived is there. It does   *)
(* not mean that all arrived: after an exit status of zero a lost connection is no error, *)
(* though the comment of Wait promises nil for "no problems copying stdin, stdout, and    *)
(* stderr".                                                                             *)
OutputComplete ==
    Returned => \A f \in Streams : Captured(f) =>
        /\ ~ch.lost => got[f] = sent[f]
        /\ user.err = "nil" => ch[f] = 0

Exited == process.state \notin {"none", "running"}

(* The error for an exit that the session learned of. *)
Verdict(x) ==
    CASE x.type = "none" -> {"noStatus"}
      [] x.type = "exit-signal" /\ x.value = "malformed" -> {"parseError"}
      [] x.type = "exit-signal" /\ x.value # "malformed" -> {ToString(128 + 9)}
      [] x.type = "exit-status" /\ x.value # 0 -> {ToString(x.value)}
      [] OTHER -> {"nil", "copyError"}

(* The error that Wait returns is that of the process: nil only for a status of zero    *)
(* (with its input copied), and the status, or 128 and the signal, otherwise; a          *)
(* connection lost before the news arrived gives an exit without status.                *)
StatusFaithful ==
    Returned /\ Exited => user.err \in Verdict(process.exit) \cup (IF ch.lost THEN {"noStatus"} ELSE {})

(* Without exit there is no success. *)
NoExitNoSuccess == Returned /\ ~Exited => user.err = "noStatus"

(* The user is in Wait.                                                     *)
InWait == user.pc \in {"wait", "collect"}
=============================================================================
