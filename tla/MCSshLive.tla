------------------------------ MODULE MCSshLive ------------------------------
(* The SSH and SFTP packages, each component by itself: what must come to   *)
(* an end.  A behaviour runs one component, part, on the variables v1 to    *)
(* v17.                                                                     *)
EXTENDS Integers, Sequences, TLC

CONSTANTS None, Auto

VARIABLES part,   \* the component that this behaviour runs
          v1, v2, v3, v4, v5, v6, v7, v8, v9, v10, v11, v12, v13, v14, v15, v16, v17   \* its variables

vars == <<part, v1, v2, v3, v4, v5, v6, v7, v8, v9, v10, v11, v12, v13, v14, v15, v16, v17>>

----------------------------------------------------------------------------
(* The ends of a connection and of its channels.                            *)
Ends == {"a", "b"}

FromA(codes) == [t \in Ends \X codes |-> IF t[1] = "a" THEN 2 ELSE 0]

(* A goroutine that sends a request on a channel, or on the connection.     *)
OnChannel == [side |-> "a", on |-> "channel", name |-> "k1"]

OnMux == [side |-> "a", on |-> "global", name |-> "k1"]

(* One goroutine that writes packets on either side of a transport.         *)
ClientWriter == [side |-> "client", name |-> "w1"]

ServerWriter == [side |-> "server", name |-> "w1"]

Writers == {ClientWriter, ServerWriter}

(* The preferences of the two sides for ciphers: both directions alike.     *)
Preferences == [client |-> [c2s |-> <<"ctr", "gcm">>, s2c |-> <<"ctr", "gcm">>],
                server |-> [c2s |-> <<"gcm", "ctr">>, s2c |-> <<"gcm", "ctr">>]]

(* Every set of good credentials, against a client that tries all methods.  *)
Configs ==
    {[Auth |-> <<"publickey", "keyboard-interactive", "password">>, signers |-> <<"k1", "k2">>,
      callbacks |-> {"password", "publickey", "keyboard-interactive"}, NoClientAuth |-> FALSE,
      accepts |-> {<<"u", x>> : x \in g}, elsewhere |-> {}, unacceptable |-> {},
      rounds |-> 2, prompts |-> 1, answers |-> 1] : g \in SUBSET {"password", "answers", "k1", "k2"}}

(* A session with some input and then a read of it that never ends.         *)
Settings ==
    {[stdin |-> "blocks", stdout |-> "buffer", stderr |-> "nil", mayPipe |-> {}, calls |-> {"Run"}]}

Request(op, key, pass) == [op |-> op, key |-> key, cert |-> "none", pass |-> pass]

Requests == {Request("list", None, None), Request("add", "k1", None), Request("remove", "k1", None)}

(* A tree of three directories, one of them empty.                          *)
Children == "r" :> <<"a", "d", "e", "b">> @@ "d" :> <<"c", "f">> @@ "e" :> <<>>

----------------------------------------------------------------------------

Channel == INSTANCE SshChannel WITH
    Sides <- Ends, channelWindowSize <- 1, channelMaxPacket <- 2, MaxWin <- 3,
    ReadSize <- 1, Codes <- {0}, Writes <- FromA({0}), Readers <- Ends \X {0},
    Closers <- {"b"}, EofSenders <- {}, AfterWrites <- TRUE, MayFail <- TRUE, conn <- v1,
    wire <- v2, win <- v3, myWindow <- v4, pending <- v5, sentEOF <- v6, sentClose <- v7,
    gone <- v8, loop <- v9, err <- v10, writer <- v11, reader <- v12, caller <- v13,
    got <- v14

Mux == INSTANCE SshMux WITH
    Sides <- Ends, ChanCap <- 1, Openers <- [m \in Ends |-> IF m = "a" THEN 1 ELSE 0],
    MaxChan <- 2, Askers <- {OnChannel}, MaxAsks <- 1, MayReject <- FALSE, Failure <- "read",
    conn <- v1, wire <- v2, chan <- v3, chans <- v4, incoming <- v5, globalReqs <- v6,
    globalResp <- v7, loop <- v8, err <- v9, opener <- v10, asker <- v11, misled <- v12

Global == INSTANCE SshMux WITH
    Sides <- Ends, ChanCap <- 1, Openers <- [m \in Ends |-> IF m = "a" THEN 1 ELSE 0],
    MaxChan <- 2, Askers <- {OnMux}, MaxAsks <- 1, MayReject <- FALSE, Failure <- "read",
    conn <- v1, wire <- v2, chan <- v3, chans <- v4, incoming <- v5, globalReqs <- v6,
    globalResp <- v7, loop <- v8, err <- v9, opener <- v10, asker <- v11, misled <- v12

Kex == INSTANCE SshHandshake WITH
    RekeyThreshold <- 2, IncomingCap <- 1, Writers <- Writers, Packets <- 3,
    Ciphers <- Preferences, Answers <- {"client"}, MayRefuse <- FALSE, MayLose <- FALSE, wire <- v1,
    closed <- v2, key <- v3, pendingKey <- v4, sessionID <- v5, sentInit <- v6,
    written <- v7, readSince <- v8, writeError <- v9, mu <- v10, loop <- v11, held <- v12,
    err <- v13, incoming <- v14, exchange <- v15, writer <- v16, user <- v17

KexFails == INSTANCE SshHandshake WITH
    RekeyThreshold <- 0, IncomingCap <- 1, Writers <- Writers, Packets <- 1,
    Ciphers <- Preferences, Answers <- {"client"}, MayRefuse <- TRUE, MayLose <- TRUE, wire <- v1,
    closed <- v2, key <- v3, pendingKey <- v4, sessionID <- v5, sentInit <- v6,
    written <- v7, readSince <- v8, writeError <- v9, mu <- v10, loop <- v11, held <- v12,
    err <- v13, incoming <- v14, exchange <- v15, writer <- v16, user <- v17

Auth == INSTANCE SshAuth WITH
    User <- "u", Keys <- {"k1", "k2"}, Users <- {"u"}, Configs <- Configs,
    maxCachedPubKeys <- 2, MaxAsked <- 0, MaxBanners <- 0, MayFail <- TRUE, config <- v1,
    client <- v2, server <- v3, toServer <- v4, toClient <- v5, conn <- v6, calls <- v7,
    banners <- v8

Session == INSTANCE SshSession WITH
    Settings <- Settings, MaxOut <- [stdout |-> 1, stderr |-> 0], MaxIn <- 1, MayFail <- TRUE, s <- v1, user <- v2,
    copy <- v3, feeder <- v4, pipe <- v5, ch <- v6, process <- v7, sent <- v8, got <- v9

Agent == INSTANCE SshAgent WITH
    None <- None, Kind <- "k1" :> "rsa", MaxReply <- 1, Remote <- {"a", "b"}, Local <- {},
    Requests <- Requests, MaxCalls <- 2, MayFail <- TRUE, pc <- v1, req <- v2, calls <- v3,
    out <- v4, mu <- v5, conn <- v6, server <- v7, keyring <- v8, rem <- v9, quiet <- v10,
    sole <- v11, under <- v12

Forward == INSTANCE SshForward WITH
    None <- None, Auto <- Auto, Want <- "l1" :> Auto, tries <- 1, ChanCap <- 1,
    Addrs <- {"x"}, Opens <- {1}, Listeners <- {"l1"}, Serviced <- {"l1"}, Broken <- FALSE,
    MayBreak <- TRUE, up <- v1, incoming <- v2, open <- v3, answer <- v4, disp <- v5,
    handlers <- v6, nilMap <- v7, queue <- v8, agent <- v9, fwd <- v10, entries <- v11,
    ch <- v12, lst <- v13, acc <- v14, closer <- v15, peer <- v16, panic <- v17

Several == INSTANCE SshForward WITH
    None <- None, Auto <- Auto, Want <- "l1" :> Auto, tries <- 1, ChanCap <- 1,
    Addrs <- {"x"}, Opens <- {1, 2}, Listeners <- {"l1"}, Serviced <- {"l1"},
    Broken <- FALSE, MayBreak <- FALSE, up <- v1, incoming <- v2, open <- v3, answer <- v4,
    disp <- v5, handlers <- v6, nilMap <- v7, queue <- v8, agent <- v9, fwd <- v10,
    entries <- v11, ch <- v12, lst <- v13, acc <- v14, closer <- v15, peer <- v16,
    panic <- v17

Sftp == INSTANCE SftpClient WITH
    Callers <- {"c1", "c2"}, Ops <- {"close"}, MaxReq <- 3, MayFail <- TRUE, nextid <- v1,
    op <- v2, inflight <- v3, mu <- v4, goroutine <- v5, caller <- v6, asked <- v7,
    replies <- v8, conn <- v9, outcome <- v10

Single == INSTANCE SftpClient WITH
    Callers <- {"c1"}, Ops <- {"readAt", "close"}, MaxReq <- 3, MayFail <- TRUE,
    nextid <- v1, op <- v2, inflight <- v3, mu <- v4, goroutine <- v5, caller <- v6,
    asked <- v7, replies <- v8, conn <- v9, outcome <- v10

Walk == INSTANCE SftpWalk WITH
    children <- Children, Root <- "r", BatchSize <- 2, MaxErrors <- 2, stack <- v1,
    cur <- v2, descend <- v3, listing <- v4, handles <- v5, errors <- v6, visits <- v7,
    skipped <- v8

Init ==
    \/ part = "channel" /\ Channel!Init /\ v15 = 0 /\ v16 = 0 /\ v17 = 0
    \/ part = "mux" /\ Mux!Init /\ v13 = 0 /\ v14 = 0 /\ v15 = 0 /\ v16 = 0 /\ v17 = 0
    \/ part = "global" /\ Global!Init /\ v13 = 0 /\ v14 = 0 /\ v15 = 0 /\ v16 = 0 /\ v17 = 0
    \/ part = "kex" /\ Kex!Init
    \/ part = "kexfails" /\ KexFails!Init
    \/ part = "auth" /\ Auth!Init /\ v9 = 0 /\ v10 = 0 /\ v11 = 0 /\ v12 = 0 /\ v13 = 0 /\ v14 = 0 /\ v15 = 0 /\ v16 = 0 /\ v17 = 0
    \/ part = "session" /\ Session!Init /\ v10 = 0 /\ v11 = 0 /\ v12 = 0 /\ v13 = 0 /\ v14 = 0 /\ v15 = 0 /\ v16 = 0 /\ v17 = 0
    \/ part = "agent" /\ Agent!Init /\ v13 = 0 /\ v14 = 0 /\ v15 = 0 /\ v16 = 0 /\ v17 = 0
    \/ part = "forward" /\ Forward!Init
    \/ part = "opens" /\ Several!Init
    \/ part = "sftp" /\ Sftp!Init /\ v11 = 0 /\ v12 = 0 /\ v13 = 0 /\ v14 = 0 /\ v15 = 0 /\ v16 = 0 /\ v17 = 0
    \/ part = "single" /\ Single!Init /\ v11 = 0 /\ v12 = 0 /\ v13 = 0 /\ v14 = 0 /\ v15 = 0 /\ v16 = 0 /\ v17 = 0
    \/ part = "walk" /\ Walk!Init /\ v9 = 0 /\ v10 = 0 /\ v11 = 0 /\ v12 = 0 /\ v13 = 0 /\ v14 = 0 /\ v15 = 0 /\ v16 = 0 /\ v17 = 0

Next ==
    \/ part = "channel" /\ Channel!Next /\ UNCHANGED <<part, v15, v16, v17>>
    \/ part = "mux" /\ Mux!Next /\ UNCHANGED <<part, v13, v14, v15, v16, v17>>
    \/ part = "global" /\ Global!Next /\ UNCHANGED <<part, v13, v14, v15, v16, v17>>
    \/ part = "kex" /\ Kex!Next /\ UNCHANGED <<part>>
    \/ part = "kexfails" /\ KexFails!Next /\ UNCHANGED <<part>>
    \/ part = "auth" /\ Auth!Next /\ UNCHANGED <<part, v9, v10, v11, v12, v13, v14, v15, v16, v17>>
    \/ part = "session" /\ Session!Next /\ UNCHANGED <<part, v10, v11, v12, v13, v14, v15, v16, v17>>
    \/ part = "agent" /\ Agent!Next /\ UNCHANGED <<part, v13, v14, v15, v16, v17>>
    \/ part = "forward" /\ Forward!Next /\ UNCHANGED <<part>>
    \/ part = "opens" /\ Several!Next /\ UNCHANGED <<part>>
    \/ part = "sftp" /\ Sftp!Next /\ UNCHANGED <<part, v11, v12, v13, v14, v15, v16, v17>>
    \/ part = "single" /\ Single!Next /\ UNCHANGED <<part, v11, v12, v13, v14, v15, v16, v17>>
    \/ part = "walk" /\ Walk!Next /\ UNCHANGED <<part, v9, v10, v11, v12, v13, v14, v15, v16, v17>>

(* No goroutine is starved; peers answer what they are asked; users serve   *)
(* the channels and requests that the documentation tells them to serve;    *)
(* a process exits.  Nobody has to open, close, break or lose anything.     *)
(* Only one component runs in a behaviour, so the n-th goroutines of all    *)
(* components share one fairness condition.                                 *)
Runs(n) ==
    \/ /\ part = "channel" /\ UNCHANGED <<part, v15, v16, v17>>
       /\ \/ n = 1 /\ Channel!Loop("a")
          \/ n = 2 /\ Channel!Loop("b")
          \/ n = 3 /\ Channel!Writer("a", 0)
          \/ n = 4 /\ Channel!Reader("a", 0)
          \/ n = 5 /\ Channel!Reader("b", 0)
          \/ n = 6 /\ Channel!LoopEnded /\ Channel!ConnLost
    \/ /\ part = "mux" /\ UNCHANGED <<part, v13, v14, v15, v16, v17>>
       /\ \/ n = 1 /\ Mux!Loop("a")
          \/ n = 2 /\ Mux!Loop("b")
          \/ n = 3 /\ Mux!Server("a")
          \/ n = 4 /\ Mux!Server("b")
          \/ n = 5 /\ (\E o \in Mux!OpenerIds : Mux!Opener(o))
          \/ n = 6 /\ (\E x \in Mux!Ids : Mux!ackRequest(x))
          \/ n = 7 /\ Mux!Asker(OnChannel)
    \/ /\ part = "global" /\ UNCHANGED <<part, v13, v14, v15, v16, v17>>
       /\ \/ n = 1 /\ Global!Loop("a")
          \/ n = 2 /\ Global!Loop("b")
          \/ n = 3 /\ Global!Server("a")
          \/ n = 4 /\ Global!Server("b")
          \/ n = 5 /\ (\E o \in Global!OpenerIds : Global!Opener(o))
          \/ n = 6 /\ (\E x \in Global!Ids : Global!ackRequest(x))
          \/ n = 7 /\ Global!Asker(OnMux)
    \/ /\ part = "kex" /\ UNCHANGED <<part>>
       /\ \/ n = 1 /\ Kex!Loop("client")
          \/ n = 2 /\ Kex!Loop("server")
    \/ /\ part = "kexfails" /\ UNCHANGED <<part>>
       /\ \/ n = 1 /\ KexFails!Loop("client")
          \/ n = 2 /\ KexFails!Loop("server")
    \/ /\ part = "auth" /\ UNCHANGED <<part, v9, v10, v11, v12, v13, v14, v15, v16, v17>>
       /\ \/ n = 1 /\ Auth!Client
          \/ n = 2 /\ Auth!Server
    \/ /\ part = "session" /\ UNCHANGED <<part, v10, v11, v12, v13, v14, v15, v16, v17>>
       /\ \/ n = 1 /\ (Session!start \/ Session!startFails("lost") \/ Session!Wait)
          \/ n = 2 /\ (Session!WaitStatus \/ Session!waitEnds)
          \/ n = 3 /\ (Session!stdinChunk \/ Session!stdinEnd)
          \/ n = 4 /\ Session!request
          \/ n = 5 /\ Session!copyOut("stdout")
          \/ n = 6 /\ Session!copyOut("stderr")
          \/ n = 7 /\ (Session!ServerEnds \/ \E x \in Session!Exits : Session!ProcessExits(x))
          \/ n = 8 /\ (Session!handlePacket \/ Session!loopEnds)
    \/ /\ part = "agent" /\ UNCHANGED <<part, v13, v14, v15, v16, v17>>
       /\ \/ n = 1 /\ Agent!AgentStep
    \/ /\ part = "forward" /\ UNCHANGED <<part>>
       /\ \/ n = 1 /\ (Forward!Dispatch \/ Forward!DispatchSend \/ Forward!DispatchEnd)
          \/ n = 2 /\ Forward!AgentChannel
          \/ n = 3 /\ (Forward!HandleChannel \/ Forward!Forward \/ Forward!HandleEnd)
          \/ n = 4 /\ Forward!Accept("l1")
    \/ /\ part = "opens" /\ UNCHANGED <<part>>
       /\ \/ n = 1 /\ (Several!Dispatch \/ Several!DispatchSend \/ Several!DispatchEnd)
          \/ n = 2 /\ Several!AgentChannel
          \/ n = 3 /\ (Several!HandleChannel \/ Several!Forward \/ Several!HandleEnd)
          \/ n = 4 /\ Several!Accept("l1")
    \/ /\ part = "sftp" /\ UNCHANGED <<part, v11, v12, v13, v14, v15, v16, v17>>
       /\ \/ n = 1 /\ (\E ok \in BOOLEAN : Sftp!Respond(1, ok))
          \/ n = 2 /\ (\E ok \in BOOLEAN : Sftp!Respond(2, ok))
          \/ n = 3 /\ (\E ok \in BOOLEAN : Sftp!Respond(3, ok))
    \/ /\ part = "single" /\ UNCHANGED <<part, v11, v12, v13, v14, v15, v16, v17>>
       /\ \/ n = 1 /\ (\E ok \in BOOLEAN : Single!Respond(1, ok))
          \/ n = 2 /\ (\E ok \in BOOLEAN : Single!Respond(2, ok))
          \/ n = 3 /\ (\E ok \in BOOLEAN : Single!Respond(3, ok))
    \/ /\ part = "walk" /\ UNCHANGED <<part, v9, v10, v11, v12, v13, v14, v15, v16, v17>>
       /\ \/ n = 1 /\ Walk!Progress

(* Goroutines that wait for a lock which others take again and again:       *)
(* sync.Mutex grants it in the end.                                         *)
Locks(n) ==
    \/ /\ part = "kex" /\ UNCHANGED <<part>>
       /\ \/ n = 1 /\ Kex!User("client")
          \/ n = 2 /\ Kex!User("server")
          \/ n = 3 /\ Kex!Writer(ClientWriter)
          \/ n = 4 /\ Kex!Writer(ServerWriter)
    \/ /\ part = "kexfails" /\ UNCHANGED <<part>>
       /\ \/ n = 1 /\ KexFails!User("client")
          \/ n = 2 /\ KexFails!User("server")
          \/ n = 3 /\ KexFails!Writer(ClientWriter)
          \/ n = 4 /\ KexFails!Writer(ServerWriter)
    \/ /\ part = "agent" /\ UNCHANGED <<part, v13, v14, v15, v16, v17>>
       /\ \/ n = 1 /\ Agent!CallStep("a")
          \/ n = 2 /\ Agent!CallStep("b")
    \/ /\ part = "forward" /\ UNCHANGED <<part>>
       /\ \/ n = 1 /\ Forward!closeAll
          \/ n = 2 /\ (Forward!Granted("l1") \/ Forward!Denied("l1") \/ Forward!Add("l1") \/ Forward!Remove("l1") \/ Forward!Cancel("l1"))
    \/ /\ part = "opens" /\ UNCHANGED <<part>>
       /\ \/ n = 1 /\ Several!closeAll
          \/ n = 2 /\ (Several!Granted("l1") \/ Several!Denied("l1") \/ Several!Add("l1") \/ Several!Remove("l1") \/ Several!Cancel("l1"))
    \/ /\ part = "sftp" /\ UNCHANGED <<part, v11, v12, v13, v14, v15, v16, v17>>
       /\ \/ n = 1 /\ Sftp!Goroutine(1)
          \/ n = 2 /\ Sftp!Goroutine(2)
          \/ n = 3 /\ Sftp!Goroutine(3)
    \/ /\ part = "single" /\ UNCHANGED <<part, v11, v12, v13, v14, v15, v16, v17>>
       /\ \/ n = 1 /\ Single!Goroutine(1)
          \/ n = 2 /\ Single!Goroutine(2)
          \/ n = 3 /\ Single!Goroutine(3)

Fairness == (\A n \in 1..8 : WF_vars(Runs(n))) /\ (\A n \in 1..4 : SF_vars(Locks(n)))

Spec == Init /\ [][Next]_vars /\ Fairness

----------------------------------------------------------------------------
ASSUME Assumptions ==
    /\ Channel!ChannelAssumption /\ Mux!MuxAssumption /\ Global!MuxAssumption /\ Kex!HandshakeAssumption
    /\ KexFails!HandshakeAssumption /\ Auth!AuthAssumption
    /\ Session!SessionAssumption /\ Agent!AgentAssumption /\ Sftp!SftpAssumption /\ Single!SftpAssumption /\ Walk!WalkAssumption

(* The n-th goroutine waits: openChannel and SendRequest for an answer      *)
(* (mux.go, channel.go), Wait for the end of a process (session.go), a call *)
(* for the agent (agent/client.go), an operation for the SFTP server        *)
(* (sftp client.go), a channel that the peer opened for an answer while the *)
(* connection lives (client.go, tcpip.go).                                  *)
Waits(n) ==
    \/ part = "mux" /\ (\/ n = 1 /\ \E o \in Mux!OpenerIds : Mux!Opening(o) /\ ~Mux!Stranded(o)
                        \/ n = 2 /\ Mux!Asking(OnChannel))
    \/ part = "global" /\ (\/ n = 1 /\ \E o \in Global!OpenerIds : Global!Opening(o) /\ ~Global!Stranded(o)
                           \/ n = 2 /\ Global!Asking(OnMux))
    \/ part = "session" /\ n = 1 /\ Session!InWait
    \/ part = "agent" /\ ~Agent!Spinning /\ (\/ n = 1 /\ Agent!InCall("a")
                                             \/ n = 2 /\ Agent!InCall("b"))
    \/ part = "forward" /\ n = 1 /\ Forward!Unanswered(1)
    \/ part = "opens" /\ n \in {1, 2} /\ Several!Unanswered(n)
    \/ part = "sftp" /\ (\/ n = 1 /\ Sftp!Waiting("c1") /\ ~Sftp!Stranded("c1")
                         \/ n = 2 /\ Sftp!Waiting("c2") /\ ~Sftp!Stranded("c2"))
    \/ part = "single" /\ n = 1 /\ Single!Waiting("c1")

(* Work that has begun: a Write on a channel whose bytes are read or that   *)
(* is closed (channel.go), a write of a packet, also if it waits for a      *)
(* change of keys that either side began (handshake.go), authentication at  *)
(* both sides (client_auth.go, server.go), and the walk of a remote tree,   *)
(* where Step "returns false when the walk stops at the end of the tree"    *)
(* (kr/fs walk.go).                                                         *)
Worked ==
    /\ part = "channel" => Channel!Written
    /\ part = "kex" => Kex!Written
    /\ part = "kexfails" => KexFails!Written
    /\ part = "auth" => Auth!BothEnded
    /\ part = "walk" => Walk!Finished

(* A channel is closed by one of its ends or by the loss of the connection  *)
(* (channel.go), or a connection ends under the goroutines that handle      *)
(* channels (client.go).                                                    *)
Closing == (part = "channel" /\ Channel!Closing) \/ (part = "forward" /\ Forward!Down)

(* Nobody is in Read or Write of a closed channel, or handles channels of a *)
(* closed connection.                                                       *)
Released == (part = "channel" => Channel!Released) /\ (part = "forward" => Forward!HandlersDone)

(* No goroutine is left waiting, but for the hangs the code has.  Calls     *)
(* return: openChannel and SendRequest with an answer, or with an error     *)
(* once the connection has ended; Wait once the process exited or the       *)
(* connection is lost, even if Stdin is in a read that never ends; calls of *)
(* an agent, also when the connection breaks or ServeAgent gives up on a    *)
(* reply; every operation of an SFTP client once the server answered or     *)
(* the connection is lost; and with every listener serviced, no channel     *)
(* that the peer opens is left in the hands of a goroutine, a queue or a    *)
(* closed listener.  Work that has begun ends.  And a close releases        *)
(* everyone at both ends, since "The channel is closed when the connection  *)
(* is closed" (client.go, HandleChannelOpen).                               *)
(*                                                                          *)
(* Who does hang, and is excepted: an openChannel that adds its channel     *)
(* between dropAll and conn.Close while writes still pass (mux.go:202-210); *)
(* an SFTP caller whose goroutine read another's reply before the           *)
(* connection was lost (sftp client.go:556-579); callers of an agent whose  *)
(* keyring is in a Remove that finds the last key again and again           *)
(* (keyring.go:61-70); and writers of packets after a failed key exchange,  *)
(* a read error during one, or with incoming full (handshake.go:254-264).   *)
NobodyLeftWaiting ==
    /\ \A n \in 1..2 : Waits(n) ~> ~Waits(n)
    /\ <>[]Worked
    /\ Closing ~> Released
=============================================================================
