-------------------------------- MODULE MCSsh --------------------------------
(* The SSH and SFTP packages through which gumtool reaches remote hosts:    *)
(* each component by itself.  A behaviour runs one component, part, on the  *)
(* variables v1 to v17; components instantiated more than once differ in    *)
(* who calls what and in the faults that may happen.                        *)
EXTENDS Integers, Sequences, TLC

CONSTANTS None, Auto

VARIABLES part,   \* the component that this behaviour runs
          v1, v2, v3, v4, v5, v6, v7, v8, v9, v10, v11, v12, v13, v14, v15, v16, v17   \* its variables

vars == <<part, v1, v2, v3, v4, v5, v6, v7, v8, v9, v10, v11, v12, v13, v14, v15, v16, v17>>

----------------------------------------------------------------------------
(* The ends of a connection and of its channels.                            *)
Ends == {"a", "b"}

(* What each end writes to each of the streams in use.                      *)
BothWays == [t \in Ends \X {0} |-> IF t[1] = "a" THEN 3 ELSE 1]

FromA(codes) == [t \in Ends \X codes |-> IF t[1] = "a" THEN (IF t[2] = 0 THEN 3 ELSE 2) ELSE 0]

(* Goroutines that send requests on a channel and on the connection.        *)
Asking(on) == {[side |-> "a", on |-> on, name |-> n] : n \in {"k1", "k2"}}

(* Goroutines that write packets on either side of a transport.             *)
OneEach == {[side |-> "client", name |-> "w1"], [side |-> "server", name |-> "w1"]}

ThreeWriters == OneEach \cup {[side |-> "client", name |-> "w2"]}

(* The preferences of the two sides for ciphers: both directions alike.     *)
Preferences == [client |-> [c2s |-> <<"ctr", "gcm">>, s2c |-> <<"ctr", "gcm">>],
                server |-> [c2s |-> <<"gcm", "ctr">>, s2c |-> <<"gcm", "ctr">>]]

----------------------------------------------------------------------------
(* Clients and servers that authenticate: every set of callbacks and of     *)
(* good credentials, and methods in several orders.                         *)
Setting(auth, signers, callbacks, none, accepts, elsewhere, unacceptable, rounds, answers) ==
    [Auth |-> auth, signers |-> signers, callbacks |-> callbacks, NoClientAuth |-> none,
     accepts |-> accepts, elsewhere |-> elsewhere, unacceptable |-> unacceptable,
     rounds |-> rounds, prompts |-> 1, answers |-> answers]

Methods == {"password", "publickey", "keyboard-interactive"}

Creds == {"password", "answers", "k1", "k2"}

AllGood == {<<"u", "k1">>, <<"u", "k2">>, <<"u", "password">>}

Configs ==
    {Setting(a, <<"k1", "k2">>, c, FALSE, {<<"u", x>> : x \in g}, {}, un, r, 1) :
        a \in {<<"password", "publickey", "keyboard-interactive">>,
               <<"publickey", "keyboard-interactive", "password">>,
               <<"keyboard-interactive", "publickey">>, <<>>},
        c \in SUBSET Methods \ {{}}, g \in SUBSET Creds, un \in {{}, {"k1"}}, r \in {0, 2}}
    \cup {Setting(<<"publickey", "password">>, s, {"publickey", "password"}, n, AllGood, e, {}, 1, 1) :
             s \in {<<>>, <<"k1", "k2">>}, n \in BOOLEAN, e \in SUBSET {"k1", "k2"}}
    \cup {Setting(<<"keyboard-interactive", "password">>, <<>>, Methods, FALSE, {<<"u", "password">>},
                  {}, {}, 1, an) : an \in {0, 1}}

(* Servers for clients that ask whatever they like.                         *)
OpenConfigs ==
    {Setting(<<>>, <<>>, {"password", "publickey"}, n,
             {<<"u", "k1">>, <<"v", "k2">>, <<"v", "password">>, <<"u", "k2">>}, e, {}, 0, 0) :
        n \in BOOLEAN, e \in {{}, {"k2"}}}

(* Sessions: what the user sets, takes as a pipe and calls.                 *)
Setup(in, out, err, pipes, calls) ==
    [stdin |-> in, stdout |-> out, stderr |-> err, mayPipe |-> pipes, calls |-> calls]

Settings ==
    {Setup("nil", "buffer", "buffer", {}, {"Run", "CombinedOutput"}),
     Setup("ends", "nil", "buffer", {"stdin", "stdout", "stderr"}, {"Shell"}),
     Setup("blocks", "nil", "nil", {}, {"Output", "CombinedOutput"})}

----------------------------------------------------------------------------
(* Requests to an agent.                                                    *)
Request(op, key, cert, pass) == [op |-> op, key |-> key, cert |-> cert, pass |-> pass]

Bare(op) == Request(op, None, "none", None)

KeyKind == "k1" :> "rsa" @@ "k2" :> "dsa" @@ "k3" :> "rsa3" @@ "k4" :> "other"

Locking == {Request("lock", None, "none", "p"), Request("unlock", None, "none", "p")}

Using == {Bare("list"), Request("add", "k1", "none", None), Request("sign", "k1", "none", None)}

FewRequests == Locking \cup Using \cup {Request("remove", "k1", "none", None)}

MoreRequests ==
    FewRequests \cup {Bare("removeAll"), Request("unlock", None, "none", "q"), Request("add", "k1", "match", None)}

AllRequests ==
    MoreRequests \cup {Request("add", k, c, None) : k \in DOMAIN KeyKind, c \in {"none", "match", "mismatch"}}

(* Listeners: one at a fixed address, one at any.                           *)
Want == "l1" :> "x" @@ "l2" :> Auto

(* A tree of three directories, one of them empty.                          *)
Children == "r" :> <<"a", "d", "e", "b">> @@ "d" :> <<"c", "f">> @@ "e" :> <<>>

Operations == {"open", "opendir", "Lstat", "fstat", "ReadLink", "readAt", "writeAt", "close", "setstat",
               "removeFile", "removeDirectory", "Rename", "Mkdir", "StatVFS"}

----------------------------------------------------------------------------

Channel == INSTANCE SshChannel WITH
    Sides <- Ends, channelWindowSize <- 2, channelMaxPacket <- 2, MaxWin <- 3,
    ReadSize <- 2, Codes <- {0}, Writes <- BothWays, Readers <- Ends \X {0},
    Closers <- Ends, EofSenders <- {"a"}, AfterWrites <- TRUE, MayFail <- FALSE, conn <- v1,
    wire <- v2, win <- v3, myWindow <- v4, pending <- v5, sentEOF <- v6, sentClose <- v7,
    gone <- v8, loop <- v9, err <- v10, writer <- v11, reader <- v12, caller <- v13,
    got <- v14

Streams == INSTANCE SshChannel WITH
    Sides <- Ends, channelWindowSize <- 2, channelMaxPacket <- 2, MaxWin <- 3,
    ReadSize <- 2, Codes <- {0, 1}, Writes <- FromA({0, 1}), Readers <- {"b"} \X {0, 1},
    Closers <- {"b"}, EofSenders <- {}, AfterWrites <- TRUE, MayFail <- FALSE, conn <- v1,
    wire <- v2, win <- v3, myWindow <- v4, pending <- v5, sentEOF <- v6, sentClose <- v7,
    gone <- v8, loop <- v9, err <- v10, writer <- v11, reader <- v12, caller <- v13,
    got <- v14

Extended == INSTANCE SshChannel WITH
    Sides <- Ends, channelWindowSize <- 2, channelMaxPacket <- 2, MaxWin <- 3,
    ReadSize <- 2, Codes <- {0, 2}, Writes <- FromA({0, 2}), Readers <- {"b"} \X {0},
    Closers <- {"b"}, EofSenders <- {"a"}, AfterWrites <- FALSE, MayFail <- FALSE,
    conn <- v1, wire <- v2, win <- v3, myWindow <- v4, pending <- v5, sentEOF <- v6,
    sentClose <- v7, gone <- v8, loop <- v9, err <- v10, writer <- v11, reader <- v12,
    caller <- v13, got <- v14

Mux == INSTANCE SshMux WITH
    Sides <- Ends, ChanCap <- 1, Openers <- [m \in Ends |-> 1], MaxChan <- 3, Askers <- {},
    MaxAsks <- 1, MayReject <- TRUE, Failure <- "none", conn <- v1, wire <- v2, chan <- v3,
    chans <- v4, incoming <- v5, globalReqs <- v6, globalResp <- v7, loop <- v8, err <- v9,
    opener <- v10, asker <- v11, misled <- v12

Replies == INSTANCE SshMux WITH
    Sides <- Ends, ChanCap <- 1, Openers <- [m \in Ends |-> IF m = "a" THEN 1 ELSE 0],
    MaxChan <- 2, Askers <- Asking("channel") \cup Asking("global"), MaxAsks <- 1,
    MayReject <- FALSE, Failure <- "both", conn <- v1, wire <- v2, chan <- v3, chans <- v4,
    incoming <- v5, globalReqs <- v6, globalResp <- v7, loop <- v8, err <- v9,
    opener <- v10, asker <- v11, misled <- v12

Kex == INSTANCE SshHandshake WITH
    RekeyThreshold <- 1, IncomingCap <- 1, Writers <- ThreeWriters, Packets <- 3,
    Ciphers <- Preferences, Answers <- {}, MayRefuse <- FALSE, MayLose <- FALSE, wire <- v1,
    closed <- v2, key <- v3, pendingKey <- v4, sessionID <- v5, sentInit <- v6,
    written <- v7, readSince <- v8, writeError <- v9, mu <- v10, loop <- v11, held <- v12,
    err <- v13, incoming <- v14, exchange <- v15, writer <- v16, user <- v17

KexFails == INSTANCE SshHandshake WITH
    RekeyThreshold <- 1, IncomingCap <- 1, Writers <- OneEach, Packets <- 2,
    Ciphers <- Preferences, Answers <- {"client"}, MayRefuse <- TRUE, MayLose <- TRUE,
    wire <- v1, closed <- v2, key <- v3, pendingKey <- v4, sessionID <- v5, sentInit <- v6,
    written <- v7, readSince <- v8, writeError <- v9, mu <- v10, loop <- v11, held <- v12,
    err <- v13, incoming <- v14, exchange <- v15, writer <- v16, user <- v17

Auth == INSTANCE SshAuth WITH
    User <- "u", Keys <- {"k1", "k2"}, Users <- {"u"}, Configs <- Configs,
    maxCachedPubKeys <- 2, MaxAsked <- 0, MaxBanners <- 1, MayFail <- FALSE, config <- v1,
    client <- v2, server <- v3, toServer <- v4, toClient <- v5, conn <- v6, calls <- v7,
    banners <- v8

Anyone == INSTANCE SshAuth WITH
    User <- "u", Keys <- {"k1", "k2"}, Users <- {"u", "v"}, Configs <- OpenConfigs,
    maxCachedPubKeys <- 2, MaxAsked <- 3, MaxBanners <- 0, MayFail <- FALSE, config <- v1,
    client <- v2, server <- v3, toServer <- v4, toClient <- v5, conn <- v6, calls <- v7,
    banners <- v8

Session == INSTANCE SshSession WITH
    Settings <- Settings, MaxOut <- [stdout |-> 1, stderr |-> 1], MaxIn <- 1, MayFail <- TRUE, s <- v1, user <- v2,
    copy <- v3, feeder <- v4, pipe <- v5, ch <- v6, process <- v7, sent <- v8, got <- v9

Agent == INSTANCE SshAgent WITH
    None <- None, Kind <- KeyKind, MaxReply <- 2, Remote <- {"a"}, Local <- {"l"},
    Requests <- MoreRequests, MaxCalls <- 2, MayFail <- TRUE, pc <- v1, req <- v2,
    calls <- v3, out <- v4, mu <- v5, conn <- v6, server <- v7, keyring <- v8, rem <- v9,
    quiet <- v10, sole <- v11, under <- v12

Shared == INSTANCE SshAgent WITH
    None <- None, Kind <- KeyKind, MaxReply <- 2, Remote <- {"a", "b"}, Local <- {},
    Requests <- FewRequests, MaxCalls <- 2, MayFail <- FALSE, pc <- v1, req <- v2,
    calls <- v3, out <- v4, mu <- v5, conn <- v6, server <- v7, keyring <- v8, rem <- v9,
    quiet <- v10, sole <- v11, under <- v12

Kinds == INSTANCE SshAgent WITH
    None <- None, Kind <- KeyKind, MaxReply <- 2, Remote <- {"a"}, Local <- {"l"},
    Requests <- AllRequests, MaxCalls <- 1, MayFail <- TRUE, pc <- v1, req <- v2,
    calls <- v3, out <- v4, mu <- v5, conn <- v6, server <- v7, keyring <- v8, rem <- v9,
    quiet <- v10, sole <- v11, under <- v12

Forward == INSTANCE SshForward WITH
    None <- None, Auto <- Auto, Want <- Want, tries <- 2, ChanCap <- 1, Addrs <- {"x", "y"},
    Opens <- {1}, Listeners <- {"l1", "l2"}, Serviced <- {"l1", "l2"}, Broken <- TRUE,
    MayBreak <- TRUE, up <- v1, incoming <- v2, open <- v3, answer <- v4, disp <- v5,
    handlers <- v6, nilMap <- v7, queue <- v8, agent <- v9, fwd <- v10, entries <- v11,
    ch <- v12, lst <- v13, acc <- v14, closer <- v15, peer <- v16, panic <- v17

Several == INSTANCE SshForward WITH
    None <- None, Auto <- Auto, Want <- Want, tries <- 2, ChanCap <- 1, Addrs <- {"x", "y"},
    Opens <- {1, 2}, Listeners <- {"l1"}, Serviced <- {"l1"}, Broken <- FALSE,
    MayBreak <- TRUE, up <- v1, incoming <- v2, open <- v3, answer <- v4, disp <- v5,
    handlers <- v6, nilMap <- v7, queue <- v8, agent <- v9, fwd <- v10, entries <- v11,
    ch <- v12, lst <- v13, acc <- v14, closer <- v15, peer <- v16, panic <- v17

Sftp == INSTANCE SftpClient WITH
    Callers <- {"c1", "c2", "c3"}, Ops <- {"open", "close"}, MaxReq <- 3, MayFail <- FALSE,
    nextid <- v1, op <- v2, inflight <- v3, mu <- v4, goroutine <- v5, caller <- v6,
    asked <- v7, replies <- v8, conn <- v9, outcome <- v10

SftpOps == INSTANCE SftpClient WITH
    Callers <- {"c1"}, Ops <- Operations, MaxReq <- 2, MayFail <- TRUE, nextid <- v1,
    op <- v2, inflight <- v3, mu <- v4, goroutine <- v5, caller <- v6, asked <- v7,
    replies <- v8, conn <- v9, outcome <- v10

File == INSTANCE SftpFile WITH
    Bytes <- {"a", "b"}, maxPacket <- 2, MaxBuf <- 3, MaxSize <- 4, MaxSeek <- 2,
    content <- v1, offset <- v2, call <- v3, last <- v4

Walk == INSTANCE SftpWalk WITH
    children <- Children, Root <- "r", BatchSize <- 2, MaxErrors <- 2, stack <- v1,
    cur <- v2, descend <- v3, listing <- v4, handles <- v5, errors <- v6, visits <- v7,
    skipped <- v8

Init ==
    \/ part = "channel" /\ Channel!Init /\ v15 = 0 /\ v16 = 0 /\ v17 = 0
    \/ part = "streams" /\ Streams!Init /\ v15 = 0 /\ v16 = 0 /\ v17 = 0
    \/ part = "extended" /\ Extended!Init /\ v15 = 0 /\ v16 = 0 /\ v17 = 0
    \/ part = "mux" /\ Mux!Init /\ v13 = 0 /\ v14 = 0 /\ v15 = 0 /\ v16 = 0 /\ v17 = 0
    \/ part = "requests" /\ Replies!Init /\ v13 = 0 /\ v14 = 0 /\ v15 = 0 /\ v16 = 0 /\ v17 = 0
    \/ part = "kex" /\ Kex!Init
    \/ part = "kexfails" /\ KexFails!Init
    \/ part = "auth" /\ Auth!Init /\ v9 = 0 /\ v10 = 0 /\ v11 = 0 /\ v12 = 0 /\ v13 = 0 /\ v14 = 0 /\ v15 = 0 /\ v16 = 0 /\ v17 = 0
    \/ part = "anyone" /\ Anyone!Init /\ v9 = 0 /\ v10 = 0 /\ v11 = 0 /\ v12 = 0 /\ v13 = 0 /\ v14 = 0 /\ v15 = 0 /\ v16 = 0 /\ v17 = 0
    \/ part = "session" /\ Session!Init /\ v10 = 0 /\ v11 = 0 /\ v12 = 0 /\ v13 = 0 /\ v14 = 0 /\ v15 = 0 /\ v16 = 0 /\ v17 = 0
    \/ part = "agent" /\ Agent!Init /\ v13 = 0 /\ v14 = 0 /\ v15 = 0 /\ v16 = 0 /\ v17 = 0
    \/ part = "shared" /\ Shared!Init /\ v13 = 0 /\ v14 = 0 /\ v15 = 0 /\ v16 = 0 /\ v17 = 0
    \/ part = "kinds" /\ Kinds!Init /\ v13 = 0 /\ v14 = 0 /\ v15 = 0 /\ v16 = 0 /\ v17 = 0
    \/ part = "forward" /\ Forward!Init
    \/ part = "opens" /\ Several!Init
    \/ part = "sftp" /\ Sftp!Init /\ v11 = 0 /\ v12 = 0 /\ v13 = 0 /\ v14 = 0 /\ v15 = 0 /\ v16 = 0 /\ v17 = 0
    \/ part = "operations" /\ SftpOps!Init /\ v11 = 0 /\ v12 = 0 /\ v13 = 0 /\ v14 = 0 /\ v15 = 0 /\ v16 = 0 /\ v17 = 0
    \/ part = "file" /\ File!Init /\ v5 = 0 /\ v6 = 0 /\ v7 = 0 /\ v8 = 0 /\ v9 = 0 /\ v10 = 0 /\ v11 = 0 /\ v12 = 0 /\ v13 = 0 /\ v14 = 0 /\ v15 = 0 /\ v16 = 0 /\ v17 = 0
    \/ part = "walk" /\ Walk!Init /\ v9 = 0 /\ v10 = 0 /\ v11 = 0 /\ v12 = 0 /\ v13 = 0 /\ v14 = 0 /\ v15 = 0 /\ v16 = 0 /\ v17 = 0

Next ==
    \/ part = "channel" /\ Channel!Next /\ UNCHANGED <<part, v15, v16, v17>>
    \/ part = "streams" /\ Streams!Next /\ UNCHANGED <<part, v15, v16, v17>>
    \/ part = "extended" /\ Extended!Next /\ UNCHANGED <<part, v15, v16, v17>>
    \/ part = "mux" /\ Mux!Next /\ UNCHANGED <<part, v13, v14, v15, v16, v17>>
    \/ part = "requests" /\ Replies!Next /\ UNCHANGED <<part, v13, v14, v15, v16, v17>>
    \/ part = "kex" /\ Kex!Next /\ UNCHANGED <<part>>
    \/ part = "kexfails" /\ KexFails!Next /\ UNCHANGED <<part>>
    \/ part = "auth" /\ Auth!Next /\ UNCHANGED <<part, v9, v10, v11, v12, v13, v14, v15, v16, v17>>
    \/ part = "anyone" /\ Anyone!AnyClientNext /\ UNCHANGED <<part, v9, v10, v11, v12, v13, v14, v15, v16, v17>>
    \/ part = "session" /\ Session!Next /\ UNCHANGED <<part, v10, v11, v12, v13, v14, v15, v16, v17>>
    \/ part = "agent" /\ Agent!Next /\ UNCHANGED <<part, v13, v14, v15, v16, v17>>
    \/ part = "shared" /\ Shared!Next /\ UNCHANGED <<part, v13, v14, v15, v16, v17>>
    \/ part = "kinds" /\ Kinds!Next /\ UNCHANGED <<part, v13, v14, v15, v16, v17>>
    \/ part = "forward" /\ Forward!Next /\ UNCHANGED <<part>>
    \/ part = "opens" /\ Several!Next /\ UNCHANGED <<part>>
    \/ part = "sftp" /\ Sftp!Next /\ UNCHANGED <<part, v11, v12, v13, v14, v15, v16, v17>>
    \/ part = "operations" /\ SftpOps!Next /\ UNCHANGED <<part, v11, v12, v13, v14, v15, v16, v17>>
    \/ part = "file" /\ File!Next /\ UNCHANGED <<part, v5, v6, v7, v8, v9, v10, v11, v12, v13, v14, v15, v16, v17>>
    \/ part = "walk" /\ Walk!Next /\ UNCHANGED <<part, v9, v10, v11, v12, v13, v14, v15, v16, v17>>

Spec == Init /\ [][Next]_vars

----------------------------------------------------------------------------
ASSUME Assumptions ==
    /\ Channel!ChannelAssumption /\ Streams!ChannelAssumption /\ Extended!ChannelAssumption
    /\ Mux!MuxAssumption /\ Replies!MuxAssumption
    /\ Kex!HandshakeAssumption /\ KexFails!HandshakeAssumption
    /\ Auth!AuthAssumption /\ Anyone!AuthAssumption /\ Session!SessionAssumption
    /\ Agent!AgentAssumption /\ Shared!AgentAssumption /\ Kinds!AgentAssumption
    /\ Sftp!SftpAssumption /\ SftpOps!SftpAssumption /\ File!FileAssumption /\ Walk!WalkAssumption

(* channel.go and mux.go: what was written to a channel is read in order    *)
(* and before io.EOF, the windows of its two ends agree, packets reach the  *)
(* channel at the other end of their sender's, SendRequest returns the      *)
(* reply to its own request, and two ends that run this code never end the  *)
(* connection with an error of the protocol.                                *)
ChannelReliable ==
    /\ part = "channel" => Channel!OrderedReliable /\ Channel!WindowConserved /\ Channel!NoProtocolError
    /\ part = "streams" => Streams!OrderedReliable /\ Streams!WindowConserved /\ Streams!NoProtocolError
    /\ part = "extended" => Extended!WindowConserved /\ Extended!NoProtocolError
    /\ part = "mux" => Mux!Paired /\ Mux!NoProtocolError
    /\ part = "requests" => Replies!Paired /\ Replies!RightReply

(* handshake.go: every packet is read under the key it was written under,   *)
(* during a key exchange nothing else is written, keys are changed in time, *)
(* and the session ID never changes.                                        *)
KeysAgree ==
    /\ part = "kex" => Kex!KeysAgree /\ Kex!WritesBlocked /\ Kex!RekeyInTime /\ Kex!SessionFixed
    /\ part = "kexfails" => KexFails!KeysAgree /\ KexFails!WritesBlocked /\ KexFails!SessionFixed

(* client_auth.go and server.go: both sides agree on the outcome, a client  *)
(* gives up only when nothing is left to try, whoever is let in is who the  *)
(* accepted request names, and the cache of public keys spares the          *)
(* callbacks.                                                               *)
OutcomesAgree ==
    /\ part = "auth" => Auth!OutcomesAgree /\ Auth!TriesEverything
    /\ part = "anyone" => Anyone!RightIdentity /\ Anyone!AskedOnce

(* session.go: Wait returns the status of the process, and when it returns  *)
(* all output was copied unless the connection was lost, where nil may come *)
(* with part of the output; no success for a process that did not exit.     *)
(* agent/client.go and keyring.go: a call returns the reply to its own      *)
(* request, and a locked keyring gives nothing away.  tcpip.go: no channel  *)
(* of a forward is closed twice or used when closed.                        *)
SessionFaithful ==
    /\ part = "session" => Session!OutputComplete /\ Session!StatusFaithful /\ Session!NoExitNoSuccess
    /\ part = "agent" => Agent!OwnReply /\ Agent!LockedSilent
    /\ part = "shared" => Shared!OwnReply /\ Shared!LockedSilent
    /\ part = "kinds" => Kinds!OwnReply /\ Kinds!LockedSilent
    /\ part = "forward" => Forward!NoPanic
    /\ part = "opens" => Several!NoPanic

(* sftp client.go: every call learns what the server said of its request,   *)
(* inflight holds what is in flight, Read and Write move what they say they *)
(* moved and return an error exactly if it was too little (io.EOF may come  *)
(* with bytes, unlike client.go:655-657).  kr/fs walk.go over an SFTP       *)
(* client: every file once, a directory before its entries and these in     *)
(* the server's order (walk.go:10-12 says lexical), every handle closed,    *)
(* and a directory that could not be listed is reported.                    *)
FilesFaithful ==
    /\ part = "sftp" => Sftp!TruthfulResult /\ Sftp!InflightExact
    /\ part = "operations" => SftpOps!TruthfulResult
    /\ part = "file" => File!MovedExactly /\ File!ShortMeansError
    /\ part = "walk" => Walk!WalksTree /\ Walk!NoHandleLeft /\ Walk!FailureReported
=============================================================================
