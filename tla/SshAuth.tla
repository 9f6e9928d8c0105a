------------------------------ MODULE SshAuth ------------------------------
(***************************************************************************)
(* User authentication of an SSH connection: the client tries one method after  *)
(* the other (ssh/client_auth.go), the server answers each request              *)
(* (serverAuthenticate in ssh/server.go) and remembers what its callback said     *)
(* about a key.  Next composes both sides; AnyClientNext puts in the client's      *)
(* place one that asks for anything in any order.                               *)
(*                                                                         *)
(* A credential is a model value: a key, or the password or answers of the user. *)
(***************************************************************************)
EXTENDS Integers, Sequences, SequencesExt, FiniteSets

CONSTANTS
    Users, User,        \* the users a client may name, and the one ours names
    Keys,
    Configs,            \* the settings of the two sides to begin with
    maxCachedPubKeys,
    MaxAsked,           \* bound on the requests of AnyClientNext
    MaxBanners,         \* bound on the banners of a server
    MayFail             \* TRUE: the connection may be lost

AuthAssumption ==
    User \in Users /\ maxCachedPubKeys \in Nat /\ MaxAsked \in Nat /\ MaxBanners \in Nat /\ MayFail \in BOOLEAN

VARIABLES config, client, server, toServer, toClient, conn, calls, banners

vars == <<config, client, server, toServer, toClient, conn, calls, banners>>

Init ==
    /\ config \in Configs
    /\ client = [pc |-> "start", method |-> "none", tried |-> {}, methods |-> {}, lastMethods |-> {},
                 i |-> 1, validKeys |-> <<>>]
    /\ server = [pc |-> "service", user |-> "", cache |-> <<>>, perms |-> <<>>, round |-> 0,
                 req |-> [method |-> "none"]]
    /\ toServer = <<>> /\ toClient = <<>>
    /\ conn = "up"
    /\ calls = [uk \in Users \X Keys |-> 0]
    /\ banners = 0

-----------------------------------------------------------------------------
(* The client. *)

NilMethods == {"nil"}      \* the nil slice of auth()

request(m, cred, sig) == [t |-> "auth", method |-> m, user |-> User, cred |-> cred, sig |-> sig]
send(m) == conn = "up" /\ toServer' = Append(toServer, m)
clientGives(why) == client' = [client EXCEPT !.pc = why]
clientEnds(why) == clientGives(why) /\ conn' = "lost" /\ UNCHANGED toServer

Start ==
    /\ client.pc = "start"
    /\ send([t |-> "service"])
    /\ clientGives("accept")
    /\ UNCHANGED <<config, server, toClient, conn, calls, banners>>

noneAuth ==
    /\ client.pc = "accept" /\ toClient # <<>> /\ Head(toClient).t = "accept"
    /\ toClient' = Tail(toClient)
    /\ send(request("none", "none", "none"))
    /\ client' = [client EXCEPT !.pc = "response", !.method = "none"]
    /\ UNCHANGED <<config, server, conn, calls, banners>>

(* The end of auth() without success: look for the next method. *)
untried(methods, tried) == {i \in DOMAIN config.Auth : config.Auth[i] \notin tried /\ config.Auth[i] \in methods}

offered(methods) == IF methods = NilMethods THEN client.lastMethods ELSE methods

findNext ==
    LET methods == offered(client.methods)
        tried == client.tried \cup {client.method}
        next == untried(methods, tried)
        m == config.Auth[CHOOSE i \in next : \A j \in next : i <= j]
        begun == [client EXCEPT !.tried = tried, !.lastMethods = methods, !.methods = NilMethods,
                                !.method = m, !.i = 1, !.validKeys = <<>>]
    IN  /\ client.pc = "next"
        /\ IF next = {} THEN clientEnds("unable")
           ELSE /\ CASE m = "password" ->
                          send(request(m, "password", "none")) /\ client' = [begun EXCEPT !.pc = "response"]
                     [] m = "keyboard-interactive" ->
                          send(request(m, "answers", "none")) /\ client' = [begun EXCEPT !.pc = "challenge"]
                     [] m = "publickey" ->
                          client' = [begun EXCEPT !.pc = "query"] /\ UNCHANGED toServer
                /\ UNCHANGED conn
        /\ UNCHANGED <<config, server, toClient, calls, banners>>

(* publicKeyCallback.auth: a query for each signer, then a signed request for each  *)
(* key that the server would take.                                               *)
validateKey ==
    /\ client.pc = "query"
    /\ IF client.i <= Len(config.signers)
       THEN send(request("publickey", config.signers[client.i], "none")) /\ clientGives("ack")
       ELSE client' = [client EXCEPT !.pc = "sign", !.i = 1] /\ UNCHANGED toServer
    /\ UNCHANGED <<config, server, toClient, conn, calls, banners>>

confirmKeyAckBanner ==      \* mutant: a banner is taken for a refusal
    LET p == Head(toClient)
        k == config.signers[client.i]
    IN  /\ client.pc = "ack" /\ toClient # <<>>
        /\ toClient' = Tail(toClient)
        /\ CASE p.t = "pubKeyOk" ->
                  /\ client' = [client EXCEPT !.pc = "query", !.i = @ + 1,
                                              !.validKeys = IF p.key = k THEN Append(@, k) ELSE @]
                  /\ UNCHANGED <<toServer, conn>>
             [] p.t \in {"failure", "banner"} ->
                  client' = [client EXCEPT !.pc = "query", !.i = @ + 1] /\ UNCHANGED <<toServer, conn>>
             [] OTHER -> clientEnds("error")
        /\ UNCHANGED <<config, server, calls, banners>>

confirmKeyAck ==
    LET p == Head(toClient)
        k == config.signers[client.i]
    IN  /\ client.pc = "ack" /\ toClient # <<>>
        /\ toClient' = Tail(toClient)
        /\ CASE p.t = "banner" -> UNCHANGED <<client, toServer, conn>>
             [] p.t = "pubKeyOk" ->
                  /\ client' = [client EXCEPT !.pc = "query", !.i = @ + 1,
                                              !.validKeys = IF p.key = k THEN Append(@, k) ELSE @]
                  /\ UNCHANGED <<toServer, conn>>
             [] p.t = "failure" ->
                  client' = [client EXCEPT !.pc = "query", !.i = @ + 1] /\ UNCHANGED <<toServer, conn>>
             [] OTHER -> clientEnds("error")
        /\ UNCHANGED <<config, server, calls, banners>>

Sign ==
    /\ client.pc = "sign"
    /\ IF client.i <= Len(client.validKeys)
       THEN send(request("publickey", client.validKeys[client.i], "good")) /\ clientGives("signed")
       ELSE clientGives("next") /\ UNCHANGED toServer
    /\ UNCHANGED <<config, server, toClient, conn, calls, banners>>

(* The answer to a password or to a signature. *)
handleAuthResponse ==
    LET p == Head(toClient)
    IN  /\ client.pc \in {"response", "signed"} /\ toClient # <<>>
        /\ toClient' = Tail(toClient)
        /\ CASE p.t = "banner" -> UNCHANGED <<client, toServer, conn>>
             [] p.t = "failure" ->
                  /\ client' = [client EXCEPT !.pc = IF @ = "signed" THEN "sign" ELSE "next",
                                              !.methods = p.methods, !.i = @ + 1]
                  /\ UNCHANGED <<toServer, conn>>
             [] p.t = "success" -> clientGives("ok") /\ UNCHANGED <<toServer, conn>>
             [] OTHER -> clientEnds("error")
        /\ UNCHANGED <<config, server, calls, banners>>

(* KeyboardInteractiveChallenge.auth. *)
challenge ==
    LET p == Head(toClient)
    IN  /\ client.pc = "challenge" /\ toClient # <<>>
        /\ toClient' = Tail(toClient)
        /\ CASE p.t = "banner" -> UNCHANGED <<client, toServer, conn>>
             [] p.t = "infoRequest" ->
                  IF config.answers = p.prompts
                  THEN send([t |-> "infoResponse", answers |-> config.answers]) /\ UNCHANGED <<client, conn>>
                  ELSE clientEnds("error")
             [] p.t = "failure" ->
                  client' = [client EXCEPT !.pc = "next", !.methods = p.methods] /\ UNCHANGED <<toServer, conn>>
             [] p.t = "success" -> clientGives("ok") /\ UNCHANGED <<toServer, conn>>
             [] OTHER -> clientEnds("error")
        /\ UNCHANGED <<config, server, calls, banners>>

(* On a lost connection reads and writes fail; what has not been read may be lost too. *)
ClientLost ==
    /\ conn = "lost" /\ client.pc \notin {"ok", "unable", "error"}
    /\ clientGives("error")
    /\ UNCHANGED <<config, server, toServer, toClient, conn, calls, banners>>

Client ==
    Start \/ noneAuth \/ findNext \/ validateKey \/ confirmKeyAck \/ Sign \/ handleAuthResponse
          \/ challenge \/ ClientLost

-----------------------------------------------------------------------------
(* The server. *)

reply(m) == toClient' = Append(toClient, m)
serverEnds == server' = [server EXCEPT !.pc = "failed"] /\ conn' = "lost" /\ UNCHANGED toClient

(* The callbacks of the configuration: which credential is good for whom. *)
Callback(user, cred) == <<user, cred>> \in config.accepts

(* PublicKeyCallback with the check of the permissions' source address. *)
checkSourceAddress(key) == key \notin config.elsewhere
checkKey(user, key) == Callback(user, key) /\ checkSourceAddress(key)
isAcceptableAlgo(key) == key \notin config.unacceptable

serviceAccept ==
    /\ server.pc = "service" /\ toServer # <<>> /\ conn = "up"
    /\ toServer' = Tail(toServer)
    /\ IF Head(toServer).t = "service"
       THEN reply([t |-> "accept"]) /\ server' = [server EXCEPT !.pc = "loop"] /\ UNCHANGED conn
       ELSE serverEnds
    /\ UNCHANGED <<config, client, calls, banners>>

(* The end of an attempt. *)
authenticated(q, user, perms, s) ==
    /\ server' = [s EXCEPT !.pc = "done", !.user = user, !.perms = perms, !.req = q]
    /\ reply([t |-> "success"])
    /\ UNCHANGED conn
refused(q, s) ==
    IF config.callbacks = {} THEN serverEnds
    ELSE /\ server' = [s EXCEPT !.pc = "loop", !.user = q.user, !.perms = <<>>, !.req = q]
         /\ reply([t |-> "failure", methods |-> config.callbacks])
         /\ UNCHANGED conn

cacheGet(user, key) == SelectSeq(server.cache, LAMBDA k : k.user = user /\ k.key = key)
cacheAdd(cache, k) == IF Len(cache) < maxCachedPubKeys THEN Append(cache, k) ELSE cache

publickey(q) ==
    LET hit == cacheGet(q.user, q.cred)
        candidate == IF hit # <<>> THEN Head(hit)
                     ELSE [user |-> q.user, key |-> q.cred, ok |-> checkKey(q.user, q.cred), perms |-> <<q.user, q.cred>>]
        s == [server EXCEPT !.cache = IF hit # <<>> THEN @ ELSE cacheAdd(@, candidate)]
    IN  /\ calls' = IF hit # <<>> THEN calls ELSE [calls EXCEPT ![q.user, q.cred] = @ + 1]
        /\ CASE q.sig = "none" /\ candidate.ok ->
                  /\ server' = [s EXCEPT !.user = q.user, !.perms = <<>>, !.req = q]
                  /\ reply([t |-> "pubKeyOk", key |-> q.cred])
                  /\ UNCHANGED conn
             [] q.sig = "bad" -> serverEnds      \* pubKey.Verify fails
             [] q.sig = "good" /\ candidate.ok -> authenticated(q, q.user, candidate.perms, s)
             [] OTHER -> refused(q, s)

serverAuthenticate ==
    LET q == Head(toServer)
    IN  /\ server.pc = "loop" /\ toServer # <<>> /\ conn = "up"
        /\ toServer' = Tail(toServer)
        /\ IF q.t # "auth" THEN serverEnds /\ UNCHANGED calls
           ELSE CASE q.method = "publickey" /\ q.method \in config.callbacks /\ isAcceptableAlgo(q.cred) ->
                       publickey(q)
                  [] q.method = "none" /\ config.NoClientAuth ->
                       authenticated(q, "", <<>>, server) /\ UNCHANGED calls
                  [] q.method = "password" /\ q.method \in config.callbacks /\ Callback(q.user, q.cred) ->
                       authenticated(q, q.user, <<q.user, q.cred>>, server) /\ UNCHANGED calls
                  [] q.method = "keyboard-interactive" /\ q.method \in config.callbacks ->
                       /\ server' = [server EXCEPT !.pc = "callback", !.user = q.user, !.perms = <<>>, !.round = 0, !.req = q]
                       /\ UNCHANGED <<toClient, conn, calls>>
                  [] OTHER -> refused(q, server) /\ UNCHANGED calls
        /\ UNCHANGED <<config, client, banners>>

(* KeyboardInteractiveCallback asks config.rounds times before it decides. *)
Challenge ==
    /\ server.pc = "callback" /\ server.round < config.rounds /\ conn = "up"
    /\ reply([t |-> "infoRequest", prompts |-> config.prompts])
    /\ server' = [server EXCEPT !.pc = "answers"]
    /\ UNCHANGED <<config, client, toServer, conn, calls, banners>>

ChallengeAnswers ==
    LET p == Head(toServer)
    IN  /\ server.pc = "answers" /\ toServer # <<>> /\ conn = "up"
        /\ toServer' = Tail(toServer)
        /\ IF p.t = "infoResponse"
           THEN /\ server' = [server EXCEPT !.pc = "callback", !.round = @ + 1]
                /\ UNCHANGED <<toClient, conn>>
           ELSE refused(server.req, server)
        /\ UNCHANGED <<config, client, calls, banners>>

CallbackReturns ==
    /\ server.pc = "callback" /\ server.round = config.rounds /\ conn = "up"
    /\ LET q == server.req IN
       IF Callback(q.user, q.cred) THEN authenticated(q, q.user, <<q.user, q.cred>>, server) ELSE refused(q, server)
    /\ UNCHANGED <<config, client, toServer, calls, banners>>

ServerLost ==
    /\ conn = "lost" /\ server.pc \notin {"done", "failed"}
    /\ server' = [server EXCEPT !.pc = "failed"]
    /\ UNCHANGED <<config, client, toServer, toClient, conn, calls, banners>>

Server == serviceAccept \/ serverAuthenticate \/ Challenge \/ ChallengeAnswers \/ CallbackReturns \/ ServerLost

-----------------------------------------------------------------------------
(* Faults, and servers that send a banner before an answer. *)
ConnLost ==
    /\ MayFail /\ conn = "up"
    /\ conn' = "lost" /\ toServer' = <<>>
    /\ UNCHANGED <<config, client, server, toClient, calls, banners>>

Banner ==
    /\ server.pc \in {"loop", "callback", "answers"} /\ banners < MaxBanners /\ conn = "up"
    /\ client.pc \notin {"start", "accept"}
    /\ reply([t |-> "banner"])
    /\ banners' = banners + 1
    /\ UNCHANGED <<config, client, server, toServer, conn, calls>>

Next == Client \/ Server \/ ConnLost \/ Banner
Spec == Init /\ [][Next]_vars

(* Any client: it names any user and any credential, asks or signs, and does not    *)
(* wait for answers.                                                            *)
Ask ==
    /\ conn = "up" /\ client.i <= MaxAsked /\ client.pc # "start"
    /\ \E u \in Users, m \in {"none", "password", "publickey"}, k \in Keys, sig \in {"none", "good", "bad", "format"} :
         send([t |-> "auth", method |-> m, user |-> u, cred |-> IF m = "publickey" THEN k ELSE "password",
               sig |-> IF m = "publickey" THEN sig ELSE "none"])
    /\ client' = [client EXCEPT !.i = @ + 1]
    /\ toClient' = <<>>
    /\ UNCHANGED <<config, server, conn, calls, banners>>

AnyClientNext == Start \/ Ask \/ serviceAccept \/ serverAuthenticate

-----------------------------------------------------------------------------
Ended == {"ok", "unable", "error"}

(* Both sides agree: a client that was told of success has a server that let its    *)
(* user in, and a server lets in nobody whose client gave up.                      *)
OutcomesAgree ==
    /\ client.pc = "ok" => server.pc = "done" /\ server.user \in {User, ""}
    /\ client.pc = "unable" => server.pc # "done"

(* What a server lets in was asked for by the request it answers: the user and the   *)
(* permissions are those of the credential of that request, whatever other users       *)
(* and keys were tried or cached before on the connection.                          *)
RightIdentity ==
    server.pc = "done" =>
        LET q == server.req IN
        IF q.method = "none" THEN config.NoClientAuth /\ server.user = "" /\ server.perms = <<>>
        ELSE /\ Callback(q.user, q.cred) /\ server.user = q.user
             /\ server.perms = <<q.user, q.cred>>
             /\ q.method = "publickey" => q.sig = "good" /\ checkSourceAddress(q.cred)

Usable(m) ==
    /\ m \in config.callbacks
    /\ CASE m = "password" -> Callback(User, "password")
         [] m = "keyboard-interactive" -> Callback(User, "answers")
         [] m = "publickey" -> \E i \in DOMAIN config.signers :
                                 checkKey(User, config.signers[i]) /\ isAcceptableAlgo(config.signers[i])

(* clientAuthenticate tries "any untried methods suggested by the server": it gives    *)
(* up only when nothing the client has would have been accepted.                       *)
TriesEverything == client.pc = "unable" => \A i \in DOMAIN config.Auth : ~Usable(config.Auth[i])

(* Callbacks are asked once about a user and key as long as the cache has room.      *)
AskedOnce == \A uk \in DOMAIN calls : calls[uk] > 1 => Len(server.cache) = maxCachedPubKeys

(* Authentication has come to an end at both sides.                         *)
BothEnded == client.pc \in Ended /\ server.pc \in {"done", "failed"}
=============================================================================
