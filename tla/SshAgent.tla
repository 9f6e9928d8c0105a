------------------------------ MODULE SshAgent ------------------------------
(***************************************************************************)
(* The ssh agent (internal/golang.org/x/crypto/ssh/agent): callers of a    *)
(* client that share its connection (client.go), the goroutine of          *)
(* ServeAgent at the other end (server.go), and the keyring it serves,     *)
(* which callers in the same process use directly (keyring.go).            *)
(*                                                                         *)
(* A key is a model value with a kind; a certificate is "none", "match" or *)
(* "mismatch". Replies carry the number of the request they answer, which  *)
(* the protocol does not have: the properties compare the two.             *)
(***************************************************************************)
EXTENDS Integers, Sequences, FiniteSets
CONSTANTS
  Remote, Local,  \* callers of the client and of the keyring itself
  Requests,       \* the requests [op, key, cert, pass] they may make
  Kind,           \* [keys -> {"rsa", "rsa3", "dsa", "other"}]
  None,
  MaxCalls,       \* calls of each caller
  MaxReply,       \* identities that fit into maxAgentResponseBytes
  MayFail         \* the connection may break
VARIABLES
  pc,       \* [caller -> "idle", "lock", "read" or "direct"]
  req,      \* [caller -> the request of its call]
  calls,    \* [caller -> calls begun]
  out,      \* [caller -> what its last call returned]
  mu,       \* client.mu
  conn,     \* [up, toAgent, fromAgent]
  server,   \* ServeAgent: "read", "remove", "done"
  keyring,  \* [keys, locked, passphrase]
  rem,      \* the loop of keyring.Remove, which holds keyring.mu
  quiet,    \* a Lock has returned and no Unlock has begun since
  sole,     \* callers in a Lock that has met no Unlock since it began
  under     \* callers whose call began while quiet, and it still is
vars == <<pc, req, calls, out, mu, conn, server, keyring, rem, quiet, sole, under>>
callVars == <<pc, req, calls, out, mu, quiet, sole, under>>

Callers == Remote \cup Local
NoRem == [by |-> None, key |-> None, i |-> 0, found |-> FALSE]
NoReq == [op |-> "none", key |-> None, cert |-> "none", pass |-> None, id |-> None]
Reply(typ, keys, id) == [typ |-> typ, keys |-> keys, id |-> id]

AgentAssumption ==
  /\ \A r \in Requests : r.op \in {"removeAll", "lock", "unlock", "list", "add", "sign", "remove"}
  /\ None \notin Callers /\ "server" \notin Callers /\ None # "server"

Init ==
  /\ pc = [c \in Callers |-> "idle"] /\ req = [c \in Callers |-> NoReq]
  /\ calls = [c \in Callers |-> 0] /\ out = [c \in Callers |-> Reply("none", {}, None)]
  /\ mu = None /\ conn = [up |-> TRUE, toAgent |-> <<>>, fromAgent |-> <<>>]
  /\ server = "read" /\ keyring = [keys |-> <<>>, locked |-> FALSE, passphrase |-> None]
  /\ rem = NoRem /\ quiet = FALSE /\ sole = {} /\ under = {}
-----------------------------------------------------------------------------
(* keyring.go: each method but Remove is one step under the mutex *)

Blobs(keys) == {keys[i] : i \in DOMAIN keys}
\* The public key of an identity is its certificate's, if it has one
Blob(r) == <<r.key, r.cert = "match">>

Keep(typ, keys) == [ring |-> keyring, typ |-> typ, keys |-> keys]
Set(ring) == [ring |-> ring, typ |-> "success", keys |-> {}]

RemoveAll ==
  IF keyring.locked THEN Keep("failure", {}) ELSE Set([keyring EXCEPT !.keys = <<>>])

Lock(r) ==
  IF keyring.locked THEN Keep("failure", {})
  ELSE Set([keyring EXCEPT !.locked = TRUE, !.passphrase = r.pass])

Unlock(r) ==
  IF keyring.locked /\ r.pass = keyring.passphrase
    THEN Set([keyring EXCEPT !.locked = FALSE, !.passphrase = None])
    ELSE Keep("failure", {})

List == Keep("identities", IF keyring.locked THEN {} ELSE Blobs(keyring.keys))

Add(r) ==
  IF keyring.locked \/ Kind[r.key] = "other" \/ r.cert = "mismatch" THEN Keep("failure", {})
  ELSE Set([keyring EXCEPT !.keys = Append(@, Blob(r))])

Sign(r) ==
  IF ~keyring.locked /\ Blob(r) \in Blobs(keyring.keys) THEN Keep("signature", {Blob(r)})
  ELSE Keep("failure", {})

Do(r) ==
  CASE r.op = "removeAll" -> RemoveAll
    [] r.op = "lock" -> Lock(r)
    [] r.op = "unlock" -> Unlock(r)
    [] r.op = "list" -> List
    [] r.op = "add" -> Add(r)
    [] r.op = "sign" -> Sign(r)

\* insertIdentity knows RSA keys without a certificate
insertIdentity(r) == IF Kind[r.key] = "rsa" /\ r.cert = "none" THEN Add(r) ELSE Keep("failure", {})

processRequest(r) == IF r.op = "add" THEN insertIdentity(r) ELSE Do(r)

\* Remove takes the mutex and begins its loop, unless the keyring is locked
RemoveBegin(by, r) ==
  /\ rem = NoRem /\ ~keyring.locked
  /\ rem' = [by |-> by, key |-> Blob(r), i |-> 1, found |-> FALSE]

\* The last key comes to the place of the removed one, and r.keys becomes what
\* r.keys[len(r.keys)-1:] is: the last key alone
RemoveStep ==
  /\ rem # NoRem /\ rem.i <= Len(keyring.keys)
  /\ IF keyring.keys[rem.i] = rem.key
       THEN /\ keyring' = [keyring EXCEPT !.keys = <<@[Len(@)]>>]
            /\ rem' = [rem EXCEPT !.found = TRUE]
       ELSE rem' = [rem EXCEPT !.i = @ + 1] /\ UNCHANGED keyring
  /\ UNCHANGED <<callVars, conn, server>>

RemoveOver == rem # NoRem /\ rem.i > Len(keyring.keys)
RemoveResult == IF rem.found THEN "success" ELSE "failure"
-----------------------------------------------------------------------------
(* client.go *)

Return(c, typ, keys, id) ==
  /\ pc' = [pc EXCEPT ![c] = "idle"] /\ out' = [out EXCEPT ![c] = Reply(typ, keys, id)]
  /\ quiet' = (quiet \/ (c \in sole /\ typ = "success")) /\ sole' = sole \ {c}

\* RSA keys of two primes, DSA and ECDSA keys can be sent
insertKeyRefuses(r) == Kind[r.key] \in {"rsa3", "other"}
insertCertRefuses(r) == Kind[r.key] \in {"rsa3", "other"} \/ r.cert = "mismatch"
Unsendable(r) ==
  r.op = "add" /\ IF r.cert = "none" THEN insertKeyRefuses(r) ELSE insertCertRefuses(r)

Begin(c, r) ==
  /\ pc[c] = "idle" /\ calls[c] < MaxCalls
  /\ calls' = [calls EXCEPT ![c] = @ + 1]
  /\ LET q == [op |-> r.op, key |-> r.key, cert |-> r.cert, pass |-> r.pass, id |-> <<c, calls[c]>>]
     IN req' = [req EXCEPT ![c] = q]
  /\ IF c \in Remote /\ Unsendable(r)
       THEN out' = [out EXCEPT ![c] = Reply("error", {}, <<c, calls[c]>>)] /\ UNCHANGED pc
       ELSE /\ pc' = [pc EXCEPT ![c] = IF c \in Remote THEN "lock" ELSE "direct"]
            /\ out' = [out EXCEPT ![c] = Reply("none", {}, None)]
  /\ quiet' = (quiet /\ r.op # "unlock")
  /\ LET unlocking == \E d \in Callers : pc[d] # "idle" /\ req[d].op = "unlock"
     IN sole' = IF r.op = "unlock" THEN {} ELSE IF r.op = "lock" /\ ~unlocking THEN sole \cup {c} ELSE sole
  /\ under' = IF r.op = "unlock" THEN {} ELSE IF quiet THEN under \cup {c} ELSE under \ {c}
  /\ UNCHANGED <<mu, conn, server, keyring, rem>>

\* call: takes the mutex and writes the request
CallWrite(c) ==
  /\ pc[c] = "lock" /\ mu = None
  /\ IF conn.up
       THEN /\ conn' = [conn EXCEPT !.toAgent = Append(@, req[c])] /\ mu' = c
            /\ pc' = [pc EXCEPT ![c] = "read"] /\ UNCHANGED <<out, quiet, sole>>
       ELSE Return(c, "error", {}, req[c].id) /\ UNCHANGED <<conn, mu>>
  /\ UNCHANGED <<req, calls, server, keyring, rem, under>>

\* The replies each operation knows; List and Sign panic at any other
Expected(op) ==
  CASE op = "list" -> {"identities", "failure"}
    [] op = "sign" -> {"signature", "failure"}
    [] OTHER -> {"success", "failure", "identities", "signature"}

\* simpleCall: what is not success is a failure
Outcome(op, typ) ==
  IF typ \notin Expected(op) THEN "panic"
  ELSE IF op \in {"list", "sign"} \/ typ = "success" THEN typ ELSE "failure"

\* call: reads the reply and gives the mutex back
CallRead(c) ==
  /\ pc[c] = "read" /\ conn.fromAgent # <<>> /\ mu' = None
  /\ LET m == Head(conn.fromAgent) IN Return(c, Outcome(req[c].op, m.typ), m.keys, m.id)
  /\ conn' = [conn EXCEPT !.fromAgent = Tail(@)]
  /\ UNCHANGED <<req, calls, server, keyring, rem, under>>

CallReadError(c) ==
  /\ pc[c] = "read" /\ ~conn.up /\ conn.fromAgent = <<>> /\ mu' = None
  /\ Return(c, "error", {}, req[c].id)
  /\ UNCHANGED <<req, calls, conn, server, keyring, rem, under>>

\* A caller in the keyring's process
Direct(c) ==
  /\ pc[c] = "direct" /\ rem = NoRem
  /\ \/ /\ req[c].op = "remove" /\ RemoveBegin(c, req[c])
        /\ UNCHANGED <<pc, out, quiet, sole, keyring>>
     \/ /\ req[c].op = "remove" /\ keyring.locked /\ Return(c, "failure", {}, req[c].id)
        /\ UNCHANGED <<rem, keyring>>
     \/ /\ req[c].op # "remove"
        /\ LET d == Do(req[c]) IN keyring' = d.ring /\ Return(c, d.typ, d.keys, req[c].id)
        /\ UNCHANGED rem
  /\ UNCHANGED <<req, calls, mu, conn, server, under>>

DirectRemoved(c) ==
  /\ rem.by = c /\ RemoveOver /\ rem' = NoRem
  /\ Return(c, RemoveResult, {}, req[c].id)
  /\ UNCHANGED <<req, calls, mu, conn, server, keyring, under>>
-----------------------------------------------------------------------------
(* server.go: ServeAgent and the goroutine of ForwardToAgent around it *)

Write(typ, keys, id) == [conn EXCEPT !.toAgent = Tail(@), !.fromAgent = Append(@, Reply(typ, keys, id))]

\* A reply that is too large ends ServeAgent, as an error of the connection does
Serve ==
  /\ server = "read" /\ rem = NoRem /\ conn.up /\ conn.toAgent # <<>>
  /\ LET r == Head(conn.toAgent) IN
     \/ /\ r.op = "remove" /\ RemoveBegin("server", r) /\ server' = "remove"
        /\ UNCHANGED <<conn, keyring>>
     \/ /\ r.op = "remove" /\ keyring.locked /\ conn' = Write("failure", {}, r.id)
        /\ UNCHANGED <<server, keyring, rem>>
     \/ /\ r.op # "remove"
        /\ LET d == processRequest(r) IN
             /\ keyring' = d.ring
             /\ IF r.op = "list" /\ ~keyring.locked /\ Len(keyring.keys) > MaxReply
                  THEN server' = "done" /\ UNCHANGED conn
                  ELSE conn' = Write(d.typ, d.keys, r.id) /\ UNCHANGED server
        /\ UNCHANGED rem
  /\ UNCHANGED callVars

ServeRemoved ==
  /\ server = "remove" /\ RemoveOver /\ rem' = NoRem
  /\ IF conn.up
       THEN /\ conn' = Write(RemoveResult, {}, Head(conn.toAgent).id) /\ server' = "read"
       ELSE server' = "done" /\ UNCHANGED conn
  /\ UNCHANGED <<callVars, keyring>>

ServeError ==
  /\ server = "read" /\ ~conn.up /\ server' = "done"
  /\ UNCHANGED <<callVars, conn, keyring, rem>>

\* channel.Close() after ServeAgent
CloseChannel ==
  /\ server = "done" /\ conn.up /\ conn' = [conn EXCEPT !.up = FALSE]
  /\ UNCHANGED <<callVars, server, keyring, rem>>

\* The connection breaks; replies on their way may be lost
Break ==
  /\ MayFail /\ conn.up
  /\ \E n \in 0..Len(conn.fromAgent) :
       conn' = [conn EXCEPT !.up = FALSE, !.fromAgent = SubSeq(@, 1, n)]
  /\ UNCHANGED <<callVars, server, keyring, rem>>

CallStep(c) ==
  CallWrite(c) \/ CallRead(c) \/ CallReadError(c) \/ Direct(c) \/ DirectRemoved(c)
AgentStep == RemoveStep \/ Serve \/ ServeRemoved \/ ServeError \/ CloseChannel
Next ==
  \/ \E c \in Callers : CallStep(c) \/ \E r \in Requests : Begin(c, r)
  \/ AgentStep \/ Break

Spec == Init /\ [][Next]_vars
-----------------------------------------------------------------------------
(***************************************************************************)
(* A call returns the reply to its own request, and List and Sign never    *)
(* meet a reply they panic at: client.mu keeps a request and its reply     *)
(* together although callers share one connection.                         *)
(***************************************************************************)
OwnReply ==
  \A c \in Callers : pc[c] = "idle" /\ out[c].typ # "none" =>
    out[c].id = req[c].id /\ out[c].typ # "panic"

(***************************************************************************)
(* "Sign and Remove will fail, and List will empty an empty list": once a  *)
(* Lock has returned, no call that begins before the next Unlock returns a *)
(* key, a signature or success, over the connection or directly.           *)
(***************************************************************************)
LockedSilent ==
  \A c \in under : pc[c] = "idle" =>
    out[c].typ \in {"failure", "error"} \/ (out[c].typ = "identities" /\ out[c].keys = {})

(* The caller is inside a call.                                             *)
InCall(c) == pc[c] # "idle"

(* The loop of Remove has put the key it looks for to its own place and     *)
(* keeps finding it there, with the keyring's mutex.                        *)
Spinning == rem # NoRem /\ keyring.keys = <<rem.key>> /\ rem.i = 1
=============================================================================
