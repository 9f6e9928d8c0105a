----------------------------- MODULE RemoteProofs ----------------------------
(***************************************************************************)
(* The clients through which gumtool and its users reach remote hosts: the *)
(* ssh agent and the SFTP client.  Many goroutines share one connection,   *)
(* and every caller learns what the other side said of its own request.    *)
(***************************************************************************)
EXTENDS SshAgent, TLAPS


AgentOps == {"removeAll", "lock", "unlock", "list", "add", "sign", "remove"}

(* What a call may return while the keyring is locked.                      *)
Silent(m) == m.typ \in {"failure", "error"} \/ (m.typ = "identities" /\ m.keys = {})

(* x is the state of a keyring.                                             *)
Ring(x) == x = [keys |-> x.keys, locked |-> x.locked, passphrase |-> x.passphrase] /\ x.locked \in BOOLEAN

(* x is the state of the connection.                                        *)
Channel(x) == x = [up |-> x.up, toAgent |-> x.toAgent, fromAgent |-> x.fromAgent] /\ x.up \in BOOLEAN

(* The state has its shape: one caller at a time is between a request and   *)
(* its reply, and it holds client.mu.                                       *)
AgentShape ==
  /\ pc \in [Callers -> {"idle", "lock", "read", "direct"}]
  /\ req = [c \in Callers |-> req[c]] /\ out = [c \in Callers |-> out[c]]
  /\ mu \in Callers \cup {None} /\ \A c \in Callers : pc[c] = "read" <=> mu = c
  /\ Channel(conn)
  /\ Ring(keyring)
  /\ rem = [by |-> rem.by, key |-> rem.key, i |-> rem.i, found |-> rem.found]
  /\ rem.by \in Callers \cup {None, "server"} /\ (rem.by = None => rem = NoRem)
  /\ server \in {"read", "remove", "done"}
  /\ quiet \in BOOLEAN /\ sole \subseteq Callers /\ under \subseteq Callers
  /\ \A c \in Callers : pc[c] # "idle" => req[c].op \in AgentOps

(* The loop of keyring.Remove belongs to a call of Remove, and runs while   *)
(* the keyring is not locked.                                               *)
AgentRemoves ==
  /\ rem # NoRem => ~keyring.locked
  /\ server = "remove" <=> rem.by = "server"
  /\ \A c \in Callers : rem.by = c => pc[c] = "direct" /\ req[c].op = "remove"

(* m is the reply to the call of c.                                         *)
Answers(c, m) ==
  /\ m.id = req[c].id /\ m.typ \in Expected(req[c].op)
  /\ c \in sole /\ m.typ = "success" => keyring.locked
  /\ c \in under => Silent(m)

(* The connection holds a request or a reply of the holder of client.mu,    *)
(* never both, and nothing while nobody holds it.                           *)
AgentWire ==
  /\ mu = None => conn.fromAgent = <<>> /\ (conn.up => conn.toAgent = <<>>)
  /\ conn.up /\ conn.toAgent # <<>> => conn.toAgent = <<req[mu]>> /\ conn.fromAgent = <<>>
  /\ conn.fromAgent # <<>> =>
       conn.fromAgent = <<Head(conn.fromAgent)>> /\ Answers(mu, Head(conn.fromAgent))
  /\ conn.up /\ server = "remove" => conn.toAgent # <<>> /\ req[mu].op = "remove"

(* A Lock that has returned, or will, with success and has met no Unlock    *)
(* leaves the keyring locked.                                               *)
AgentLocked ==
  /\ quiet \/ sole # {} => \A c \in Callers : pc[c] # "idle" => req[c].op # "unlock"
  /\ \A c \in sole : pc[c] # "idle" /\ req[c].op = "lock"
  /\ quiet => keyring.locked
  /\ under # {} => quiet

AgentInv == AgentShape /\ AgentRemoves /\ AgentWire /\ AgentLocked /\ OwnReply /\ LockedSilent

LEMMA AgentInitInv ==
  ASSUME AgentAssumption, Init
  PROVE  AgentInv
<1>1. AgentShape
  BY Zenon DEF AgentAssumption, Init, AgentShape, NoRem, Ring, Channel
<1>2. AgentRemoves /\ AgentWire /\ AgentLocked
  BY Zenon DEF AgentAssumption, Init, AgentRemoves, AgentWire, AgentLocked, NoRem
<1>3. OwnReply /\ LockedSilent
  BY Zenon DEF Init, OwnReply, LockedSilent, Reply
<1> QED BY <1>1, <1>2, <1>3, Zenon DEF AgentInv

(* What Return does to the caller that returns, and to the others.          *)
LEMMA AgentReturn ==
  ASSUME AgentInv, NEW c \in Callers, NEW typ, NEW keys, Return(c, typ, keys, req[c].id), pc[c] # "idle",
         req' = req, under' = under, typ \notin {"panic", "none"},
         c \in sole /\ typ = "success" => keyring'.locked,
         quiet => keyring'.locked,
         c \in under => Silent(Reply(typ, keys, req[c].id))
  PROVE  AgentLocked' /\ OwnReply' /\ LockedSilent'
<1>1. /\ AgentShape /\ AgentLocked /\ OwnReply /\ LockedSilent
      /\ pc' = [pc EXCEPT ![c] = "idle"] /\ out' = [out EXCEPT ![c] = Reply(typ, keys, req[c].id)]
      /\ quiet' = (quiet \/ (c \in sole /\ typ = "success")) /\ sole' = sole \ {c}
  BY Zenon DEF AgentInv, Return
<1>2. /\ pc'[c] = "idle" /\ out'[c].typ = typ /\ out'[c].keys = keys /\ out'[c].id = req'[c].id
      /\ \A d \in Callers : d # c => pc'[d] = pc[d] /\ out'[d] = out[d]
  BY <1>1, Zenon DEF AgentShape, Reply
<1>3. AgentLocked'
  <2>1. (quiet' \/ sole' # {}) => (quiet \/ sole # {})
    BY <1>1, Zenon
  <2>2. (quiet' \/ sole' # {}) => \A d \in Callers : pc'[d] # "idle" => req'[d].op # "unlock"
    BY <1>1, <1>2, <2>1 DEF AgentLocked
  <2>3. \A d \in sole' : pc'[d] # "idle" /\ req'[d].op = "lock"
    BY <1>1, <1>2, Zenon DEF AgentLocked, AgentShape
  <2>4. (quiet' => keyring'.locked) /\ (under' # {} => quiet')
    BY <1>1, Zenon DEF AgentLocked
  <2> QED BY <2>2, <2>3, <2>4, Zenon DEF AgentLocked
<1>4. OwnReply'
  BY <1>1, <1>2 DEF OwnReply
<1>5. LockedSilent'
  <2>1. ASSUME NEW d \in under', pc'[d] = "idle"
        PROVE  Silent(out'[d])
    BY <1>1, <1>2, <2>1, ZenonT(40) DEF LockedSilent, Silent, Reply, AgentShape
  <2> QED BY <2>1, Zenon DEF LockedSilent, Silent
<1> QED BY <1>3, <1>4, <1>5, Zenon

(* A call begins: its caller was idle, so it does not hold client.mu and no *)
(* reply is on its way to it.                                               *)
LEMMA AgentBegin ==
  ASSUME AgentAssumption, AgentInv, NEW c \in Callers, NEW r \in Requests, Begin(c, r)
  PROVE  AgentInv'
<1>1. AgentShape /\ AgentRemoves /\ AgentWire /\ AgentLocked /\ OwnReply /\ LockedSilent
  BY Zenon DEF AgentInv
<1>2. /\ pc[c] = "idle" /\ r.op \in AgentOps /\ mu # c /\ rem.by # c /\ c \notin sole
      /\ UNCHANGED <<mu, conn, server, keyring, rem>>
  BY <1>1, Zenon DEF Begin, AgentAssumption, AgentOps, AgentShape, AgentRemoves, AgentLocked
<1>3. /\ req'[c].op = r.op /\ req'[c].id = <<c, calls[c]>> /\ req' = [d \in Callers |-> req'[d]]
      /\ \A d \in Callers : d # c => req'[d] = req[d]
  <2> DEFINE q == [op |-> r.op, key |-> r.key, cert |-> r.cert, pass |-> r.pass, id |-> <<c, calls[c]>>]
  <2>1. req' = [req EXCEPT ![c] = q] /\ q.op = r.op /\ q.id = <<c, calls[c]>>
    BY Zenon DEF Begin
  <2> HIDE DEF q
  <2> QED BY <1>1, <2>1, Zenon DEF AgentShape
<1>4. /\ \A d \in Callers : d # c => pc'[d] = pc[d] /\ out'[d] = out[d]
      /\ pc' \in [Callers -> {"idle", "lock", "read", "direct"}] /\ pc'[c] # "read"
      /\ out' = [d \in Callers |-> out'[d]]
      /\ \/ pc'[c] = "idle" /\ r.op = "add" /\ out'[c] = Reply("error", {}, <<c, calls[c]>>)
         \/ pc'[c] # "idle" /\ out'[c] = Reply("none", {}, None)
  <2>1. CASE c \in Remote /\ Unsendable(r)
    <3>1. r.op = "add" /\ pc' = pc /\ out' = [out EXCEPT ![c] = Reply("error", {}, <<c, calls[c]>>)]
      BY <2>1, Zenon DEF Begin, Unsendable
    <3> QED BY <1>1, <1>2, <3>1, Zenon DEF AgentShape
  <2>2. CASE ~(c \in Remote /\ Unsendable(r))
    <3> DEFINE p == IF c \in Remote THEN "lock" ELSE "direct"
    <3>1. pc' = [pc EXCEPT ![c] = p] /\ out' = [out EXCEPT ![c] = Reply("none", {}, None)]
      BY <2>2, Zenon DEF Begin
    <3>2. p \in {"lock", "direct"}
      BY Zenon
    <3> HIDE DEF p
    <3> QED BY <1>1, <3>1, <3>2, Zenon DEF AgentShape
  <2> QED BY <2>1, <2>2, Zenon
<1>5. /\ quiet' \in BOOLEAN /\ (quiet' => quiet /\ r.op # "unlock")
      /\ under' \subseteq Callers /\ \A d \in under' : quiet' /\ (d # c => d \in under)
      /\ sole' \subseteq Callers /\ \A d \in sole' : r.op # "unlock" /\ (d # c => d \in sole)
      /\ c \in sole' => /\ r.op = "lock"
                        /\ \A d \in Callers : pc[d] # "idle" => req[d].op # "unlock"
  <2>1. quiet' \in BOOLEAN /\ (quiet' <=> quiet /\ r.op # "unlock")
    BY <1>1, Zenon DEF Begin, AgentShape
  <2>2. under' = IF r.op = "unlock" THEN {} ELSE IF quiet THEN under \cup {c} ELSE under \ {c}
    BY Zenon DEF Begin
  <2>3. \/ sole' = {} \/ (r.op # "unlock" /\ sole' = sole)
        \/ /\ sole' = sole \cup {c} /\ r.op = "lock"
           /\ \A d \in Callers : pc[d] # "idle" => req[d].op # "unlock"
    BY Zenon DEF Begin
  <2>4. under' \subseteq Callers /\ \A d \in under' : quiet' /\ (d # c => d \in under)
    BY <1>1, <2>1, <2>2, Zenon DEF AgentShape, AgentLocked
  <2>5. /\ sole' \subseteq Callers /\ \A d \in sole' : r.op # "unlock" /\ (d # c => d \in sole)
        /\ c \in sole' => /\ r.op = "lock"
                          /\ \A d \in Callers : pc[d] # "idle" => req[d].op # "unlock"
    BY <1>1, <1>2, <2>3, Zenon DEF AgentShape
  <2> QED BY <2>1, <2>4, <2>5, Zenon
<1>6. AgentShape'
  BY <1>1, <1>2, <1>3, <1>4, <1>5 DEF AgentShape, NoRem
<1>7. AgentRemoves'
  BY <1>1, <1>2, <1>3, <1>4 DEF AgentRemoves, NoRem
<1>8. AgentWire'
  <2>1. CASE mu = None
    BY <1>1, <1>2, <2>1, Zenon DEF AgentWire
  <2>2. CASE mu # None
    <3>1. mu \in Callers /\ req'[mu] = req[mu] /\ (mu \in sole' => mu \in sole) /\ (mu \in under' => mu \in under)
      BY <1>1, <1>2, <1>3, <1>5, <2>2, Zenon DEF AgentShape
    <3>2. ASSUME NEW m, Answers(mu, m)
          PROVE  Answers(mu, m)'
      BY <1>2, <3>1, <3>2, Zenon DEF Answers, Expected, Silent
    <3> QED BY <1>1, <1>2, <3>1, <3>2, Zenon DEF AgentWire
  <2> QED BY <2>1, <2>2, Zenon
<1>9. AgentLocked'
  <2>1. (quiet' \/ sole' # {}) => \A d \in Callers : pc'[d] # "idle" => req'[d].op # "unlock"
    BY <1>1, <1>3, <1>4, <1>5 DEF AgentLocked
  <2>2. \A d \in sole' : pc'[d] # "idle" /\ req'[d].op = "lock"
    BY <1>1, <1>3, <1>4, <1>5 DEF AgentLocked
  <2>3. (quiet' => keyring'.locked) /\ (under' # {} => quiet')
    BY <1>1, <1>2, <1>5, Zenon DEF AgentLocked
  <2> QED BY <2>1, <2>2, <2>3, Zenon DEF AgentLocked
<1>10. OwnReply'
  BY <1>1, <1>3, <1>4 DEF OwnReply, Reply
<1>11. LockedSilent'
  BY <1>1, <1>4, <1>5 DEF LockedSilent, Reply
<1> QED BY <1>6, <1>7, <1>8, <1>9, <1>10, <1>11, Zenon DEF AgentInv

(* A reply on its way stays the reply to its call while the caller waits.   *)
LEMMA AnswersKept ==
  ASSUME NEW c \in Callers, NEW m, Answers(c, m), req'[c] = req[c], c \in sole' => c \in sole,
         c \in under' => c \in under, c \in sole /\ keyring.locked => keyring'.locked
  PROVE  Answers(c, m)'
BY Zenon DEF Answers, Expected, Silent

(* What the methods of the keyring do: only Unlock opens a locked keyring,  *)
(* which tells nothing to the others, and Lock has locked it if it succeeds.*)
Tells(d, r) ==
  /\ Ring(d.ring) /\ d.typ \in Expected(r.op) /\ d.typ \notin {"panic", "none"}
  /\ keyring.locked /\ r.op # "unlock" => d.ring.locked /\ Silent(d)
  /\ r.op = "lock" /\ d.typ = "success" => d.ring.locked

LEMMA KeepTells ==
  ASSUME AgentShape, NEW r, NEW typ, NEW keys, typ \in Expected(r.op), typ \notin {"panic", "none"},
         keyring.locked => typ = "failure" \/ (typ = "identities" /\ keys = {}),
         typ # "success"
  PROVE  Tells(Keep(typ, keys), r)
BY Zenon DEF Tells, Keep, AgentShape, Silent

LEMMA SetTells ==
  ASSUME NEW ring, Ring(ring), NEW r,
         "success" \in Expected(r.op), ~keyring.locked \/ r.op = "unlock", r.op = "lock" => ring.locked
  PROVE  Tells(Set(ring), r)
BY Zenon DEF Tells, Set, Silent

LEMMA RingSet ==
  ASSUME Ring(keyring), NEW v, NEW l \in BOOLEAN
  PROVE  /\ Ring([keyring EXCEPT !.keys = v])
         /\ Ring([keyring EXCEPT !.locked = l, !.passphrase = v])
         /\ [keyring EXCEPT !.keys = v].locked = keyring.locked
         /\ [keyring EXCEPT !.locked = l, !.passphrase = v].locked = l
<1>1. PICK k, y, p : keyring = [keys |-> k, locked |-> y, passphrase |-> p]
  BY Zenon DEF Ring
<1>2. y \in BOOLEAN /\ keyring.locked = y
  BY <1>1, Zenon DEF Ring
<1>3. [keyring EXCEPT !.keys = v] = [keys |-> v, locked |-> y, passphrase |-> p]
  BY <1>1
<1>4. [keyring EXCEPT !.locked = l, !.passphrase = v] = [keys |-> k, locked |-> l, passphrase |-> v]
  <2> DEFINE q == [keyring EXCEPT !.locked = l, !.passphrase = v]
  <2>1. /\ q.keys = k /\ q.locked = l /\ q.passphrase = v
        /\ q = [i \in {"keys", "locked", "passphrase"} |-> q[i]]
    BY <1>1, Zenon
  <2> HIDE DEF q
  <2>2. q = [keys |-> k, locked |-> l, passphrase |-> v]
    BY <2>1, Zenon
  <2> QED BY <2>2, Zenon DEF q
<1>5. Ring([keys |-> v, locked |-> y, passphrase |-> p]) /\ Ring([keys |-> k, locked |-> l, passphrase |-> v])
  BY <1>2, Zenon DEF Ring
<1>6. [keys |-> v, locked |-> y, passphrase |-> p].locked = y /\ [keys |-> k, locked |-> l, passphrase |-> v].locked = l
  BY <1>2, Zenon
<1> QED BY <1>2, <1>3, <1>4, <1>5, <1>6, Zenon

LEMMA ExpectedTypes ==
  /\ Expected("list") = {"identities", "failure"} /\ Expected("sign") = {"signature", "failure"}
  /\ \A o \in {"removeAll", "lock", "unlock", "add", "remove"} :
       Expected(o) = {"success", "failure", "identities", "signature"}
BY Zenon DEF Expected

LEMMA AddTells ==
  ASSUME AgentShape, NEW r, r.op = "add"
  PROVE  Tells(Add(r), r) /\ Tells(insertIdentity(r), r)
<1>1. Tells(Keep("failure", {}), r)
  BY KeepTells, ExpectedTypes, Zenon
<1>2. ASSUME ~keyring.locked
      PROVE  Tells(Set([keyring EXCEPT !.keys = Append(@, Blob(r))]), r)
  BY <1>2, RingSet, SetTells, ExpectedTypes, ZenonT(40) DEF AgentShape
<1>3. Tells(Add(r), r)
  <2>1. CASE Add(r) = Keep("failure", {})
    BY <1>1, <2>1, Zenon
  <2>2. CASE Add(r) # Keep("failure", {})
    BY <1>2, <2>2, Zenon DEF Add
  <2> QED BY <2>1, <2>2, Zenon
<1>4. Tells(insertIdentity(r), r)
  BY <1>1, <1>3, Zenon DEF insertIdentity
<1> QED BY <1>3, <1>4, Zenon

LEMMA DoTells ==
  ASSUME AgentShape, NEW r, r.op \in AgentOps, r.op # "remove"
  PROVE  Tells(Do(r), r) /\ Tells(processRequest(r), r)
<1>1. CASE r.op = "removeAll"
  <2>1. Do(r) = RemoveAll /\ Tells(Keep("failure", {}), r)
    BY <1>1, KeepTells, ExpectedTypes, Zenon DEF Do
  <2>2. Ring([keyring EXCEPT !.keys = <<>>])
    BY RingSet, Zenon DEF AgentShape
  <2>3. ~keyring.locked => Tells(Set([keyring EXCEPT !.keys = <<>>]), r)
    BY <1>1, <2>2, SetTells, ExpectedTypes, Zenon
  <2> QED BY <1>1, <2>1, <2>3, Zenon DEF RemoveAll, processRequest
<1>2. CASE r.op = "lock"
  <2>1. Do(r) = Lock(r) /\ Tells(Keep("failure", {}), r)
    BY <1>2, KeepTells, ExpectedTypes, Zenon DEF Do
  <2>2. Ring([keyring EXCEPT !.locked = TRUE, !.passphrase = r.pass]) /\ [keyring EXCEPT !.locked = TRUE, !.passphrase = r.pass].locked = TRUE
    BY RingSet, Zenon DEF AgentShape
  <2>3. ~keyring.locked => Tells(Set([keyring EXCEPT !.locked = TRUE, !.passphrase = r.pass]), r)
    BY <1>2, <2>2, SetTells, ExpectedTypes, Zenon
  <2> QED BY <1>2, <2>1, <2>3, Zenon DEF Lock, processRequest
<1>3. CASE r.op = "unlock"
  <2>1. Do(r) = Unlock(r) /\ Tells(Keep("failure", {}), r)
    BY <1>3, KeepTells, ExpectedTypes, Zenon DEF Do
  <2>2. Ring([keyring EXCEPT !.locked = FALSE, !.passphrase = None]) /\ [keyring EXCEPT !.locked = FALSE, !.passphrase = None].locked = FALSE
    BY RingSet, Zenon DEF AgentShape
  <2>3. Tells(Set([keyring EXCEPT !.locked = FALSE, !.passphrase = None]), r)
    BY <1>3, <2>2, SetTells, ExpectedTypes, Zenon
  <2> QED BY <1>3, <2>1, <2>3, Zenon DEF Unlock, processRequest
<1>4. CASE r.op = "list"
  <2>1. Do(r) = List
    BY <1>4, Zenon DEF Do
  <2> QED BY <1>4, <2>1, KeepTells, ExpectedTypes DEF List, processRequest
<1>5. CASE r.op = "add"
  BY <1>5, AddTells, Zenon DEF Do, processRequest
<1>6. CASE r.op = "sign"
  <2>1. Do(r) = Sign(r) /\ Tells(Keep("failure", {}), r)
    BY <1>6, KeepTells, ExpectedTypes, Zenon DEF Do
  <2>2. ~keyring.locked => Tells(Keep("signature", {Blob(r)}), r)
    BY <1>6, KeepTells, ExpectedTypes, Zenon
  <2> QED BY <1>6, <2>1, <2>2, Zenon DEF Sign, processRequest
<1> QED BY <1>1, <1>2, <1>3, <1>4, <1>5, <1>6, Zenon DEF AgentOps

LEMMA Single ==
  ASSUME NEW x
  PROVE  Head(<<x>>) = x /\ Tail(<<x>>) = <<>> /\ Len(<<x>>) = 1 /\ <<x>> # <<>> /\ Append(<<>>, x) = <<x>>
OBVIOUS

LEMMA SubSingle ==
  ASSUME NEW x
  PROVE  SubSeq(<<x>>, 1, 1) = <<x>> /\ SubSeq(<<x>>, 1, 0) = <<>>
<1>1. <<x>> \in Seq({x}) /\ Len(<<x>>) = 1 /\ <<x>>[1] = x
  OBVIOUS
<1>2. ASSUME NEW s \in Seq({x}), Len(s) = 1, s[1] = x
      PROVE  SubSeq(s, 1, 1) \in Seq({x}) /\ Len(SubSeq(s, 1, 1)) = 1 /\ SubSeq(s, 1, 1)[1] = x
  BY <1>2
<1>3. ASSUME NEW t \in Seq({x}), Len(t) = 1, t[1] = x
      PROVE  t = <<x>>
  BY <1>3
<1>4. SubSeq(<<x>>, 1, 1) = <<x>>
  BY <1>1, <1>2, <1>3, Zenon
<1>5. SubSeq(<<x>>, 1, 0) = <<>>
  OBVIOUS
<1> QED BY <1>4, <1>5, Zenon

LEMMA ChannelFields ==
  ASSUME NEW x, NEW u \in BOOLEAN, NEW t, NEW f,
         x.up = u, x.toAgent = t, x.fromAgent = f, x = [i \in {"up", "toAgent", "fromAgent"} |-> x[i]]
  PROVE  Channel(x)
BY Zenon DEF Channel

LEMMA ChannelTo ==
  ASSUME Channel(conn), NEW v, conn' = [conn EXCEPT !.toAgent = v]
  PROVE  Channel(conn') /\ conn'.up = conn.up /\ conn'.toAgent = v /\ conn'.fromAgent = conn.fromAgent
<1>1. PICK u, t, f : conn = [up |-> u, toAgent |-> t, fromAgent |-> f]
  BY Zenon DEF Channel
<1>2. conn.up = u /\ conn.toAgent = t /\ conn.fromAgent = f /\ u \in BOOLEAN
  BY <1>1, Zenon DEF Channel
<1>3. /\ conn'.up = u /\ conn'.toAgent = v /\ conn'.fromAgent = f
      /\ conn' = [i \in {"up", "toAgent", "fromAgent"} |-> conn'[i]]
  BY <1>1, Zenon
<1> QED BY <1>2, <1>3, ChannelFields, Zenon

LEMMA ChannelFrom ==
  ASSUME Channel(conn), NEW w, conn' = [conn EXCEPT !.fromAgent = w]
  PROVE  Channel(conn') /\ conn'.up = conn.up /\ conn'.toAgent = conn.toAgent /\ conn'.fromAgent = w
<1>1. PICK u, t, f : conn = [up |-> u, toAgent |-> t, fromAgent |-> f]
  BY Zenon DEF Channel
<1>2. conn.up = u /\ conn.toAgent = t /\ conn.fromAgent = f /\ u \in BOOLEAN
  BY <1>1, Zenon DEF Channel
<1>3. /\ conn'.up = u /\ conn'.toAgent = t /\ conn'.fromAgent = w
      /\ conn' = [i \in {"up", "toAgent", "fromAgent"} |-> conn'[i]]
  BY <1>1, Zenon
<1> QED BY <1>2, <1>3, ChannelFields, Zenon

LEMMA ChannelBoth ==
  ASSUME Channel(conn), NEW v, NEW w, conn' = [conn EXCEPT !.toAgent = v, !.fromAgent = w]
  PROVE  Channel(conn') /\ conn'.up = conn.up /\ conn'.toAgent = v /\ conn'.fromAgent = w
<1>1. PICK u, t, f : conn = [up |-> u, toAgent |-> t, fromAgent |-> f]
  BY Zenon DEF Channel
<1>2. conn.up = u /\ conn.toAgent = t /\ conn.fromAgent = f /\ u \in BOOLEAN
  BY <1>1, Zenon DEF Channel
<1>3. /\ conn'.up = u /\ conn'.toAgent = v /\ conn'.fromAgent = w
      /\ conn' = [i \in {"up", "toAgent", "fromAgent"} |-> conn'[i]]
  BY <1>1, Zenon
<1> QED BY <1>2, <1>3, ChannelFields, Zenon

LEMMA ChannelDown ==
  ASSUME Channel(conn), conn' = [conn EXCEPT !.up = FALSE]
  PROVE  Channel(conn') /\ ~conn'.up /\ conn'.toAgent = conn.toAgent /\ conn'.fromAgent = conn.fromAgent
<1>1. PICK u, t, f : conn = [up |-> u, toAgent |-> t, fromAgent |-> f]
  BY Zenon DEF Channel
<1>2. conn.up = u /\ conn.toAgent = t /\ conn.fromAgent = f /\ u \in BOOLEAN
  BY <1>1, Zenon DEF Channel
<1>3. /\ conn'.up = FALSE /\ conn'.toAgent = t /\ conn'.fromAgent = f
      /\ conn' = [i \in {"up", "toAgent", "fromAgent"} |-> conn'[i]]
  BY <1>1, Zenon
<1> QED BY <1>2, <1>3, ChannelFields, Zenon

LEMMA ChannelCut ==
  ASSUME Channel(conn), NEW w, conn' = [conn EXCEPT !.up = FALSE, !.fromAgent = w]
  PROVE  Channel(conn') /\ ~conn'.up /\ conn'.toAgent = conn.toAgent /\ conn'.fromAgent = w
<1>1. PICK u, t, f : conn = [up |-> u, toAgent |-> t, fromAgent |-> f]
  BY Zenon DEF Channel
<1>2. conn.up = u /\ conn.toAgent = t /\ conn.fromAgent = f /\ u \in BOOLEAN
  BY <1>1, Zenon DEF Channel
<1>3. /\ conn'.up = FALSE /\ conn'.toAgent = t /\ conn'.fromAgent = w
      /\ conn' = [i \in {"up", "toAgent", "fromAgent"} |-> conn'[i]]
  BY <1>1, Zenon
<1> QED BY <1>2, <1>3, ChannelFields, Zenon

(* client.call writes its request: nobody held client.mu, so the connection *)
(* was empty.                                                               *)
LEMMA AgentCallWrite ==
  ASSUME AgentAssumption, AgentInv, NEW c \in Callers, CallWrite(c)
  PROVE  AgentInv'
<1>1. AgentShape /\ AgentRemoves /\ AgentWire /\ AgentLocked /\ OwnReply /\ LockedSilent
  BY Zenon DEF AgentInv
<1>2. /\ pc[c] = "lock" /\ mu = None /\ conn.fromAgent = <<>> /\ (conn.up => conn.toAgent = <<>> /\ server # "remove")
      /\ UNCHANGED <<req, server, keyring, rem, under>> /\ c # None /\ req[c].op \in AgentOps
      /\ \A d \in Callers : pc[d] # "read"
  BY <1>1, Zenon DEF CallWrite, AgentWire, AgentAssumption, AgentShape
<1>3. CASE conn.up
  <2>1. /\ conn' = [conn EXCEPT !.toAgent = Append(@, req[c])] /\ mu' = c
        /\ pc' = [pc EXCEPT ![c] = "read"] /\ UNCHANGED <<out, quiet, sole>>
    BY <1>3, Zenon DEF CallWrite
  <2>2. conn'.up = conn.up /\ conn'.toAgent = <<req[c]>> /\ conn'.fromAgent = <<>> /\ Channel(conn')
    <3>1. conn' = [conn EXCEPT !.toAgent = <<req[c]>>] /\ Channel(conn)
      BY <1>1, <1>2, <1>3, <2>1, Single, Zenon DEF AgentShape
    <3> QED BY <1>2, <3>1, ChannelTo, Zenon
  <2>3. pc'[c] = "read" /\ \A d \in Callers : d # c => pc'[d] = pc[d]
    BY <1>1, <2>1, Zenon DEF AgentShape
  <2>4. AgentShape'
    <3>1. pc' \in [Callers -> {"idle", "lock", "read", "direct"}] /\ \A d \in Callers : pc'[d] = "read" <=> mu' = d
      BY <1>1, <1>2, <2>1, <2>3, Zenon DEF AgentShape
    <3> QED BY <1>1, <1>2, <2>1, <2>2, <2>3, <3>1, Zenon DEF AgentShape, NoRem
  <2>5. AgentRemoves'
    BY <1>1, <1>2, <2>3, Zenon DEF AgentRemoves, NoRem
  <2>6. AgentWire'
    BY <1>2, <1>3, <2>1, <2>2, Zenon DEF AgentWire
  <2>7. AgentLocked' /\ OwnReply' /\ LockedSilent'
    BY <1>1, <1>2, <2>1, <2>3, Zenon DEF AgentLocked, OwnReply, LockedSilent, AgentShape
  <2> QED BY <2>4, <2>5, <2>6, <2>7, Zenon DEF AgentInv
<1>4. CASE ~conn.up
  <2>1. Return(c, "error", {}, req[c].id) /\ UNCHANGED <<conn, mu>>
    BY <1>4, Zenon DEF CallWrite
  <2>2. AgentLocked' /\ OwnReply' /\ LockedSilent'
    <3>1. /\ quiet => keyring'.locked
          /\ Silent(Reply("error", {}, req[c].id)) /\ "error" \notin {"panic", "none"} /\ "error" # "success"
          /\ req' = req /\ under' = under /\ pc[c] # "idle"
      BY <1>1, <1>2, Zenon DEF Silent, Reply, AgentLocked
    <3> QED BY <2>1, <3>1, AgentReturn, Zenon
  <2>3. /\ pc' = [pc EXCEPT ![c] = "idle"] /\ sole' = sole \ {c} /\ quiet' \in BOOLEAN
        /\ out' = [d \in Callers |-> out'[d]]
    BY <1>1, <2>1, Zenon DEF Return, AgentShape
  <2>4. AgentShape'
    BY <1>1, <1>2, <2>1, <2>3, Zenon DEF AgentShape, NoRem
  <2>5. AgentRemoves'
    BY <1>1, <1>2, <2>3, Zenon DEF AgentRemoves, AgentShape, NoRem
  <2>6. AgentWire'
    BY <1>2, <1>4, <2>1, Zenon DEF AgentWire
  <2> QED BY <2>2, <2>4, <2>5, <2>6, Zenon DEF AgentInv
<1> QED BY <1>3, <1>4, Zenon

(* client.call has its reply, or the error of the connection, and gives     *)
(* client.mu back.                                                          *)
LEMMA AgentCallRead ==
  ASSUME AgentAssumption, AgentInv, NEW c \in Callers, CallRead(c) \/ CallReadError(c)
  PROVE  AgentInv'
<1>1. AgentShape /\ AgentRemoves /\ AgentWire /\ AgentLocked /\ OwnReply /\ LockedSilent
  BY Zenon DEF AgentInv
<1>2. /\ pc[c] = "read" /\ mu = c /\ mu' = None /\ UNCHANGED <<req, server, keyring, rem, under>>
      /\ c # None /\ req[c].op \in AgentOps
  BY <1>1, Zenon DEF CallRead, CallReadError, AgentShape, AgentAssumption
<1>3. \E typ, keys : /\ Return(c, typ, keys, req[c].id) /\ typ \notin {"panic", "none"}
                     /\ c \in sole /\ typ = "success" => keyring.locked
                     /\ c \in under => Silent(Reply(typ, keys, req[c].id))
  <2>1. CASE CallRead(c)
    <3> DEFINE m == Head(conn.fromAgent)
    <3>1. Return(c, Outcome(req[c].op, m.typ), m.keys, m.id) /\ Answers(c, m)
      BY <1>1, <1>2, <2>1, Zenon DEF CallRead, AgentWire
    <3> HIDE DEF m
    <3>2. /\ m.id = req[c].id /\ m.typ \in Expected(req[c].op)
          /\ (c \in sole /\ m.typ = "success" => keyring.locked) /\ (c \in under => Silent(m))
      BY <3>1, Zenon DEF Answers
    <3>3. m.typ \in {"success", "failure", "identities", "signature"}
      BY <1>2, <3>2, ExpectedTypes, Zenon DEF AgentOps
    <3>4. Outcome(req[c].op, m.typ) = m.typ \/ (Outcome(req[c].op, m.typ) = "failure")
      BY <3>2, Zenon DEF Outcome
    <3>5. c \in under => Silent(Reply(Outcome(req[c].op, m.typ), m.keys, req[c].id))
      BY <3>2, <3>4, Zenon DEF Silent, Reply
    <3> QED BY <3>1, <3>2, <3>3, <3>4, <3>5, Zenon
  <2>2. CASE CallReadError(c)
    BY <2>2, Zenon DEF CallReadError, Silent, Reply
  <2> QED BY <2>1, <2>2, Zenon
<1>4. PICK typ, keys : /\ Return(c, typ, keys, req[c].id) /\ typ \notin {"panic", "none"}
                       /\ c \in sole /\ typ = "success" => keyring.locked
                       /\ c \in under => Silent(Reply(typ, keys, req[c].id))
  BY <1>3, Zenon
<1>5. AgentLocked' /\ OwnReply' /\ LockedSilent'
  <2>1. quiet => keyring'.locked
    BY <1>1, <1>2, Zenon DEF AgentLocked
  <2> QED BY <1>2, <1>4, <2>1, AgentReturn, Zenon
<1>6. /\ pc' = [pc EXCEPT ![c] = "idle"] /\ sole' = sole \ {c} /\ quiet' \in BOOLEAN
      /\ out' = [d \in Callers |-> out'[d]]
  BY <1>1, <1>4, Zenon DEF Return, AgentShape
<1>7. /\ Channel(conn') /\ conn'.up = conn.up /\ conn'.toAgent = conn.toAgent /\ conn'.fromAgent = <<>>
      /\ conn.up => conn.toAgent = <<>>
  <2>1. CASE CallRead(c)
    <3>1. conn' = [conn EXCEPT !.fromAgent = Tail(@)] /\ conn.fromAgent # <<>>
      BY <2>1, Zenon DEF CallRead
    <3>2. conn.fromAgent = <<Head(conn.fromAgent)>> /\ (conn.up => conn.toAgent = <<>>)
      BY <1>1, <3>1, Zenon DEF AgentWire
    <3>3. Tail(conn.fromAgent) = <<>> /\ Channel(conn)
      BY <1>1, <3>2, Single, Zenon DEF AgentShape
    <3>4. conn' = [conn EXCEPT !.fromAgent = <<>>]
      BY <3>1, <3>3, Zenon
    <3>5. Channel(conn)
      BY <3>3, Zenon
    <3>6. Channel(conn') /\ conn'.up = conn.up /\ conn'.toAgent = conn.toAgent /\ conn'.fromAgent = <<>>
      BY <3>4, <3>5, ChannelFrom, Zenon
    <3> QED BY <3>2, <3>6, Zenon
  <2>2. CASE CallReadError(c)
    BY <1>1, <2>2, Zenon DEF CallReadError, AgentShape
  <2> QED BY <2>1, <2>2, Zenon
<1>8. AgentShape'
  <2>1. pc' \in [Callers -> {"idle", "lock", "read", "direct"}] /\ \A d \in Callers : pc'[d] = "read" <=> mu' = d
    BY <1>1, <1>2, <1>6, Zenon DEF AgentShape, AgentAssumption
  <2> QED BY <1>1, <1>2, <1>6, <1>7, <2>1, Zenon DEF AgentShape, NoRem
<1>9. AgentRemoves'
  BY <1>1, <1>2, <1>6, Zenon DEF AgentRemoves, AgentShape, NoRem
<1>10. AgentWire'
  <2>1. conn'.up => server # "remove"
    BY <1>1, <1>2, <1>7, Zenon DEF AgentWire
  <2> QED BY <1>2, <1>7, <2>1, Zenon DEF AgentWire
<1> QED BY <1>5, <1>8, <1>9, <1>10, Zenon DEF AgentInv

(* A call in the keyring's process, or the end of its Remove: it neither    *)
(* holds client.mu nor is on the connection.                                *)
LEMMA AgentLocalReturn ==
  ASSUME AgentAssumption, AgentInv, NEW c \in Callers, pc[c] = "direct",
         NEW typ, NEW keys, Return(c, typ, keys, req[c].id), typ \notin {"panic", "none"},
         UNCHANGED <<req, mu, conn, server, under>>, Ring(keyring'),
         rem' = NoRem, server # "remove",
         c \in sole /\ typ = "success" => keyring'.locked, quiet => keyring'.locked,
         c \in under => Silent(Reply(typ, keys, req[c].id)),
         sole # {} /\ keyring.locked => keyring'.locked
  PROVE  AgentInv'
<1>1. AgentShape /\ AgentWire
  BY Zenon DEF AgentInv
<1>2. AgentLocked' /\ OwnReply' /\ LockedSilent'
  <2>1. req' = req /\ under' = under /\ pc[c] # "idle"
    BY Zenon
  <2> QED BY <2>1, AgentReturn, Zenon
<1>3. /\ pc' = [pc EXCEPT ![c] = "idle"] /\ sole' = sole \ {c} /\ quiet' \in BOOLEAN
      /\ out' = [d \in Callers |-> out'[d]] /\ mu # c
  BY <1>1, Zenon DEF Return, AgentShape
<1>4. AgentShape'
  <2>1. /\ pc' \in [Callers -> {"idle", "lock", "read", "direct"}]
        /\ \A d \in Callers : (pc'[d] = "read" <=> mu' = d) /\ (pc'[d] # "idle" => pc[d] # "idle")
    BY <1>1, <1>3, Zenon DEF AgentShape
  <2>2. NoRem = [by |-> NoRem.by, key |-> NoRem.key, i |-> NoRem.i, found |-> NoRem.found] /\ NoRem.by = None
    BY Zenon DEF NoRem
  <2> QED BY <1>1, <1>3, <2>1, <2>2, Zenon DEF AgentShape
<1>5. AgentRemoves'
  BY <1>1, Zenon DEF AgentRemoves, NoRem, AgentAssumption
<1>6. AgentWire'
  <2>1. CASE mu = None
    BY <1>1, <2>1, Zenon DEF AgentWire
  <2>2. CASE mu # None
    <3>1. mu \in Callers
      BY <1>1, <2>2, Zenon DEF AgentShape
    <3>2. ASSUME NEW m, Answers(mu, m)
          PROVE  Answers(mu, m)'
      BY <1>3, <3>1, <3>2, AnswersKept, Zenon
    <3> QED BY <1>1, <2>2, <3>2, Zenon DEF AgentWire
  <2> QED BY <2>1, <2>2, Zenon
<1> QED BY <1>2, <1>4, <1>5, <1>6, Zenon DEF AgentInv

LEMMA AgentDirect ==
  ASSUME AgentAssumption, AgentInv, NEW c \in Callers, Direct(c)
  PROVE  AgentInv'
<1>1. AgentShape /\ AgentRemoves /\ AgentWire /\ AgentLocked /\ OwnReply /\ LockedSilent
  BY Zenon DEF AgentInv
<1>2. /\ pc[c] = "direct" /\ rem = NoRem /\ req[c].op \in AgentOps /\ Ring(keyring)
      /\ server # "remove" /\ c # None /\ UNCHANGED <<req, mu, conn, server, under>>
  <2>1. NoRem.by # "server"
    BY Zenon DEF NoRem, AgentAssumption
  <2> QED BY <1>1, <2>1, Zenon DEF Direct, AgentShape, AgentRemoves, AgentAssumption
<1>3. CASE req[c].op = "remove" /\ RemoveBegin(c, req[c]) /\ UNCHANGED <<pc, out, quiet, sole, keyring>>
  <2>1. /\ rem' = [by |-> c, key |-> Blob(req[c]), i |-> 1, found |-> FALSE] /\ ~keyring.locked
        /\ UNCHANGED <<pc, out, quiet, sole, keyring>> /\ req[c].op = "remove"
    BY <1>3, Zenon DEF RemoveBegin
  <2>2. rem' = [by |-> rem'.by, key |-> rem'.key, i |-> rem'.i, found |-> rem'.found] /\ rem'.by = c
    BY <2>1, Zenon
  <2>3. AgentShape'
    BY <1>1, <1>2, <2>1, <2>2, Zenon DEF AgentShape
  <2>4. AgentRemoves'
    <3>1. rem'.by # "server"
      BY <2>2, Zenon DEF AgentAssumption
    <3> QED BY <1>2, <2>1, <2>2, <3>1, Zenon DEF AgentRemoves
  <2>5. AgentWire' /\ AgentLocked' /\ OwnReply' /\ LockedSilent'
    BY <1>1, <1>2, <2>1, Zenon DEF AgentWire, Answers, Silent, Expected, AgentLocked, OwnReply, LockedSilent
  <2> QED BY <2>3, <2>4, <2>5, Zenon DEF AgentInv
<1>4. CASE req[c].op = "remove" /\ keyring.locked /\ Return(c, "failure", {}, req[c].id) /\ UNCHANGED <<rem, keyring>>
  <2>1. Silent(Reply("failure", {}, req[c].id)) /\ "failure" \notin {"panic", "none"} /\ "failure" # "success"
    BY Zenon DEF Silent, Reply
  <2>2. keyring' = keyring /\ rem' = NoRem /\ keyring.locked
    BY <1>2, <1>4, Zenon
  <2>3. Ring(keyring') /\ keyring'.locked
    BY <1>2, <2>2, Zenon
  <2> QED BY <1>2, <1>4, <2>1, <2>2, <2>3, AgentLocalReturn, Zenon
<1>5. CASE /\ req[c].op # "remove" /\ UNCHANGED rem
           /\ LET d == Do(req[c]) IN keyring' = d.ring /\ Return(c, d.typ, d.keys, req[c].id)
  <2> DEFINE d == Do(req[c])
  <2>1. keyring' = d.ring /\ Return(c, d.typ, d.keys, req[c].id) /\ rem' = NoRem
    BY <1>2, <1>5, Zenon
  <2>2. Tells(d, req[c])
    BY <1>1, <1>2, <1>5, DoTells, Zenon
  <2> HIDE DEF d
  <2>3. /\ Ring(keyring') /\ d.typ \notin {"panic", "none"}
        /\ keyring.locked /\ req[c].op # "unlock" => keyring'.locked /\ Silent(d)
        /\ req[c].op = "lock" /\ d.typ = "success" => keyring'.locked
    BY <2>1, <2>2, Zenon DEF Tells
  <2>4. /\ quiet \/ sole # {} => req[c].op # "unlock"
        /\ c \in sole => req[c].op = "lock"
        /\ quiet => keyring.locked
        /\ c \in under => quiet
    BY <1>1, <1>2, Zenon DEF AgentLocked
  <2>5. /\ c \in sole /\ d.typ = "success" => keyring'.locked
        /\ quiet => keyring'.locked
        /\ sole # {} /\ keyring.locked => keyring'.locked
    BY <2>3, <2>4, Zenon
  <2>6. c \in under => Silent(Reply(d.typ, d.keys, req[c].id))
    BY <2>3, <2>4, Zenon DEF Silent, Reply
  <2> QED BY <1>2, <2>1, <2>3, <2>5, <2>6, AgentLocalReturn, Zenon
<1> QED BY <1>3, <1>4, <1>5, Zenon DEF Direct

LEMMA AgentDirectRemoved ==
  ASSUME AgentAssumption, AgentInv, NEW c \in Callers, DirectRemoved(c)
  PROVE  AgentInv'
<1>1. AgentShape /\ AgentRemoves /\ AgentLocked
  BY Zenon DEF AgentInv
<1>2. /\ rem.by = c /\ rem # NoRem /\ rem' = NoRem /\ Return(c, RemoveResult, {}, req[c].id)
      /\ UNCHANGED <<req, mu, conn, server, keyring, under>>
  BY Zenon DEF DirectRemoved, RemoveOver
<1>3. /\ ~keyring.locked /\ pc[c] = "direct" /\ req[c].op = "remove" /\ server # "remove" /\ Ring(keyring)
      /\ RemoveResult \notin {"panic", "none"}
  BY <1>1, <1>2, Zenon DEF AgentRemoves, AgentShape, AgentAssumption, RemoveResult
<1>4. ~quiet /\ c \notin under /\ c \notin sole
  BY <1>1, <1>3, Zenon DEF AgentLocked
<1>5. keyring' = keyring /\ Ring(keyring')
  BY <1>2, <1>3, Zenon
<1> QED BY <1>2, <1>3, <1>4, <1>5, AgentLocalReturn, Zenon

(* The holder of the keyring's mutex goes on with Remove: no key is told.   *)
LEMMA AgentRemoveStep ==
  ASSUME AgentAssumption, AgentInv, RemoveStep
  PROVE  AgentInv'
<1>1. AgentShape /\ AgentRemoves /\ AgentWire /\ AgentLocked /\ OwnReply /\ LockedSilent
  BY Zenon DEF AgentInv
<1>2. rem # NoRem /\ UNCHANGED <<pc, req, out, mu, quiet, sole, under, conn, server>>
  BY Zenon DEF RemoveStep, callVars
<1>3. Ring(keyring') /\ keyring'.locked = keyring.locked
  <2>1. Ring(keyring)
    BY <1>1, Zenon DEF AgentShape
  <2>2. CASE keyring' = keyring
    BY <2>1, <2>2, Zenon
  <2>3. CASE keyring' # keyring
    <3>1. keyring' = [keyring EXCEPT !.keys = <<keyring.keys[Len(keyring.keys)]>>]
      BY <2>3, Zenon DEF RemoveStep
    <3> QED BY <2>1, <3>1, RingSet, Zenon
  <2> QED BY <2>2, <2>3, Zenon
<1>4. /\ rem'.by = rem.by /\ rem'.by # None
      /\ rem' = [by |-> rem'.by, key |-> rem'.key, i |-> rem'.i, found |-> rem'.found]
  <2>1. rem = [by |-> rem.by, key |-> rem.key, i |-> rem.i, found |-> rem.found] /\ rem.by # None
    BY <1>1, <1>2, Zenon DEF AgentShape
  <2>2. \/ rem' = [rem EXCEPT !.found = TRUE]
        \/ rem' = [rem EXCEPT !.i = rem.i + 1]
    BY Zenon DEF RemoveStep
  <2>3. PICK b, k, i, f : rem = [by |-> b, key |-> k, i |-> i, found |-> f]
    BY <2>1, Zenon
  <2>4. PICK x, y : rem' = [by |-> b, key |-> k, i |-> x, found |-> y]
    <3>1. CASE rem' = [rem EXCEPT !.found = TRUE]
      BY <2>3, <3>1, Zenon
    <3>2. CASE rem' = [rem EXCEPT !.i = rem.i + 1]
      BY <2>3, <3>2, Zenon
    <3> QED BY <2>2, <3>1, <3>2, Zenon
  <2>5. rem.by = b /\ rem'.by = b /\ rem'.key = k /\ rem'.i = x /\ rem'.found = y
    BY <2>3, <2>4, Zenon
  <2> QED BY <2>1, <2>4, <2>5, Zenon
<1>5. AgentShape'
  BY <1>1, <1>2, <1>3, <1>4, Zenon DEF AgentShape
<1>6. AgentRemoves'
  BY <1>1, <1>2, <1>3, <1>4, Zenon DEF AgentRemoves
<1>7. AgentWire' /\ AgentLocked' /\ OwnReply' /\ LockedSilent'
  BY <1>1, <1>2, <1>3, Zenon DEF AgentWire, Answers, Silent, Expected, AgentLocked, OwnReply, LockedSilent
<1> QED BY <1>5, <1>6, <1>7, Zenon DEF AgentInv

(* ServeAgent answers the request of the holder of client.mu.               *)
LEMMA AgentAnswered ==
  ASSUME AgentAssumption, AgentInv, mu \in Callers, conn.up, conn.toAgent = <<req[mu]>>, conn.fromAgent = <<>>,
         NEW typ, NEW keys, conn' = Write(typ, keys, req[mu].id), typ \in Expected(req[mu].op),
         UNCHANGED callVars, Ring(keyring'), server' = "read", rem' = NoRem,
         mu \in sole /\ typ = "success" => keyring'.locked, quiet => keyring'.locked,
         mu \in under => Silent(Reply(typ, keys, req[mu].id))
  PROVE  AgentInv'
<1>1. AgentShape /\ AgentLocked /\ OwnReply /\ LockedSilent
  BY Zenon DEF AgentInv
<1>2. UNCHANGED <<pc, req, out, mu, quiet, sole, under>>
  BY Zenon DEF callVars
<1>3. PICK m : m = Reply(typ, keys, req[mu].id) /\ m.typ = typ /\ m.keys = keys /\ m.id = req[mu].id
  BY DEF Reply
<1>4. Channel(conn') /\ conn'.up = conn.up /\ conn'.toAgent = <<>> /\ conn'.fromAgent = <<m>>
  <2>1. Channel(conn) /\ Tail(conn.toAgent) = <<>> /\ Append(conn.fromAgent, m) = <<m>>
    BY <1>1, Single, Zenon DEF AgentShape
  <2>2. conn' = [conn EXCEPT !.toAgent = Tail(conn.toAgent), !.fromAgent = Append(conn.fromAgent, m)]
    BY <1>3, Zenon DEF Write
  <2>3. conn' = [conn EXCEPT !.toAgent = <<>>, !.fromAgent = <<m>>]
    BY <2>1, <2>2, Zenon
  <2>4. Channel(conn)
    BY <2>1, Zenon
  <2> QED BY <2>3, <2>4, ChannelBoth, Zenon
<1>5. AgentShape'
  <2>1. NoRem = [by |-> NoRem.by, key |-> NoRem.key, i |-> NoRem.i, found |-> NoRem.found] /\ NoRem.by = None
    BY Zenon DEF NoRem
  <2> QED BY <1>1, <1>2, <1>4, <2>1, Zenon DEF AgentShape
<1>6. AgentRemoves'
  BY Zenon DEF AgentRemoves, NoRem, AgentAssumption
<1>7. AgentWire'
  <2>1. Head(<<m>>) = m
    BY Single, Zenon
  <2>2. Answers(mu, m)'
    BY <1>2, <1>3, Zenon DEF Answers, Silent, Reply, Expected
  <2>3. mu' # None
    BY <1>2, Zenon DEF AgentAssumption
  <2> QED BY <1>4, <2>1, <2>2, <2>3, Zenon DEF AgentWire
<1>8. AgentLocked' /\ OwnReply' /\ LockedSilent'
  BY <1>1, <1>2, Zenon DEF AgentLocked, OwnReply, LockedSilent
<1> QED BY <1>5, <1>6, <1>7, <1>8, Zenon DEF AgentInv

LEMMA AgentServe ==
  ASSUME AgentAssumption, AgentInv, Serve
  PROVE  AgentInv'
<1>1. AgentShape /\ AgentRemoves /\ AgentWire /\ AgentLocked /\ OwnReply /\ LockedSilent
  BY Zenon DEF AgentInv
<1>2. /\ server = "read" /\ rem = NoRem /\ conn.up /\ conn.toAgent # <<>> /\ UNCHANGED callVars
      /\ UNCHANGED <<pc, req, out, mu, quiet, sole, under>> /\ Ring(keyring)
  BY <1>1, Zenon DEF Serve, callVars, AgentShape
<1>3. conn.toAgent = <<req[mu]>> /\ conn.fromAgent = <<>> /\ mu \in Callers
  BY <1>1, <1>2, Zenon DEF AgentWire, AgentShape
<1>4. Head(conn.toAgent) = req[mu] /\ req[mu].op \in AgentOps
  <2>1. Head(conn.toAgent) = req[mu]
    BY <1>3, Single, Zenon
  <2> QED BY <1>1, <1>3, <2>1, Zenon DEF AgentShape
<1>5. /\ quiet \/ sole # {} => req[mu].op # "unlock"
      /\ mu \in sole => req[mu].op = "lock"
      /\ quiet => keyring.locked
      /\ mu \in under => quiet
  BY <1>1, <1>3, Zenon DEF AgentLocked, AgentShape
<1>6. CASE req[mu].op = "remove" /\ RemoveBegin("server", req[mu]) /\ server' = "remove" /\ UNCHANGED <<conn, keyring>>
  <2>1. /\ rem' = [by |-> "server", key |-> Blob(req[mu]), i |-> 1, found |-> FALSE] /\ ~keyring.locked
        /\ UNCHANGED <<conn, keyring>> /\ server' = "remove" /\ req[mu].op = "remove"
    BY <1>6, Zenon DEF RemoveBegin
  <2>2. /\ rem' = [by |-> rem'.by, key |-> rem'.key, i |-> rem'.i, found |-> rem'.found] /\ rem'.by = "server"
        /\ "server" # None /\ "server" \notin Callers
    BY <2>1, Zenon DEF AgentAssumption
  <2>3. AgentShape'
    BY <1>1, <1>2, <2>1, <2>2, Zenon DEF AgentShape
  <2>4. AgentRemoves'
    BY <1>2, <2>1, <2>2, Zenon DEF AgentRemoves
  <2>5. AgentWire'
    BY <1>1, <1>2, <2>1, Zenon DEF AgentWire, Answers, Silent, Expected
  <2>6. AgentLocked' /\ OwnReply' /\ LockedSilent'
    BY <1>1, <1>2, <2>1, Zenon DEF AgentLocked, OwnReply, LockedSilent
  <2> QED BY <2>3, <2>4, <2>5, <2>6, Zenon DEF AgentInv
<1>7. CASE /\ req[mu].op = "remove" /\ keyring.locked /\ conn' = Write("failure", {}, req[mu].id)
           /\ UNCHANGED <<server, keyring, rem>>
  <2>1. /\ Silent(Reply("failure", {}, req[mu].id)) /\ "failure" # "success" /\ "failure" \in Expected(req[mu].op)
        /\ keyring' = keyring /\ server' = "read" /\ rem' = NoRem /\ keyring.locked
    BY <1>2, <1>7, ExpectedTypes, Zenon DEF Silent, Reply
  <2>2. Ring(keyring') /\ keyring'.locked
    BY <1>2, <2>1, Zenon
  <2> QED BY <1>2, <1>3, <1>7, <2>1, <2>2, AgentAnswered, Zenon
<1>8. CASE /\ req[mu].op # "remove" /\ UNCHANGED rem
           /\ LET d == processRequest(req[mu]) IN
                /\ keyring' = d.ring
                /\ IF req[mu].op = "list" /\ ~keyring.locked /\ Len(keyring.keys) > MaxReply
                     THEN server' = "done" /\ UNCHANGED conn
                     ELSE conn' = Write(d.typ, d.keys, req[mu].id) /\ UNCHANGED server
  <2> DEFINE d == processRequest(req[mu])
  <2>1. /\ keyring' = d.ring /\ rem' = NoRem
        /\ \/ server' = "done" /\ conn' = conn
           \/ conn' = Write(d.typ, d.keys, req[mu].id) /\ server' = "read"
    BY <1>2, <1>8, Zenon
  <2>2. Tells(d, req[mu])
    BY <1>1, <1>4, <1>8, DoTells, Zenon
  <2> HIDE DEF d
  <2>3. /\ Ring(keyring') /\ d.typ \in Expected(req[mu].op)
        /\ keyring.locked /\ req[mu].op # "unlock" => keyring'.locked /\ Silent(d)
        /\ req[mu].op = "lock" /\ d.typ = "success" => keyring'.locked
    BY <2>1, <2>2, Zenon DEF Tells
  <2>4. /\ mu \in sole /\ d.typ = "success" => keyring'.locked
        /\ quiet => keyring'.locked
    BY <1>5, <2>3, Zenon
  <2>5. mu \in under => Silent(Reply(d.typ, d.keys, req[mu].id))
    BY <1>5, <2>3, Zenon DEF Silent, Reply
  <2>6. CASE server' = "done" /\ conn' = conn
    <3>1. AgentShape'
      BY <1>1, <1>2, <2>1, <2>3, <2>6, Zenon DEF AgentShape
    <3>2. AgentRemoves'
      BY <1>2, <2>1, <2>6, Zenon DEF AgentRemoves, NoRem, AgentAssumption
    <3>3. AgentWire'
      BY <1>2, <1>3, <2>6, Zenon DEF AgentWire, AgentAssumption
    <3>4. AgentLocked' /\ OwnReply' /\ LockedSilent'
      BY <1>1, <1>2, <2>4, Zenon DEF AgentLocked, OwnReply, LockedSilent
    <3> QED BY <3>1, <3>2, <3>3, <3>4, Zenon DEF AgentInv
  <2>7. CASE conn' = Write(d.typ, d.keys, req[mu].id) /\ server' = "read"
    BY <1>2, <1>3, <2>1, <2>3, <2>4, <2>5, <2>7, AgentAnswered, Zenon
  <2> QED BY <2>1, <2>6, <2>7, Zenon
<1> QED BY <1>4, <1>6, <1>7, <1>8, Zenon DEF Serve

LEMMA AgentServeRemoved ==
  ASSUME AgentAssumption, AgentInv, ServeRemoved
  PROVE  AgentInv'
<1>1. AgentShape /\ AgentRemoves /\ AgentWire /\ AgentLocked /\ OwnReply /\ LockedSilent
  BY Zenon DEF AgentInv
<1>2. /\ server = "remove" /\ rem # NoRem /\ rem' = NoRem /\ UNCHANGED callVars /\ keyring' = keyring
      /\ UNCHANGED <<pc, req, out, mu, quiet, sole, under>> /\ Ring(keyring') /\ ~keyring.locked /\ ~quiet
  <2>1. server = "remove" /\ rem # NoRem /\ rem' = NoRem /\ UNCHANGED callVars /\ keyring' = keyring
    BY Zenon DEF ServeRemoved, RemoveOver
  <2> QED BY <1>1, <2>1, Zenon DEF callVars, AgentShape, AgentRemoves, AgentLocked
<1>3. CASE conn.up
  <2>1. conn.toAgent = <<req[mu]>> /\ conn.fromAgent = <<>> /\ mu \in Callers /\ req[mu].op = "remove"
    BY <1>1, <1>2, <1>3, Zenon DEF AgentWire, AgentShape
  <2>2. Head(conn.toAgent) = req[mu]
    BY <2>1, Single, Zenon
  <2>3. conn' = Write(RemoveResult, {}, req[mu].id) /\ server' = "read"
    BY <1>3, <2>2, Zenon DEF ServeRemoved
  <2>4. /\ RemoveResult \in Expected(req[mu].op) /\ mu \notin sole /\ mu \notin under
    BY <1>1, <1>2, <2>1, ExpectedTypes, Zenon DEF RemoveResult, AgentLocked
  <2> QED BY <1>2, <1>3, <2>1, <2>3, <2>4, AgentAnswered, Zenon
<1>4. CASE ~conn.up
  <2>1. server' = "done" /\ conn' = conn
    BY <1>4, Zenon DEF ServeRemoved
  <2>2. AgentShape'
    <3>1. NoRem = [by |-> NoRem.by, key |-> NoRem.key, i |-> NoRem.i, found |-> NoRem.found] /\ NoRem.by = None
      BY Zenon DEF NoRem
    <3> QED BY <1>1, <1>2, <2>1, <3>1, Zenon DEF AgentShape
  <2>3. AgentRemoves'
    BY <1>2, <2>1, Zenon DEF AgentRemoves, NoRem, AgentAssumption
  <2>4. AgentWire'
    BY <1>1, <1>2, <1>4, <2>1, Zenon DEF AgentWire, Answers, Silent, Expected
  <2>5. AgentLocked' /\ OwnReply' /\ LockedSilent'
    BY <1>1, <1>2, Zenon DEF AgentLocked, OwnReply, LockedSilent
  <2> QED BY <2>2, <2>3, <2>4, <2>5, Zenon DEF AgentInv
<1> QED BY <1>3, <1>4, Zenon

(* The connection ends, by the server, by the network, or nothing happens.  *)
LEMMA AgentEnds ==
  ASSUME AgentAssumption, AgentInv, ServeError \/ CloseChannel \/ Break \/ UNCHANGED vars
  PROVE  AgentInv'
<1>1. AgentShape /\ AgentRemoves /\ AgentWire /\ AgentLocked /\ OwnReply /\ LockedSilent
  BY Zenon DEF AgentInv
<1>2. UNCHANGED <<pc, req, out, mu, quiet, sole, under, keyring, rem>>
  BY Zenon DEF ServeError, CloseChannel, Break, vars, callVars
<1>3. server' = server \/ (server = "read" /\ server' = "done" /\ ~conn.up /\ conn' = conn)
  BY Zenon DEF ServeError, CloseChannel, Break, vars
<1>4. /\ Channel(conn') /\ (conn'.up => conn' = conn)
      /\ conn'.fromAgent = <<>> \/ conn'.fromAgent = conn.fromAgent
  <2>1. Channel(conn)
    BY <1>1, Zenon DEF AgentShape
  <2>2. CASE conn' = conn
    BY <2>1, <2>2, Zenon
  <2>3. CASE conn' = [conn EXCEPT !.up = FALSE]
    BY <2>1, <2>3, ChannelDown, Zenon
  <2>4. CASE \E n \in 0..Len(conn.fromAgent) : conn' = [conn EXCEPT !.up = FALSE, !.fromAgent = SubSeq(@, 1, n)]
    <3>1. PICK n \in 0..Len(conn.fromAgent) : conn' = [conn EXCEPT !.up = FALSE, !.fromAgent = SubSeq(conn.fromAgent, 1, n)]
      BY <2>4, Zenon
    <3>2. SubSeq(conn.fromAgent, 1, n) \in {<<>>, conn.fromAgent}
      <4>1. CASE conn.fromAgent = <<>>
        BY <4>1
      <4>2. CASE conn.fromAgent # <<>>
        <5>1. PICK m : conn.fromAgent = <<m>>
          BY <1>1, <4>2, Zenon DEF AgentWire
        <5>2. n = 0 \/ n = 1
          BY <5>1
        <5> QED BY <5>1, <5>2, SubSingle, Zenon
      <4> QED BY <4>1, <4>2, Zenon
    <3>3. Channel(conn') /\ ~conn'.up /\ conn'.fromAgent = SubSeq(conn.fromAgent, 1, n)
      BY <2>1, <3>1, ChannelCut, Zenon
    <3> QED BY <3>2, <3>3, Zenon
  <2> QED BY <2>2, <2>3, <2>4, Zenon DEF ServeError, CloseChannel, Break, vars
<1>5. AgentShape'
  BY <1>1, <1>2, <1>3, <1>4, Zenon DEF AgentShape
<1>6. AgentRemoves'
  BY <1>1, <1>2, <1>3, Zenon DEF AgentRemoves
<1>7. AgentWire'
  <2>1. ASSUME NEW m
        PROVE  Answers(mu, m)' <=> Answers(mu, m)
    BY <1>2, Zenon DEF Answers, Silent, Expected
  <2> QED BY <1>1, <1>2, <1>3, <1>4, <2>1, Zenon DEF AgentWire
<1>8. AgentLocked' /\ OwnReply' /\ LockedSilent'
  BY <1>1, <1>2, Zenon DEF AgentLocked, OwnReply, LockedSilent
<1> QED BY <1>5, <1>6, <1>7, <1>8, Zenon DEF AgentInv

LEMMA AgentInvariant ==
  ASSUME AgentAssumption
  PROVE  Spec => []AgentInv
<1>1. Init => AgentInv
  BY AgentInitInv, Zenon
<1>2. AgentInv /\ [Next]_vars => AgentInv'
  BY Zenon, AgentBegin, AgentCallWrite, AgentCallRead, AgentDirect, AgentDirectRemoved, AgentRemoveStep, AgentServe,
     AgentServeRemoved, AgentEnds DEF Next, CallStep, AgentStep
<1> QED BY <1>1, <1>2, PTL DEF Spec

(* client.go and keyring.go of package agent: whichever callers share the   *)
(* connection and wherever it breaks, a call returns the reply to its own   *)
(* request, List and Sign never meet a reply they panic at, and from the    *)
(* return of a Lock to the next Unlock no call that begins learns a key.    *)
THEOREM AgentFaithful ==
  ASSUME AgentAssumption
  PROVE  Spec => [](OwnReply /\ LockedSilent)
<1>1. AgentInv => OwnReply /\ LockedSilent
  BY Zenon DEF AgentInv
<1> QED BY <1>1, AgentInvariant, PTL

-----------------------------------------------------------------------------
(* The SFTP client (SftpClient.tla).                                        *)

CONSTANTS SftpCallers, Ops, MaxReq
VARIABLES nextid, op, inflight, sendMu, goroutine, caller, asked, replies, stream, outcome

Sftp == INSTANCE SftpClient WITH Callers <- SftpCallers, mu <- sendMu, conn <- stream


(* A reply that says what the server did.                                   *)
SftpReply == [id : 0..MaxReq, typ : {"none", "error", "HANDLE", "ATTRS", "NAME", "DATA", "EXTENDED_REPLY", "STATUS"},
          code : {"none", "error", "OK", "FAILURE"}]
ReplyOf(i, ok) == [id |-> i, typ |-> IF ok THEN Sftp!SuccessType(op[i]) ELSE "STATUS", code |-> IF ok THEN "OK" ELSE "FAILURE"]
Did(ok) == IF ok THEN "yes" ELSE "no"
Sent(i) == goroutine[i].pc \notin {"none", "send"}
Answered(i) == i \in Sftp!Ids /\ Sent(i) /\ i \notin asked
Truthful(r) == Answered(r.id) /\ \E ok \in BOOLEAN : r = ReplyOf(r.id, ok) /\ outcome[r.id].did = Did(ok)

Gives(i, r) == i \in Sftp!Ids /\ Sent(i) /\ (r = Sftp!Failed \/ (Truthful(r) /\ r.id = i))

SftpShape ==
  /\ nextid \in 0..MaxReq /\ op \in [Sftp!Ids -> Sftp!Operations \cup {"none"}]
  /\ inflight \subseteq Sftp!Ids /\ asked \subseteq inflight /\ stream \in {"up", "lost"}
  /\ goroutine \in [Sftp!Ids -> [pc : {"none", "send", "lock", "recv", "give", "end"}, to : 0..MaxReq, reply : SftpReply]]
  /\ replies \in Seq(SftpReply)
  /\ outcome \in [Sftp!Ids -> [did : {"none", "yes", "no"}, told : {"none", "error", "nil", "STATUS", "FAILURE"}]]

(* Requests are numbered as they are made, and registered when they are sent. *)
SftpRequests ==
  /\ \A i \in Sftp!Ids : (goroutine[i].pc = "none" <=> i > nextid) /\ (i <= nextid => op[i] \in Sftp!Operations)
  /\ \A i \in inflight : Sent(i)

(* Every request that was sent is answered once, and nobody else's reply is *)
(* ever handed over.                                                        *)
SftpReplies ==
  /\ \A k \in DOMAIN replies : Truthful(replies[k]) /\ replies[k].id \in inflight
  /\ \A j, k \in DOMAIN replies : replies[j].id = replies[k].id => j = k
  /\ \A i \in Sftp!Ids : goroutine[i].pc = "give" => Gives(goroutine[i].to, goroutine[i].reply)
  /\ stream = "up" => \A i \in inflight : i \in asked \/ \E k \in DOMAIN replies : replies[k].id = i

SftpTold ==
  \A i \in Sftp!Ids : outcome[i].told \notin {"none", "error"} =>
    /\ Answered(i)
    /\ (outcome[i].told = "nil") <=> (outcome[i].did = "yes")

SftpInv == SftpShape /\ SftpRequests /\ SftpReplies /\ SftpTold

-----------------------------------------------------------------------------
(* What every operation makes of the reply to its request: success exactly  *)
(* when the server says so.                                                 *)
LEMMA ExpectReply ==
  ASSUME NEW i, NEW ok \in BOOLEAN, NEW typ \in {"HANDLE", "ATTRS", "NAME", "DATA"}
  PROVE  Sftp!expect(typ, i, [id |-> i, typ |-> IF ok THEN typ ELSE "STATUS", code |-> IF ok THEN "OK" ELSE "FAILURE"])
         = IF ok THEN "nil" ELSE "FAILURE"
BY Zenon DEF Sftp!expect, Sftp!checkId, Sftp!unmarshalStatus

LEMMA StatusReply ==
  ASSUME NEW i, NEW ok \in BOOLEAN
  PROVE  Sftp!expectStatus(i, [id |-> i, typ |-> "STATUS", code |-> IF ok THEN "OK" ELSE "FAILURE"])
         = IF ok THEN "nil" ELSE "FAILURE"
BY Zenon DEF Sftp!expectStatus, Sftp!okOrErr, Sftp!checkId, Sftp!unmarshalStatus

LEMMA ResultOfReply ==
  ASSUME NEW i \in Sftp!Ids, NEW ok \in BOOLEAN, op[i] \in Sftp!Operations
  PROVE  Sftp!result(op[i], i, ReplyOf(i, ok)) = IF ok THEN "nil" ELSE IF op[i] = "StatVFS" THEN "STATUS" ELSE "FAILURE"
<1> DEFINE r == ReplyOf(i, ok)
           Was(typ) == [id |-> i, typ |-> IF ok THEN typ ELSE "STATUS", code |-> IF ok THEN "OK" ELSE "FAILURE"]
<1>1. CASE op[i] = "open"
  <2>1. r = Was("HANDLE") /\ Sftp!result(op[i], i, r) = Sftp!open(i, r)
    BY <1>1, Zenon DEF ReplyOf, Sftp!SuccessType, Sftp!result
  <2> QED BY <1>1, <2>1, ExpectReply, ZenonT(40) DEF Sftp!open
<1>2. CASE op[i] = "opendir"
  <2>1. r = Was("HANDLE") /\ Sftp!result(op[i], i, r) = Sftp!opendir(i, r)
    BY <1>2, Zenon DEF ReplyOf, Sftp!SuccessType, Sftp!result
  <2> QED BY <1>2, <2>1, ExpectReply, ZenonT(40) DEF Sftp!opendir
<1>3. CASE op[i] = "Lstat"
  <2>1. r = Was("ATTRS") /\ Sftp!result(op[i], i, r) = Sftp!Lstat(i, r)
    BY <1>3, Zenon DEF ReplyOf, Sftp!SuccessType, Sftp!result
  <2> QED BY <1>3, <2>1, ExpectReply, ZenonT(40) DEF Sftp!Lstat
<1>4. CASE op[i] = "fstat"
  <2>1. r = Was("ATTRS") /\ Sftp!result(op[i], i, r) = Sftp!fstat(i, r)
    BY <1>4, Zenon DEF ReplyOf, Sftp!SuccessType, Sftp!result
  <2> QED BY <1>4, <2>1, ExpectReply, ZenonT(40) DEF Sftp!fstat
<1>5. CASE op[i] = "ReadLink"
  <2>1. r = Was("NAME") /\ Sftp!result(op[i], i, r) = Sftp!ReadLink(i, r)
    BY <1>5, Zenon DEF ReplyOf, Sftp!SuccessType, Sftp!result
  <2> QED BY <1>5, <2>1, ExpectReply, ZenonT(40) DEF Sftp!ReadLink
<1>6. CASE op[i] = "readAt"
  <2>1. r = Was("DATA") /\ Sftp!result(op[i], i, r) = Sftp!readAt(i, r)
    BY <1>6, Zenon DEF ReplyOf, Sftp!SuccessType, Sftp!result
  <2> QED BY <1>6, <2>1, ExpectReply, ZenonT(40) DEF Sftp!readAt, Sftp!eofOrErr
<1>7. CASE op[i] = "writeAt"
  <2>1. r = Was("STATUS") /\ Sftp!result(op[i], i, r) = Sftp!writeAt(i, r)
    BY <1>7, Zenon DEF ReplyOf, Sftp!SuccessType, Sftp!result
  <2> QED BY <1>7, <2>1, StatusReply, Zenon DEF Sftp!writeAt
<1>8. CASE op[i] = "close"
  <2>1. r = Was("STATUS") /\ Sftp!result(op[i], i, r) = Sftp!close(i, r)
    BY <1>8, Zenon DEF ReplyOf, Sftp!SuccessType, Sftp!result
  <2> QED BY <1>8, <2>1, StatusReply, Zenon DEF Sftp!close
<1>9. CASE op[i] = "setstat"
  <2>1. r = Was("STATUS") /\ Sftp!result(op[i], i, r) = Sftp!setstat(i, r)
    BY <1>9, Zenon DEF ReplyOf, Sftp!SuccessType, Sftp!result
  <2> QED BY <1>9, <2>1, StatusReply, Zenon DEF Sftp!setstat
<1>10. CASE op[i] = "removeFile"
  <2>1. r = Was("STATUS") /\ Sftp!result(op[i], i, r) = Sftp!removeFile(i, r)
    BY <1>10, Zenon DEF ReplyOf, Sftp!SuccessType, Sftp!result
  <2> QED BY <1>10, <2>1, StatusReply, Zenon DEF Sftp!removeFile
<1>11. CASE op[i] = "removeDirectory"
  <2>1. r = Was("STATUS") /\ Sftp!result(op[i], i, r) = Sftp!removeDirectory(i, r)
    BY <1>11, Zenon DEF ReplyOf, Sftp!SuccessType, Sftp!result
  <2> QED BY <1>11, <2>1, StatusReply, Zenon DEF Sftp!removeDirectory
<1>12. CASE op[i] = "Rename"
  <2>1. r = Was("STATUS") /\ Sftp!result(op[i], i, r) = Sftp!Rename(i, r)
    BY <1>12, Zenon DEF ReplyOf, Sftp!SuccessType, Sftp!result
  <2> QED BY <1>12, <2>1, StatusReply, Zenon DEF Sftp!Rename
<1>13. CASE op[i] = "Mkdir"
  <2>1. r = Was("STATUS") /\ Sftp!result(op[i], i, r) = Sftp!Mkdir(i, r)
    BY <1>13, Zenon DEF ReplyOf, Sftp!SuccessType, Sftp!result
  <2> QED BY <1>13, <2>1, StatusReply, Zenon DEF Sftp!Mkdir
<1>14. CASE op[i] = "StatVFS"
  <2>1. r = Was("EXTENDED_REPLY") /\ Sftp!result(op[i], i, r) = Sftp!StatVFS(i, r)
    BY <1>14, Zenon DEF ReplyOf, Sftp!SuccessType, Sftp!result
  <2> QED BY <1>14, <2>1 DEF Sftp!StatVFS
<1> QED BY <1>1, <1>2, <1>3, <1>4, <1>5, <1>6, <1>7, <1>8, <1>9, <1>10, <1>11, <1>12, <1>13, <1>14, Zenon DEF Sftp!Operations

LEMMA SftpConstants ==
  ASSUME Sftp!SftpAssumption
  PROVE  MaxReq \in Nat /\ Ops \subseteq Sftp!Operations
BY Zenon DEF Sftp!SftpAssumption

LEMMA SftpInitInv ==
  ASSUME Sftp!SftpAssumption, Sftp!Init
  PROVE  SftpInv
<1>1. SftpShape
  <2>1. Sftp!NoReply \in SftpReply
    BY SftpConstants DEF Sftp!NoReply, SftpReply
  <2>2. goroutine \in [Sftp!Ids -> [pc : {"none", "send", "lock", "recv", "give", "end"}, to : 0..MaxReq, reply : SftpReply]]
    BY <2>1, SftpConstants DEF Sftp!Init
  <2> QED BY <2>2, SftpConstants DEF Sftp!Init, SftpShape
<1>2. /\ \A i \in Sftp!Ids : goroutine[i].pc = "none" /\ outcome[i].told = "none" /\ i > nextid
      /\ replies = <<>> /\ inflight = {} /\ nextid = 0
  <2>1. ASSUME NEW i \in Sftp!Ids
        PROVE  goroutine[i].pc = "none" /\ outcome[i].told = "none"
    <3>1. goroutine[i] = [pc |-> "none", to |-> 0, reply |-> Sftp!NoReply] /\ outcome[i] = [did |-> "none", told |-> "none"]
      BY <2>1, Zenon DEF Sftp!Init
    <3> QED BY <3>1
  <2> QED BY <2>1, SftpConstants DEF Sftp!Init, Sftp!Ids
<1> QED BY <1>1, <1>2 DEF SftpInv, SftpRequests, SftpReplies, SftpTold, Sftp!Ids

(* A reply stays true while the request keeps what the server did.          *)
LEMMA TruthfulKept ==
  ASSUME NEW r, Truthful(r), op'[r.id] = op[r.id], outcome'[r.id].did = outcome[r.id].did,
         r.id \notin asked', Sent(r.id)'
  PROVE  Truthful(r)'
<1>1. PICK ok \in BOOLEAN : r = ReplyOf(r.id, ok) /\ outcome[r.id].did = Did(ok)
  BY Zenon DEF Truthful
<1>2. ReplyOf(r.id, ok)' = ReplyOf(r.id, ok)
  BY Zenon DEF ReplyOf
<1> QED BY <1>1, <1>2, Zenon DEF Truthful, Answered, Sftp!Ids, Did

(* An operation takes the next request number and starts its goroutine.     *)
LEMMA SftpCall ==
  ASSUME Sftp!SftpAssumption, SftpInv, NEW c \in SftpCallers, NEW o \in Ops, Sftp!Call(c, o)
  PROVE  SftpInv'
<1> DEFINE n == nextid + 1
<1>1. /\ n \in Sftp!Ids /\ nextid \in Nat /\ o \in Sftp!Operations /\ SftpShape /\ MaxReq \in Nat
      /\ nextid' = n /\ op' = [op EXCEPT ![n] = o] /\ goroutine' = [goroutine EXCEPT ![n].pc = "send"]
      /\ UNCHANGED <<inflight, asked, replies, stream, outcome>>
  BY SftpConstants DEF Sftp!Call, SftpInv, SftpShape, Sftp!Ids
<1>2. goroutine[n].pc = "none" /\ ~Sent(n)
  BY <1>1 DEF SftpInv, SftpRequests, Sent, Sftp!Ids
<1>3. /\ goroutine'[n].pc = "send" /\ \A i \in Sftp!Ids : i # n => goroutine'[i] = goroutine[i] /\ op'[i] = op[i]
      /\ op'[n] = o
  BY <1>1 DEF SftpShape
<1> HIDE DEF n
<1>4. SftpShape'
  <2>1. op' \in [Sftp!Ids -> Sftp!Operations \cup {"none"}] /\ nextid' \in 0..MaxReq
    BY <1>1 DEF SftpShape, Sftp!Ids, n
  <2>2. goroutine' \in [Sftp!Ids -> [pc : {"none", "send", "lock", "recv", "give", "end"}, to : 0..MaxReq, reply : SftpReply]]
    BY <1>1, ZenonT(40) DEF SftpShape
  <2> QED BY <1>1, <2>1, <2>2, Zenon DEF SftpShape
<1>5. SftpRequests'
  <2>1. \A i \in Sftp!Ids : (goroutine'[i].pc = "none" <=> i > nextid') /\ (i <= nextid' => op'[i] \in Sftp!Operations)
    BY <1>1, <1>3 DEF SftpInv, SftpRequests, Sftp!Ids, n
  <2> QED BY <1>1, <1>2, <1>3, <2>1, Zenon DEF SftpInv, SftpShape, SftpRequests, Sent
<1>6. \A i \in Sftp!Ids : Sent(i) => i # n /\ Sent(i)'
  BY <1>2, <1>3, Zenon DEF Sent
<1>7. ASSUME NEW r, Truthful(r)
      PROVE  Truthful(r)'
  <2>1. r.id \in Sftp!Ids /\ Sent(r.id) /\ r.id \notin asked
    BY <1>7, Zenon DEF Truthful, Answered
  <2> QED BY <1>1, <1>3, <1>6, <1>7, <2>1, TruthfulKept, Zenon
<1>8. SftpReplies'
  <2>1. ASSUME NEW i \in Sftp!Ids, goroutine'[i].pc = "give"
        PROVE  Gives(goroutine[i].to, goroutine[i].reply)'
    <3>1. goroutine'[i] = goroutine[i]
      BY <1>3, <2>1, Zenon
    <3>2. Gives(goroutine[i].to, goroutine[i].reply)
      BY <2>1, <3>1, Zenon DEF SftpInv, SftpReplies
    <3> QED BY <1>6, <1>7, <3>1, <3>2, Zenon DEF Gives
  <2> QED BY <1>1, <1>7, <2>1, Zenon DEF SftpInv, SftpReplies
<1>9. SftpTold'
  BY <1>1, <1>6, Zenon DEF SftpInv, SftpTold, Answered
<1> QED BY <1>4, <1>5, <1>8, <1>9, Zenon DEF SftpInv

(* A step of the goroutine of a request, after which it holds g.            *)
LEMMA GoroutineKept ==
  ASSUME SftpInv, NEW i \in Sftp!Ids, goroutine[i].pc # "none", UNCHANGED <<nextid, op, outcome, stream>>,
         NEW g \in [pc : {"lock", "recv", "give", "end"}, to : 0..MaxReq, reply : SftpReply],
         goroutine' = [goroutine EXCEPT ![i] = g], asked' \subseteq asked \cup {i} , asked' = asked \/ ~Sent(i)
  PROVE  /\ goroutine'[i] = g /\ Sent(i)' /\ \A j \in Sftp!Ids : j # i => goroutine'[j] = goroutine[j]
         /\ \A j \in Sftp!Ids : Sent(j) => Sent(j)'
         /\ goroutine' \in [Sftp!Ids -> [pc : {"none", "send", "lock", "recv", "give", "end"}, to : 0..MaxReq, reply : SftpReply]]
         /\ SftpTold' /\ \A r \in SftpReply : Truthful(r) => Truthful(r)'
         /\ (\A j \in Sftp!Ids : (goroutine[j].pc = "none" <=> j > nextid) /\ (j <= nextid => op[j] \in Sftp!Operations))'
<1>1. SftpShape /\ SftpRequests /\ SftpTold
  BY Zenon DEF SftpInv
<1>2. /\ goroutine'[i] = g /\ \A j \in Sftp!Ids : j # i => goroutine'[j] = goroutine[j]
      /\ goroutine' \in [Sftp!Ids -> [pc : {"none", "send", "lock", "recv", "give", "end"}, to : 0..MaxReq, reply : SftpReply]]
  BY <1>1, Zenon DEF SftpShape
<1>3. Sent(i)' /\ \A j \in Sftp!Ids : Sent(j) => Sent(j)'
  BY <1>2, Zenon DEF Sent
<1>4. \A j \in Sftp!Ids : Answered(j) => Answered(j)'
  BY <1>3, Zenon DEF Answered
<1>5. ASSUME NEW r \in SftpReply, Truthful(r)
      PROVE  Truthful(r)'
  <2>1. Answered(r.id) /\ Answered(r.id)'
    BY <1>4, <1>5, Zenon DEF Truthful, Answered
  <2> QED BY <1>5, <2>1, TruthfulKept, Zenon DEF Answered
<1>6. SftpTold'
  BY <1>1, <1>4, Zenon DEF SftpTold
<1>7. (\A j \in Sftp!Ids : (goroutine[j].pc = "none" <=> j > nextid) /\ (j <= nextid => op[j] \in Sftp!Operations))'
  BY <1>1, <1>2, Zenon DEF SftpRequests
<1> QED BY <1>2, <1>3, <1>5, <1>6, <1>7, Zenon

(* What the other goroutines have to hand over stays as it is.              *)
LEMMA GivesKept ==
  ASSUME SftpInv, NEW i \in Sftp!Ids, \A j \in Sftp!Ids : j # i => goroutine'[j] = goroutine[j],
         \A j \in Sftp!Ids : Sent(j) => Sent(j)', \A r \in SftpReply : Truthful(r) => Truthful(r)',
         goroutine'[i].pc = "give" => Gives(goroutine[i].to, goroutine[i].reply)'
  PROVE  (\A j \in Sftp!Ids : goroutine[j].pc = "give" => Gives(goroutine[j].to, goroutine[j].reply))'
<1> SUFFICES ASSUME NEW j \in Sftp!Ids, j # i, goroutine'[j].pc = "give"
             PROVE  Gives(goroutine[j].to, goroutine[j].reply)'
  BY Zenon
<1>1. goroutine'[j] = goroutine[j] /\ goroutine[j].reply \in SftpReply
  BY Zenon DEF SftpInv, SftpShape
<1>2. Gives(goroutine[j].to, goroutine[j].reply)
  BY <1>1, Zenon DEF SftpInv, SftpReplies
<1> QED BY <1>1, <1>2, Zenon DEF Gives

LEMMA SftpSend ==
  ASSUME Sftp!SftpAssumption, SftpInv, NEW i \in Sftp!Ids, Sftp!SendPacket(i)
  PROVE  SftpInv'
<1>1. /\ goroutine[i].pc = "send" /\ inflight' = inflight \cup {i} /\ SftpShape /\ i \in 0..MaxReq /\ MaxReq \in Nat
      /\ UNCHANGED <<nextid, op, replies, stream, outcome>>
  BY SftpConstants DEF Sftp!SendPacket, SftpInv, Sftp!Ids
<1> DEFINE g == IF stream = "lost" THEN [pc |-> "give", to |-> i, reply |-> Sftp!Failed]
                ELSE [pc |-> "lock", to |-> goroutine[i].to, reply |-> goroutine[i].reply]
<1>2. /\ goroutine' = [goroutine EXCEPT ![i] = g] /\ asked' = IF stream = "lost" THEN asked ELSE asked \cup {i}
      /\ g \in [pc : {"lock", "recv", "give", "end"}, to : 0..MaxReq, reply : SftpReply]
  <2>1. Sftp!Failed \in SftpReply
    BY <1>1 DEF Sftp!Failed, SftpReply
  <2>2. goroutine[i] \in [pc : {"none", "send", "lock", "recv", "give", "end"}, to : 0..MaxReq, reply : SftpReply]
    BY <1>1, Zenon DEF SftpShape
  <2>3. CASE stream = "lost"
    BY <1>1, <2>1, <2>3, Zenon DEF Sftp!SendPacket, Sftp!give
  <2>4. CASE stream # "lost"
    BY <1>1, <2>2, <2>4 DEF Sftp!SendPacket, SftpShape
  <2> QED BY <2>3, <2>4, Zenon
<1>3. ~Sent(i) /\ i \notin inflight /\ (g.pc = "give" => stream = "lost" /\ g.to = i /\ g.reply = Sftp!Failed)
  BY <1>1, Zenon DEF Sent, SftpInv, SftpRequests
<1> HIDE DEF g
<1>4. /\ goroutine'[i] = g /\ Sent(i)' /\ \A j \in Sftp!Ids : j # i => goroutine'[j] = goroutine[j]
      /\ \A j \in Sftp!Ids : Sent(j) => Sent(j)'
      /\ goroutine' \in [Sftp!Ids -> [pc : {"none", "send", "lock", "recv", "give", "end"}, to : 0..MaxReq, reply : SftpReply]]
      /\ SftpTold' /\ \A r \in SftpReply : Truthful(r) => Truthful(r)'
      /\ (\A j \in Sftp!Ids : (goroutine[j].pc = "none" <=> j > nextid) /\ (j <= nextid => op[j] \in Sftp!Operations))'
  BY <1>1, <1>2, <1>3, GoroutineKept, Zenon
<1>5. SftpShape' /\ SftpRequests'
  <2>1. asked' \subseteq inflight' /\ inflight' \subseteq Sftp!Ids /\ \A j \in inflight' : Sent(j)'
    BY <1>1, <1>2, <1>4, ZenonT(40) DEF SftpInv, SftpShape, SftpRequests
  <2> QED BY <1>1, <1>4, <2>1, Zenon DEF SftpShape, SftpRequests
<1>6. SftpReplies'
  <2>1. goroutine'[i].pc = "give" => Gives(goroutine[i].to, goroutine[i].reply)'
    BY <1>3, <1>4, Zenon DEF Gives, Sftp!Ids, Sftp!Failed
  <2>2. (\A j \in Sftp!Ids : goroutine[j].pc = "give" => Gives(goroutine[j].to, goroutine[j].reply))'
    BY <1>4, <2>1, GivesKept, Zenon
  <2>3. \A k \in DOMAIN replies : replies[k] \in SftpReply
    BY <1>1 DEF SftpShape
  <2>4. stream = "up" => i \in asked'
    BY <1>2, Zenon
  <2>5. asked \subseteq asked'
    BY <1>2, Zenon
  <2> QED BY <1>1, <1>4, <2>2, <2>3, <2>4, <2>5, Zenon DEF SftpInv, SftpReplies
<1> QED BY <1>4, <1>5, <1>6, Zenon DEF SftpInv

LEMMA SftpLock ==
  ASSUME Sftp!SftpAssumption, SftpInv, NEW i \in Sftp!Ids, Sftp!Lock(i)
  PROVE  SftpInv'
<1>1. /\ goroutine[i].pc = "lock" /\ SftpShape /\ goroutine' = [goroutine EXCEPT ![i].pc = "recv"]
      /\ UNCHANGED <<nextid, op, replies, stream, outcome, inflight, asked>>
  BY Zenon DEF Sftp!Lock, SftpInv
<1> DEFINE g == [pc |-> "recv", to |-> goroutine[i].to, reply |-> goroutine[i].reply]
<1>2. /\ goroutine' = [goroutine EXCEPT ![i] = g]
      /\ g \in [pc : {"lock", "recv", "give", "end"}, to : 0..MaxReq, reply : SftpReply] /\ g.pc = "recv"
  <2>1. goroutine[i] \in [pc : {"none", "send", "lock", "recv", "give", "end"}, to : 0..MaxReq, reply : SftpReply]
    BY <1>1, Zenon DEF SftpShape
  <2>2. [goroutine[i] EXCEPT !.pc = "recv"] = g
    BY <2>1
  <2>3. goroutine' = [goroutine EXCEPT ![i] = [goroutine[i] EXCEPT !.pc = "recv"]]
    BY <1>1, Zenon DEF SftpShape
  <2> HIDE DEF g
  <2>4. goroutine' = [goroutine EXCEPT ![i] = g]
    BY <2>2, <2>3, Zenon
  <2>5. g \in [pc : {"lock", "recv", "give", "end"}, to : 0..MaxReq, reply : SftpReply] /\ g.pc = "recv"
    BY <2>1, Zenon DEF g
  <2> QED BY <2>4, <2>5, Zenon
<1> HIDE DEF g
<1>3. /\ goroutine'[i] = g /\ Sent(i)' /\ \A j \in Sftp!Ids : j # i => goroutine'[j] = goroutine[j]
      /\ \A j \in Sftp!Ids : Sent(j) => Sent(j)'
      /\ goroutine' \in [Sftp!Ids -> [pc : {"none", "send", "lock", "recv", "give", "end"}, to : 0..MaxReq, reply : SftpReply]]
      /\ SftpTold' /\ \A r \in SftpReply : Truthful(r) => Truthful(r)'
      /\ (\A j \in Sftp!Ids : (goroutine[j].pc = "none" <=> j > nextid) /\ (j <= nextid => op[j] \in Sftp!Operations))'
  BY <1>1, <1>2, GoroutineKept, Zenon
<1>4. SftpShape' /\ SftpRequests'
  BY <1>1, <1>3, Zenon DEF SftpInv, SftpShape, SftpRequests
<1>5. (\A j \in Sftp!Ids : goroutine[j].pc = "give" => Gives(goroutine[j].to, goroutine[j].reply))'
  <2>1. goroutine'[i].pc # "give"
    BY <1>2, <1>3, Zenon
  <2> QED BY <1>3, <2>1, GivesKept, Zenon
<1>6. \A k \in DOMAIN replies : replies[k] \in SftpReply
  BY <1>1 DEF SftpShape
<1> QED BY <1>1, <1>3, <1>4, <1>5, <1>6, Zenon DEF SftpInv, SftpReplies

(* What recvPacket hands over, and to whom.                                 *)
LEMMA SftpReceived ==
  ASSUME Sftp!SftpAssumption, SftpInv, NEW i \in Sftp!Ids, Sftp!recvPacket(i)
  PROVE  SftpInv'
<1>1. /\ goroutine[i].pc = "recv" /\ Sent(i) /\ SftpShape /\ SftpRequests /\ SftpReplies /\ MaxReq \in Nat
      /\ i \in 0..MaxReq /\ UNCHANGED <<nextid, op, stream, outcome, asked>>
  BY SftpConstants DEF Sftp!recvPacket, SftpInv, Sent, Sftp!Ids
<1>2. Sftp!Failed \in SftpReply /\ \A k \in DOMAIN replies : replies[k] \in SftpReply
  <2>1. Sftp!Failed \in SftpReply
    BY <1>1 DEF Sftp!Failed, SftpReply
  <2> QED BY <1>1, <2>1 DEF SftpShape
<1>3. \E to \in Sftp!Ids, r \in SftpReply :
        /\ goroutine' = [goroutine EXCEPT ![i] = [pc |-> "give", to |-> to, reply |-> r]]
        /\ \/ /\ replies # <<>> /\ r = replies[1] /\ to = r.id /\ replies' = Tail(replies) /\ inflight' = inflight \ {to}
           \/ to = i /\ r = Sftp!Failed /\ stream = "lost" /\ UNCHANGED <<replies, inflight>>
  <2>1. CASE replies # <<>>
    <3>1. Head(replies) = replies[1] /\ 1 \in DOMAIN replies
      BY <1>1, <2>1 DEF SftpShape
    <3>2. replies[1].id \in inflight /\ replies[1].id \in Sftp!Ids /\ replies[1] \in SftpReply
      BY <1>1, <1>2, <3>1, Zenon DEF SftpReplies, SftpShape
    <3> QED BY <2>1, <3>1, <3>2, Zenon DEF Sftp!recvPacket, Sftp!give
  <2>2. CASE replies = <<>>
    BY <1>2, <2>2, Zenon DEF Sftp!recvPacket, Sftp!give
  <2> QED BY <2>1, <2>2, Zenon
<1>4. PICK to \in Sftp!Ids, r \in SftpReply :
        /\ goroutine' = [goroutine EXCEPT ![i] = [pc |-> "give", to |-> to, reply |-> r]]
        /\ \/ /\ replies # <<>> /\ r = replies[1] /\ to = r.id /\ replies' = Tail(replies) /\ inflight' = inflight \ {to}
           \/ to = i /\ r = Sftp!Failed /\ stream = "lost" /\ UNCHANGED <<replies, inflight>>
  BY <1>3, Zenon
<1> DEFINE g == [pc |-> "give", to |-> to, reply |-> r]
<1>5. g \in [pc : {"lock", "recv", "give", "end"}, to : 0..MaxReq, reply : SftpReply] /\ g.to = to /\ g.reply = r
  BY <1>1 DEF Sftp!Ids
<1>6. goroutine' = [goroutine EXCEPT ![i] = g]
  BY <1>4, Zenon
<1> HIDE DEF g
<1>7. /\ goroutine'[i] = g /\ Sent(i)' /\ \A j \in Sftp!Ids : j # i => goroutine'[j] = goroutine[j]
      /\ \A j \in Sftp!Ids : Sent(j) => Sent(j)'
      /\ goroutine' \in [Sftp!Ids -> [pc : {"none", "send", "lock", "recv", "give", "end"}, to : 0..MaxReq, reply : SftpReply]]
      /\ SftpTold' /\ \A q \in SftpReply : Truthful(q) => Truthful(q)'
      /\ (\A j \in Sftp!Ids : (goroutine[j].pc = "none" <=> j > nextid) /\ (j <= nextid => op[j] \in Sftp!Operations))'
  BY <1>1, <1>5, <1>6, GoroutineKept, Zenon
<1>8. Gives(goroutine[i].to, goroutine[i].reply)'
  <2>1. Sent(to) /\ (r = Sftp!Failed \/ (Truthful(r) /\ r.id = to))
    <3>1. CASE replies # <<>> /\ r = replies[1] /\ to = r.id
      <4>1. 1 \in DOMAIN replies
        BY <1>1, <3>1 DEF SftpShape
      <4> QED BY <1>1, <3>1, <4>1, Zenon DEF SftpReplies, SftpRequests
    <3>2. CASE to = i /\ r = Sftp!Failed
      BY <1>1, <3>2, Zenon
    <3> QED BY <1>4, <3>1, <3>2, Zenon
  <2> QED BY <1>5, <1>7, <2>1, Zenon DEF Gives, Sftp!Ids, Sftp!Failed
<1>9. (\A j \in Sftp!Ids : goroutine[j].pc = "give" => Gives(goroutine[j].to, goroutine[j].reply))'
  BY <1>7, <1>8, GivesKept, Zenon
<1>10. CASE replies # <<>> /\ r = replies[1] /\ to = r.id /\ replies' = Tail(replies) /\ inflight' = inflight \ {to}
  <2>1. /\ replies' \in Seq(SftpReply) /\ Len(replies') = Len(replies) - 1 /\ Len(replies) \in Nat /\ Len(replies') \in Nat
        /\ DOMAIN replies = 1..Len(replies) /\ DOMAIN replies' = 1..Len(replies')
        /\ \A k \in DOMAIN replies' : k + 1 \in DOMAIN replies /\ replies'[k] = replies[k + 1]
    BY <1>1, <1>10 DEF SftpShape
  <2>2. to \notin asked
    BY <1>1, <1>10, <2>1 DEF SftpReplies, Truthful, Answered
  <2>3. SftpShape'
    BY <1>1, <1>7, <1>10, <2>1, <2>2, Zenon DEF SftpShape
  <2>4. SftpRequests'
    BY <1>1, <1>7, <1>10, Zenon DEF SftpRequests, SftpShape
  <2>5. \A k \in DOMAIN replies' : replies'[k].id # to
    BY <1>1, <1>10, <2>1 DEF SftpReplies
  <2>6. /\ \A k \in DOMAIN replies' : Truthful(replies[k])' /\ replies'[k].id \in inflight'
        /\ \A j, k \in DOMAIN replies' : replies'[j].id = replies'[k].id => j = k
    <3>1. ASSUME NEW k \in DOMAIN replies'
          PROVE  Truthful(replies[k])' /\ replies'[k].id \in inflight'
      <4>1. k + 1 \in DOMAIN replies /\ replies'[k] = replies[k + 1]
        BY <2>1, <3>1, Zenon
      <4>2. Truthful(replies[k + 1]) /\ replies[k + 1].id \in inflight /\ replies[k + 1] \in SftpReply
        BY <1>1, <1>2, <4>1, Zenon DEF SftpReplies
      <4> QED BY <1>7, <1>10, <2>5, <4>1, <4>2, Zenon
    <3>2. ASSUME NEW j \in DOMAIN replies', NEW k \in DOMAIN replies', replies'[j].id = replies'[k].id
          PROVE  j = k
      <4>1. j + 1 \in DOMAIN replies /\ k + 1 \in DOMAIN replies /\ replies[j + 1].id = replies[k + 1].id
        BY <2>1, <3>2, Zenon
      <4>2. j + 1 = k + 1
        BY <1>1, <4>1, Zenon DEF SftpReplies
      <4> QED BY <2>1, <4>2
    <3> QED BY <3>1, <3>2, Zenon
  <2>7. ASSUME stream = "up", NEW j \in inflight', j \notin asked
        PROVE  \E k \in DOMAIN replies' : replies'[k].id = j
    <3>1. PICK k \in DOMAIN replies : replies[k].id = j
      BY <1>1, <1>10, <2>7, Zenon DEF SftpReplies
    <3>2. k # 1 /\ k - 1 \in DOMAIN replies' /\ replies'[k - 1] = replies[k]
      BY <1>10, <2>1, <3>1, <2>7
    <3> QED BY <3>1, <3>2, Zenon
  <2>8. SftpReplies'
    BY <1>1, <1>9, <2>6, <2>7, Zenon DEF SftpReplies
  <2> QED BY <1>7, <2>3, <2>4, <2>8, Zenon DEF SftpInv
<1>11. CASE to = i /\ r = Sftp!Failed /\ stream = "lost" /\ UNCHANGED <<replies, inflight>>
  <2>1. SftpShape' /\ SftpRequests'
    BY <1>1, <1>7, <1>11, Zenon DEF SftpShape, SftpRequests
  <2> QED BY <1>1, <1>2, <1>7, <1>9, <1>11, <2>1, Zenon DEF SftpInv, SftpReplies
<1> QED BY <1>4, <1>10, <1>11, Zenon

(* The caller learns what the server did.                                   *)
LEMMA SftpHandedOver ==
  ASSUME Sftp!SftpAssumption, SftpInv, NEW i \in Sftp!Ids, NEW c \in SftpCallers, Sftp!Receive(i, c)
  PROVE  SftpInv'
<1> DEFINE to == goroutine[i].to
           r == goroutine[i].reply
           v == IF r = Sftp!Failed THEN "error" ELSE Sftp!result(op[to], to, r)
<1>1. /\ goroutine[i].pc = "give" /\ Gives(to, r) /\ SftpShape /\ SftpRequests /\ SftpReplies /\ SftpTold
      /\ goroutine' = [goroutine EXCEPT ![i] = [pc |-> "end", to |-> 0, reply |-> Sftp!NoReply]]
      /\ outcome' = [outcome EXCEPT ![to].told = v]
      /\ UNCHANGED <<nextid, op, inflight, asked, replies, stream>>
  BY Zenon DEF Sftp!Receive, SftpInv, SftpReplies
<1>2. MaxReq \in Nat /\ Sftp!NoReply \in SftpReply /\ r \in SftpReply /\ to \in Sftp!Ids
  <2>1. Sftp!NoReply \in SftpReply
    BY SftpConstants DEF Sftp!NoReply, SftpReply
  <2>2. goroutine[i] \in [pc : {"none", "send", "lock", "recv", "give", "end"}, to : 0..MaxReq, reply : SftpReply]
    BY <1>1, Zenon DEF SftpShape
  <2> QED BY <1>1, <2>1, <2>2, SftpConstants, Zenon DEF Gives
<1>3. /\ v \in {"none", "error", "nil", "STATUS", "FAILURE"}
      /\ v # "error" => Answered(to) /\ ((v = "nil") <=> (outcome[to].did = "yes"))
  <2>1. CASE r = Sftp!Failed
    BY <2>1, Zenon
  <2>2. CASE r # Sftp!Failed
    <3>1. PICK ok \in BOOLEAN : r = ReplyOf(to, ok) /\ outcome[to].did = Did(ok)
      BY <1>1, <2>2, Zenon DEF Gives, Truthful
    <3>2. Answered(to) /\ op[to] \in Sftp!Operations
      <4>1. Answered(to)
        BY <1>1, <2>2, Zenon DEF Gives, Truthful
      <4>2. goroutine[to].pc # "none" /\ to \in Int /\ nextid \in Int
        BY <1>1, <4>1 DEF Answered, Sent, Sftp!Ids, SftpShape
      <4> QED BY <1>1, <1>2, <4>1, <4>2 DEF SftpRequests
    <3>3. v = IF ok THEN "nil" ELSE IF op[to] = "StatVFS" THEN "STATUS" ELSE "FAILURE"
      BY <1>2, <2>2, <3>1, <3>2, ResultOfReply
    <3> QED BY <3>1, <3>2, <3>3, Zenon DEF Did
  <2> QED BY <2>1, <2>2, Zenon
<1> HIDE DEF to, r, v
<1>4. /\ goroutine'[i].pc = "end" /\ \A j \in Sftp!Ids : j # i => goroutine'[j] = goroutine[j]
      /\ goroutine' \in [Sftp!Ids -> [pc : {"none", "send", "lock", "recv", "give", "end"}, to : 0..MaxReq, reply : SftpReply]]
  BY <1>1, <1>2 DEF SftpShape
<1>5. /\ \A j \in Sftp!Ids : outcome'[j].did = outcome[j].did /\ (j # to => outcome'[j].told = outcome[j].told)
      /\ outcome'[to].told = v
      /\ outcome' \in [Sftp!Ids -> [did : {"none", "yes", "no"}, told : {"none", "error", "nil", "STATUS", "FAILURE"}]]
  BY <1>1, <1>2, <1>3 DEF SftpShape
<1>6. /\ \A j \in Sftp!Ids : Sent(j) => Sent(j)'
      /\ \A j \in Sftp!Ids : Answered(j) => Answered(j)'
  BY <1>1, <1>4, Zenon DEF Sent, Answered
<1>7. SftpShape' /\ SftpRequests'
  <2>1. SftpShape'
    BY <1>1, <1>4, <1>5, Zenon DEF SftpShape
  <2>2. \A j \in Sftp!Ids : goroutine'[j].pc = "none" <=> goroutine[j].pc = "none"
    BY <1>1, <1>4, Zenon
  <2> QED BY <1>1, <1>6, <2>1, <2>2, Zenon DEF SftpRequests, SftpShape
<1>8. SftpTold'
  BY <1>1, <1>2, <1>3, <1>5, <1>6 DEF SftpTold
<1>9. ASSUME NEW q \in SftpReply, Truthful(q)
      PROVE  Truthful(q)'
  <2>1. q.id \in Sftp!Ids /\ Answered(q.id) /\ Answered(q.id)'
    BY <1>6, <1>9, Zenon DEF Truthful, Answered
  <2> QED BY <1>1, <1>5, <1>9, <2>1, TruthfulKept, Zenon DEF Answered
<1>10. SftpReplies'
  <2>1. (\A j \in Sftp!Ids : goroutine[j].pc = "give" => Gives(goroutine[j].to, goroutine[j].reply))'
    <3>1. goroutine'[i].pc # "give"
      BY <1>4, Zenon
    <3> QED BY <1>4, <1>6, <1>9, <3>1, GivesKept, Zenon
  <2>2. \A k \in DOMAIN replies : replies[k] \in SftpReply
    BY <1>1 DEF SftpShape
  <2> QED BY <1>1, <1>9, <2>1, <2>2, Zenon DEF SftpReplies
<1> QED BY <1>7, <1>8, <1>10, Zenon DEF SftpInv

(* The server answers one of the requests it was asked, for the first time. *)
LEMMA SftpRespond ==
  ASSUME Sftp!SftpAssumption, SftpInv, NEW i \in Sftp!Ids, NEW ok \in BOOLEAN, Sftp!Respond(i, ok)
  PROVE  SftpInv'
<1>1. /\ i \in asked /\ SftpShape /\ SftpRequests /\ SftpReplies /\ SftpTold /\ i \in 0..MaxReq
      /\ asked' = asked \ {i} /\ replies' = Append(replies, ReplyOf(i, ok))
      /\ outcome' = [outcome EXCEPT ![i].did = Did(ok)]
      /\ UNCHANGED <<nextid, op, inflight, goroutine, stream>>
  BY SftpConstants DEF Sftp!Respond, SftpInv, ReplyOf, Did, Sftp!Ids
<1>2. i \in inflight /\ Sent(i)
  BY <1>1, Zenon DEF SftpShape, SftpRequests
<1>3. ReplyOf(i, ok) \in SftpReply /\ ReplyOf(i, ok).id = i
  <2>1. Sftp!SuccessType(op[i]) \in {"HANDLE", "ATTRS", "NAME", "DATA", "EXTENDED_REPLY", "STATUS"}
    BY Zenon DEF Sftp!SuccessType
  <2> QED BY <1>1, <2>1, Zenon DEF ReplyOf, SftpReply
<1>4. /\ outcome'[i].did = Did(ok) /\ outcome'[i].told = outcome[i].told
      /\ \A j \in Sftp!Ids : j # i => outcome'[j] = outcome[j]
      /\ outcome' \in [Sftp!Ids -> [did : {"none", "yes", "no"}, told : {"none", "error", "nil", "STATUS", "FAILURE"}]]
  <2> DEFINE T == [did : {"none", "yes", "no"}, told : {"none", "error", "nil", "STATUS", "FAILURE"}]
  <2>1. outcome \in [Sftp!Ids -> T] /\ outcome[i] \in T
    BY <1>1, Zenon DEF SftpShape
  <2>2. Did(ok) \in {"yes", "no"}
    BY Zenon DEF Did
  <2>3. /\ [outcome[i] EXCEPT !.did = Did(ok)] \in T /\ [outcome[i] EXCEPT !.did = Did(ok)].did = Did(ok)
        /\ [outcome[i] EXCEPT !.did = Did(ok)].told = outcome[i].told
    BY <2>1, <2>2
  <2>4. outcome' = [outcome EXCEPT ![i] = [outcome[i] EXCEPT !.did = Did(ok)]]
    BY <1>1, <2>1, Zenon
  <2> HIDE DEF T
  <2>5. /\ outcome' \in [Sftp!Ids -> T] /\ outcome'[i] = [outcome[i] EXCEPT !.did = Did(ok)]
        /\ \A j \in Sftp!Ids : j # i => outcome'[j] = outcome[j]
    BY <2>1, <2>3, <2>4, Zenon
  <2> QED BY <2>3, <2>5, Zenon DEF T
<1>5. ASSUME NEW r \in SftpReply, Truthful(r)
      PROVE  Truthful(r)' /\ r.id # i
  <2>1. Answered(r.id)
    BY <1>5, Zenon DEF Truthful
  <2>2. r.id # i /\ Sent(r.id)'
    BY <1>1, <2>1, Zenon DEF Answered, Sent
  <2> QED BY <1>1, <1>4, <1>5, <2>1, <2>2, TruthfulKept, Zenon DEF Answered
<1>6. Truthful(ReplyOf(i, ok))'
  <2>1. Answered(i)' /\ ReplyOf(i, ok)' = ReplyOf(i, ok)
    BY <1>1, <1>2, Zenon DEF Answered, Sent, ReplyOf
  <2> QED BY <1>3, <1>4, <2>1, Zenon DEF Truthful, ReplyOf
<1>7. /\ replies' \in Seq(SftpReply) /\ DOMAIN replies' = 1..(Len(replies) + 1) /\ DOMAIN replies = 1..Len(replies)
      /\ Len(replies) \in Nat /\ replies'[Len(replies) + 1] = ReplyOf(i, ok)
      /\ \A k \in DOMAIN replies : replies'[k] = replies[k] /\ replies[k] \in SftpReply
  BY <1>1, <1>3 DEF SftpShape
<1>8. SftpShape' /\ SftpRequests'
  <2>1. SftpShape'
    BY <1>1, <1>4, <1>7, Zenon DEF SftpShape
  <2> QED BY <1>1, <2>1, Zenon DEF SftpRequests, Sent
<1>9. SftpTold'
  BY <1>1, <1>4, ZenonT(40) DEF SftpTold, Answered, Sent
<1>10. SftpReplies'
  <2>1. ASSUME NEW k \in DOMAIN replies'
        PROVE  /\ Truthful(replies[k])' /\ replies'[k].id \in inflight'
               /\ k \in DOMAIN replies => replies'[k].id # i
    <3>1. CASE k \in DOMAIN replies
      <4>1. Truthful(replies[k]) /\ replies[k].id \in inflight
        BY <1>1, <3>1, Zenon DEF SftpReplies
      <4> QED BY <1>1, <1>5, <1>7, <3>1, <4>1, Zenon
    <3>2. CASE k = Len(replies) + 1
      <4>1. replies'[k] = ReplyOf(i, ok)' /\ replies'[k].id \in inflight' /\ k \notin DOMAIN replies
        BY <1>1, <1>2, <1>3, <1>7, <3>2 DEF ReplyOf
      <4> QED BY <1>6, <4>1, Zenon DEF Truthful
    <3> QED BY <1>7, <3>1, <3>2
  <2>2. \A j, k \in DOMAIN replies' : replies'[j].id = replies'[k].id => j = k
    BY <1>1, <1>3, <1>7, <2>1 DEF SftpReplies
  <2>3. (\A j \in Sftp!Ids : goroutine[j].pc = "give" => Gives(goroutine[j].to, goroutine[j].reply))'
    <3> SUFFICES ASSUME NEW j \in Sftp!Ids, goroutine[j].pc = "give"
                 PROVE  Gives(goroutine[j].to, goroutine[j].reply)'
      BY <1>1, Zenon
    <3>1. Gives(goroutine[j].to, goroutine[j].reply) /\ goroutine[j].reply \in SftpReply
      BY <1>1, Zenon DEF SftpReplies, SftpShape
    <3> QED BY <1>1, <1>5, <3>1, Zenon DEF Gives, Sent
  <2>4. ASSUME stream = "up", NEW j \in inflight, j \notin asked'
        PROVE  \E k \in DOMAIN replies' : replies'[k].id = j
    <3>1. CASE j = i
      BY <1>3, <1>7, <3>1
    <3>2. CASE j # i
      <4>1. PICK k \in DOMAIN replies : replies[k].id = j
        BY <1>1, <2>4, <3>2, Zenon DEF SftpReplies
      <4> QED BY <1>7, <4>1
    <3> QED BY <3>1, <3>2, Zenon
  <2> QED BY <1>1, <2>1, <2>2, <2>3, <2>4, Zenon DEF SftpReplies
<1> QED BY <1>8, <1>9, <1>10, Zenon DEF SftpInv

LEMMA SftpLost ==
  ASSUME SftpInv, Sftp!ConnLost \/ UNCHANGED Sftp!vars
  PROVE  SftpInv'
<1>1. UNCHANGED <<nextid, op, inflight, goroutine, asked, replies, outcome>> /\ (stream' = stream \/ stream' = "lost")
  BY Zenon DEF Sftp!ConnLost, Sftp!vars
<1>2. SftpShape' /\ SftpRequests' /\ SftpTold'
  BY <1>1, Zenon DEF SftpInv, SftpShape, SftpRequests, SftpTold, Sent, Answered
<1>3. ASSUME NEW r
      PROVE  Truthful(r)' <=> Truthful(r)
  BY <1>1, Zenon DEF Truthful, Answered, Sent, ReplyOf
<1>4. SftpReplies'
  BY <1>1, <1>3, Zenon DEF SftpInv, SftpReplies, Gives, Sent
<1> QED BY <1>2, <1>4, Zenon DEF SftpInv

LEMMA SftpInvariant ==
  ASSUME Sftp!SftpAssumption
  PROVE  Sftp!Spec => []SftpInv
<1>1. Sftp!Init => SftpInv
  BY SftpInitInv, Zenon
<1>2. SftpInv /\ [Sftp!Next]_(Sftp!vars) => SftpInv'
  BY SftpCall, SftpSend, SftpLock, SftpReceived, SftpHandedOver, SftpRespond, SftpLost, Zenon DEF Sftp!Next, Sftp!Goroutine
<1> QED BY <1>1, <1>2, PTL DEF Sftp!Spec

(* client.go of package sftp: whoever asks, in whatever order the server    *)
(* answers and whichever goroutine reads the answer, each operation reports *)
(* success exactly when the server did what that very request asked; and    *)
(* while the connection lives inflight holds exactly the requests whose     *)
(* reply is not read yet.                                                   *)
THEOREM SftpTruthful ==
  ASSUME Sftp!SftpAssumption
  PROVE  Sftp!Spec => [](Sftp!TruthfulResult /\ Sftp!InflightExact)
<1>1. ASSUME SftpInv
      PROVE  Sftp!TruthfulResult /\ Sftp!InflightExact
  <2>1. Sftp!TruthfulResult
    BY <1>1, Zenon DEF SftpInv, SftpShape, SftpTold, Sftp!TruthfulResult
  <2>2. Sftp!InflightExact
    <3>1. nextid \in Nat /\ MaxReq \in Nat /\ nextid <= MaxReq
      BY <1>1, SftpConstants DEF SftpInv, SftpShape
    <3>2. ASSUME NEW i \in inflight
          PROVE  i \in 1..nextid /\ goroutine[i].pc # "send"
      BY <1>1, <3>1 DEF SftpInv, SftpShape, SftpRequests, Sent, Sftp!Ids
    <3>3. asked \subseteq inflight /\ \A k \in DOMAIN replies : replies[k].id \in inflight
      BY <1>1, Zenon DEF SftpInv, SftpShape, SftpReplies
    <3>4. stream = "up" => \A i \in inflight : i \in asked \/ \E k \in DOMAIN replies : replies[k].id = i
      BY <1>1, Zenon DEF SftpInv, SftpReplies
    <3> QED BY <3>2, <3>3, <3>4, Zenon DEF Sftp!InflightExact
  <2> QED BY <2>1, <2>2, Zenon
<1> QED BY <1>1, SftpInvariant, PTL
=============================================================================
