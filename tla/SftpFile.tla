------------------------------ MODULE SftpFile ------------------------------
(***************************************************************************)
(* A remote file (type File of pkg/sftp/client.go): Read and Write cut a       *)
(* buffer into packets of at most maxPacket bytes, each a request of its own,   *)
(* and Seek sets the offset the client keeps.  Between two packets another      *)
(* client may append to the file, the server may answer a read with fewer       *)
(* bytes than asked for, and any request may fail.                             *)
(***************************************************************************)
EXTENDS Integers, Sequences

CONSTANTS
    Bytes,       \* what a byte may be
    maxPacket,   \* the bytes of one request
    MaxBuf,      \* bound on the length of the buffer of one call
    MaxSize,     \* bound on the size of the file
    MaxSeek      \* bound on the distance of a Seek

FileAssumption == maxPacket \in Nat \ {0} /\ MaxBuf \in Nat /\ MaxSize \in Nat /\ MaxSeek \in Nat

VARIABLES
    content,   \* the file at the server
    offset,    \* f.offset
    call,      \* the call under way: what is left of the buffer, what was moved so far
    last       \* what the last call that returned began with and returned

vars == <<content, offset, call, last>>

NoCall == [op |-> "none", at |-> 0, len |-> 0, todo |-> <<>>, moved |-> <<>>]
NoResult == [op |-> "none", at |-> 0, len |-> 0, moved |-> <<>>, err |-> "nil"]

Init ==
    /\ content \in [1 .. 2 -> Bytes]
    /\ offset = 0
    /\ call = NoCall
    /\ last = NoResult

Buffers == UNION {[1 .. n -> Bytes] : n \in 0 .. MaxBuf}
Least(a, b) == IF a > b THEN b ELSE a
Overwrite(file, at, data) ==
    [i \in 1 .. (IF at + Len(data) > Len(file) THEN at + Len(data) ELSE Len(file)) |->
        IF i > at /\ i <= at + Len(data) THEN data[i - at] ELSE file[i]]

returns(err) ==
    /\ last' = [op |-> call.op, at |-> call.at, len |-> call.len, moved |-> call.moved, err |-> err]
    /\ call' = NoCall

-----------------------------------------------------------------------------
Read(n) ==
    /\ call = NoCall
    /\ call' = [op |-> "Read", at |-> offset, len |-> n, todo |-> [i \in 1 .. n |-> "?"], moved |-> <<>>]
    /\ last' = NoResult
    /\ UNCHANGED <<content, offset>>

(* Only to where the file stays within its bound and without a hole. *)
Write(b) ==
    /\ call = NoCall /\ offset <= Len(content) /\ offset + Len(b) <= MaxSize
    /\ call' = [op |-> "Write", at |-> offset, len |-> Len(b), todo |-> b, moved |-> <<>>]
    /\ last' = NoResult
    /\ UNCHANGED <<content, offset>>

advance(data) ==
    /\ offset' = offset + Len(data)
    /\ call' = [call EXCEPT !.todo = SubSeq(@, Len(data) + 1, Len(@)), !.moved = @ \o data]
    /\ UNCHANGED last

(* One packet of a Read: data, possibly less than asked for, or the end. *)
readAt(n) ==
    /\ call.op = "Read" /\ call.todo # <<>> /\ offset < Len(content)
    /\ n <= Least(Len(call.todo), maxPacket) /\ offset + n <= Len(content)
    /\ advance(SubSeq(content, offset + 1, offset + n))
    /\ UNCHANGED content

readEOF ==
    /\ call.op = "Read" /\ call.todo # <<>> /\ offset >= Len(content)
    /\ returns("EOF")
    /\ UNCHANGED <<content, offset>>

writeAt ==
    /\ call.op = "Write" /\ call.todo # <<>>
    /\ LET data == SubSeq(call.todo, 1, Least(Len(call.todo), maxPacket)) IN
       content' = Overwrite(content, offset, data) /\ advance(data)

(* A request that failed, whether or not the server wrote the data. *)
requestFails(done) ==
    /\ call.op \in {"Read", "Write"} /\ call.todo # <<>>
    /\ returns("failure")
    /\ content' = IF call.op = "Write" /\ done
                  THEN Overwrite(content, offset, SubSeq(call.todo, 1, Least(Len(call.todo), maxPacket)))
                  ELSE content
    /\ UNCHANGED offset

Return ==
    /\ call.op \in {"Read", "Write"} /\ call.todo = <<>>
    /\ returns("nil")
    /\ UNCHANGED <<content, offset>>

(* Seek from the start, from the offset, or from the size Stat reports. *)
Seek(d, whence, ok) ==
    LET to == CASE whence = "SET" -> d
                [] whence = "CUR" -> offset + d
                [] whence = "END" -> IF ok THEN Len(content) + d ELSE offset
    IN  /\ call = NoCall
        /\ to \in 0 .. MaxSize
        /\ offset' = to
        /\ last' = NoResult
        /\ UNCHANGED <<content, call>>

(* Another client. *)
Append1(b) ==
    /\ Len(content) < MaxSize
    /\ content' = Append(content, b)
    /\ UNCHANGED <<offset, call, last>>

Next ==
    \/ \E n \in 0 .. MaxBuf : Read(n)
    \/ \E b \in Buffers : Write(b)
    \/ \E n \in 1 .. maxPacket : readAt(n)
    \/ readEOF \/ writeAt \/ Return
    \/ \E done \in BOOLEAN : requestFails(done)
    \/ \E d \in -MaxSeek .. MaxSeek, w \in {"SET", "CUR", "END"}, ok \in BOOLEAN : Seek(d, w, ok)
    \/ \E b \in Bytes : Append1(b)

Spec == Init /\ [][Next]_vars

-----------------------------------------------------------------------------
(* What Read hands out is the part of the file that begins where the offset      *)
(* stood, without gaps or repetitions, and what Write reports as written is in   *)
(* the file, whatever packets it took and wherever they failed; the offset        *)
(* moves by exactly that much.                                              *)
MovedExactly ==
    \A r \in {call, last} : r.op # "none" =>
        /\ r.moved = SubSeq(content, r.at + 1, r.at + Len(r.moved))
        /\ r = call => offset = r.at + Len(r.moved)

(* client.go, File.Write "returns a non-nil error when n != len(b)", and only then.  *)
(* Read does the same, whatever came before the packet that ended it: io.EOF comes    *)
(* with the bytes read so far, and not, as the comment of Read has it, always with a  *)
(* zero count.                                                                    *)
ShortMeansError == last.op # "none" => ((Len(last.moved) < last.len) <=> (last.err # "nil"))
=============================================================================
