------------------------------ MODULE SftpWalk ------------------------------
(***************************************************************************)
(* A walk over a remote tree: Walker.Step (kr/fs/walk.go) on the file system   *)
(* of the SFTP client, whose ReadDir (pkg/sftp/client.go) opens a handle,        *)
(* reads names in batches until a status, and closes the handle.  Any request    *)
(* may be refused.                                                           *)
(***************************************************************************)
EXTENDS Integers, Sequences, SequencesExt, FiniteSets

CONSTANTS
    children,   \* children[d]: the entries of directory d, in the server's order
    Root,       \* where the walk begins
    BatchSize,  \* names in one reply of the server
    MaxErrors   \* bound on refused requests

WalkAssumption == BatchSize \in Nat \ {0} /\ MaxErrors \in Nat

Dirs == DOMAIN children

VARIABLES
    stack,      \* w.stack, the top last
    cur,        \* w.cur
    descend,    \* w.descend
    listing,    \* the ReadDir under way: its handle, what it has read, what is left
    handles,    \* handles open at the server
    errors,     \* requests refused so far
    visits,     \* the items Step stopped at, in order
    skipped     \* directories the user skipped

vars == <<stack, cur, descend, listing, handles, errors, visits, skipped>>

item(p, err) == [path |-> p, err |-> err]
NoItem == item("none", FALSE)
Idle == [dir |-> "none", attrs |-> <<>>, left |-> <<>>, phase |-> "none"]

Init ==      \* WalkFS with an Lstat that succeeds or fails
    /\ stack \in {<<item(Root, FALSE)>>, <<item(Root, TRUE)>>}
    /\ cur = NoItem /\ descend = FALSE
    /\ listing = Idle
    /\ handles = {}
    /\ errors = 0
    /\ visits = <<>>
    /\ skipped = {}

mayFail(refused) == errors' = errors + (IF refused THEN 1 ELSE 0) /\ errors' <= MaxErrors

(* The end of Step: take the next item off the stack, or end the walk. *)
pop(s) ==
    IF s = <<>> THEN stack' = s /\ cur' = NoItem /\ descend' = FALSE /\ UNCHANGED visits
    ELSE /\ cur' = Last(s)
         /\ stack' = Front(s)
         /\ descend' = TRUE
         /\ visits' = Append(visits, Last(s))

reads == descend /\ ~cur.err /\ cur.path \in Dirs

-----------------------------------------------------------------------------
(* Step where there is nothing to descend into. *)
Step ==
    /\ listing = Idle /\ ~reads /\ (stack # <<>> \/ cur # NoItem)
    /\ pop(stack)
    /\ UNCHANGED <<listing, handles, errors, skipped>>

(* Step on a directory, a ReadDir with a request at a time. *)
opendir(refused) ==
    /\ listing = Idle /\ reads
    /\ mayFail(refused)
    /\ IF refused
       THEN pop(Append(stack, item(cur.path, TRUE))) /\ UNCHANGED <<listing, handles>>
       ELSE /\ handles' = handles \cup {cur.path}
            /\ listing' = [dir |-> cur.path, attrs |-> <<>>, left |-> children[cur.path], phase |-> "read"]
            /\ UNCHANGED <<stack, cur, descend, visits>>
    /\ UNCHANGED skipped

readdir(n, refused) ==
    /\ listing.phase = "read" /\ (n <= Len(listing.left) \/ listing.left = <<>>)
    /\ mayFail(refused)
    /\ listing' =
         CASE refused -> [listing EXCEPT !.phase = "failed"]
           [] ~refused /\ listing.left = <<>> -> [listing EXCEPT !.phase = "read all"]
           [] ~refused /\ listing.left # <<>> ->
                [listing EXCEPT !.attrs = @ \o SubSeq(listing.left, 1, n),
                                !.left = SubSeq(@, n + 1, Len(@))]
    /\ UNCHANGED <<stack, cur, descend, handles, visits, skipped>>

(* The deferred close; its error is dropped. *)
closeDir ==
    /\ listing.phase \in {"failed", "read all"}
    /\ handles' = handles \ {listing.dir}
    /\ listing' = Idle
    /\ IF listing.phase = "failed" THEN pop(Append(stack, item(cur.path, TRUE)))
       ELSE pop(stack \o [i \in DOMAIN listing.attrs |-> item(Reverse(listing.attrs)[i], FALSE)])
    /\ UNCHANGED <<errors, skipped>>

SkipDir ==
    /\ listing = Idle /\ cur # NoItem /\ descend
    /\ descend' = FALSE
    /\ skipped' = skipped \cup {cur.path}
    /\ UNCHANGED <<stack, cur, listing, handles, errors, visits>>

Next ==
    \/ Step \/ closeDir \/ SkipDir
    \/ \E refused \in BOOLEAN :
         \/ opendir(refused)
         \/ \E n \in 1 .. BatchSize : readdir(n, refused)

Spec == Init /\ [][Next]_vars

(* Steps and requests end; nothing says that a request must ever be refused. *)
Progress == Step \/ closeDir \/ opendir(FALSE) \/ \E n \in 1 .. BatchSize : readdir(n, FALSE)

-----------------------------------------------------------------------------
RECURSIVE PreOrder(_, _)
(* The items of the tree in the order of a depth-first walk that does not enter   *)
(* the directories in closed.                                                                *)
PreOrder(p, closed) ==
    <<p>> \o IF p \in Dirs \ closed
             THEN FlattenSeq([i \in DOMAIN children[p] |-> PreOrder(children[p][i], closed)])
             ELSE <<>>

Finished == stack = <<>> /\ cur = NoItem
FailedDirs == {visits[i].path : i \in {j \in DOMAIN visits : visits[j].err}}
FirstVisits == SelectSeq(visits, LAMBDA v : ~v.err)

(* Walker.Step visits every file of the tree once, a directory before what is in   *)
(* it, except for what is below directories that were skipped or could not be        *)
(* listed, and nothing is met twice in the same way.  The order in a directory is    *)
(* that of the listing; the comment of Walker (walk.go:10-12) promises lexical        *)
(* order, which neither Step nor the ReadDir of the SFTP client brings about.         *)
WalksTree ==
    /\ Finished /\ visits[1] # item(Root, TRUE) =>
         [i \in DOMAIN FirstVisits |-> FirstVisits[i].path] = PreOrder(Root, skipped \cup FailedDirs)
    /\ IsInjective(visits)

(* ReadDir closes the handle it opened however it ends. *)
NoHandleLeft == listing = Idle => handles = {}

(* A directory that could not be listed is reported before the walk goes on to     *)
(* anything else.                                                              *)
FailureReported ==
    \A i \in DOMAIN visits : visits[i].err /\ i > 1 => visits[i - 1] = item(visits[i].path, FALSE)
=============================================================================
