------------------------------- MODULE BTree -------------------------------
(* The B+tree that holds the rows of a memTable interval in key order       *)
(* (src/internal/b/btree.go).                                               *)
(*                                                                          *)
(* The tree t is [pg, r, first, last, c, ver]: the pages by address, the    *)
(* root, the ends of the list of data pages, the number of items, and       *)
(* whether the operation increased the version.  A data page is a sequence  *)
(* d of [k, v] with its neighbours n and p; an index page has children ch   *)
(* and, between them, separators sep: the data page whose first key         *)
(* separates.  0 is the nil pointer.  Indexes count from zero, as in the    *)
(* code.  Addresses are not observable: an operation ends by numbering the  *)
(* pages in the order of a walk.                                            *)
EXTENDS Integers, Sequences, SequencesExt

CONSTANTS Keys, Values, None,
          kd, kx            (* half the capacity of a page                  *)

(* With kx = 1 an index page other than the root may have a single          *)
(* separator left, which cat and catX take for the root.                    *)
BTreeAssumption == Keys \subseteq Int /\ kd \in Nat \ {0} /\ kx \in Nat \ {0, 1}

VARIABLES t,
          map,              (* what a map would hold after the same calls   *)
          e,                (* an Enumerator, or None                       *)
          dir, got,         (* history: its direction, its last two keys,   *)
          steady,           (* the keys present since it was created and    *)
                            (* not yet returned,                            *)
          ended             (* and whether its last call returned io.EOF    *)

Abstract == INSTANCE SortedMap

vars == <<t, map, e, dir, got, steady, ended>>

TreeNew == [pg |-> <<>>, r |-> 0, first |-> 0, last |-> 0, c |-> 0, ver |-> FALSE]

Size(h, q) == IF "d" \in DOMAIN h.pg[q] THEN Len(h.pg[q].d) ELSE Len(h.pg[q].sep)

IsData(h, q) == "d" \in DOMAIN h.pg[q]

NewPage(h) == Len(h.pg) + 1

(* The keys that a page compares with: its items, or the separators' first. *)
PageKeys(h, q) ==
    IF IsData(h, q) THEN [i \in DOMAIN h.pg[q].d |-> h.pg[q].d[i].k]
    ELSE [i \in DOMAIN h.pg[q].sep |-> h.pg[h.pg[q].sep[i]].d[1].k]

RECURSIVE Bisect(_, _, _, _)
Bisect(keys, k, l, h) ==
    LET m == (l + h) \div 2
        mk == keys[m + 1]
    IN  IF l > h THEN [i |-> l, ok |-> FALSE]
        ELSE IF k > mk THEN Bisect(keys, k, m + 1, h)
        ELSE IF k = mk THEN [i |-> m, ok |-> TRUE]
        ELSE Bisect(keys, k, l, m - 1)

find(h, q, k) == Bisect(PageKeys(h, q), k, 0, Size(h, q) - 1)

-----------------------------------------------------------------------------
(* Pages.                                                                   *)

mvL(h, l, r, c) ==
    [h EXCEPT !.pg[l].d = @ \o SubSeq(h.pg[r].d, 1, c),
              !.pg[r].d = SubSeq(@, c + 1, Len(@))]

mvR(h, l, r, c) ==
    [h EXCEPT !.pg[r].d = SubSeq(h.pg[l].d, Size(h, l) - c + 1, Size(h, l)) \o @,
              !.pg[l].d = SubSeq(@, 1, Len(@) - c)]

insert(h, q, i, k, v) ==
    [h EXCEPT !.pg[q].d = InsertAt(@, i + 1, [k |-> k, v |-> v]), !.c = @ + 1, !.ver = TRUE]

extract(h, q, i) ==
    [h EXCEPT !.pg[q].d = RemoveAt(@, i + 1), !.c = @ - 1, !.ver = TRUE]

(* x.insert: separator i, and the child to the right of it.                 *)
insertX(h, q, i, sep, ch) ==
    [h EXCEPT !.pg[q].sep = InsertAt(@, i + 1, sep), !.pg[q].ch = InsertAt(@, i + 2, ch)]

(* The new root newX(q) with one separator.                                 *)
newRoot(h, q, sep, ch) ==
    [h EXCEPT !.pg = Append(@, [ch |-> <<q, ch>>, sep |-> <<sep>>]), !.r = NewPage(h)]

siblings(h, p, pi) ==
    [l |-> IF pi > 0 THEN h.pg[p].ch[pi] ELSE 0,
     r |-> IF pi >= 0 /\ pi < Size(h, p) THEN h.pg[p].ch[pi + 2] ELSE 0]

-----------------------------------------------------------------------------
(* Set.                                                                     *)

Bump(h) == [h EXCEPT !.ver = TRUE]

split(h, p, q, pi, i, k, v) ==
    LET r == NewPage(h)
        qn == h.pg[q].n
        page == [d |-> SubSeq(h.pg[q].d, kd + 1, 2 * kd), n |-> qn, p |-> q]
        h1 == [h EXCEPT !.pg = Append(@, page), !.last = IF qn = 0 THEN r ELSE @]
        h2 == IF qn = 0 THEN h1 ELSE [h1 EXCEPT !.pg[qn].p = r]
        h3 == [h2 EXCEPT !.pg[q].n = r, !.pg[q].d = SubSeq(@, 1, kd)]
        h4 == IF pi >= 0 THEN insertX(h3, p, pi, r, r) ELSE newRoot(h3, q, r, r)
    IN  IF i > kd THEN insert(h4, r, i - kd, k, v) ELSE insert(h4, q, i, k, v)

overflow(h, p, q, pi, i, k, v) ==
    LET s == siblings(h, p, pi)
    IN  IF s.l # 0 /\ Size(h, s.l) < 2 * kd THEN insert(mvL(h, s.l, q, 1), q, i - 1, k, v)
        ELSE IF s.r # 0 /\ Size(h, s.r) < 2 * kd THEN
            IF i < 2 * kd THEN insert(mvR(h, q, s.r, 1), q, i, k, v) ELSE insert(h, s.r, 0, k, v)
        ELSE split(h, p, q, pi, i, k, v)

(* splitX returns the page and the index to go on with.                     *)
splitX(h, p, q, pi, i) ==
    LET r == NewPage(h)
        page == [ch |-> SubSeq(h.pg[q].ch, kx + 2, 2 * kx + 2), sep |-> SubSeq(h.pg[q].sep, kx + 2, 2 * kx + 1)]
        sep == h.pg[q].sep[kx + 1]
        h1 == [h EXCEPT !.pg = Append(@, page), !.ver = TRUE]
        h2 == [h1 EXCEPT !.pg[q].ch = SubSeq(@, 1, kx + 1), !.pg[q].sep = SubSeq(@, 1, kx)]
        h3 == IF pi >= 0 THEN insertX(h2, p, pi, sep, r) ELSE newRoot(h2, q, sep, r)
    IN  IF i > kx THEN [h |-> h3, q |-> r, i |-> i - (kx + 1)] ELSE [h |-> h3, q |-> q, i |-> i]

RECURSIVE SetFrom(_, _, _, _, _, _)
SetFrom(h, p, q, pi, k, v) ==
    LET f == find(h, q, k)
        s == IF Size(h, q) > 2 * kx THEN splitX(h, p, q, pi, f.i) ELSE [h |-> h, q |-> q, i |-> f.i]
    IN  IF f.ok /\ IsData(h, q) THEN [h EXCEPT !.pg[q].d[f.i + 1].v = v]
        ELSE IF f.ok THEN [h EXCEPT !.pg[h.pg[q].sep[f.i + 1]].d[1].v = v]
        ELSE IF ~IsData(h, q) THEN SetFrom(s.h, s.q, s.h.pg[s.q].ch[s.i + 1], s.i, k, v)
        ELSE IF Size(h, q) < 2 * kd THEN insert(h, q, f.i, k, v)
        ELSE overflow(Bump(h), p, q, pi, f.i, k, v)

TreeSet(h, k, v) ==
    IF h.r # 0 THEN SetFrom(h, 0, h.r, -1, k, v)
    ELSE LET z == NewPage(h)
         IN  insert([h EXCEPT !.pg = Append(@, [d |-> <<>>, n |-> 0, p |-> 0]), !.r = z, !.first = z, !.last = z],
                    z, 0, k, v)

-----------------------------------------------------------------------------
(* Delete.                                                                  *)

Cleared == [TreeNew EXCEPT !.ver = TRUE]

(* x.extract, and the child that remains at its place.                      *)
extractX(h, p, pi, q) ==
    [h EXCEPT !.pg[p].sep = RemoveAt(@, pi + 1),
              !.pg[p].ch = [RemoveAt(@, pi + 2) EXCEPT ![pi + 1] = q]]

cat(h, p, q, r, pi) ==
    LET rn == h.pg[r].n
        h1 == mvL(Bump(h), q, r, Size(h, r))
        h2 == IF rn # 0 THEN [h1 EXCEPT !.pg[rn].p = q] ELSE [h1 EXCEPT !.last = q]
        h3 == [h2 EXCEPT !.pg[q].n = rn]
    IN  IF Size(h, p) > 1 THEN extractX(h3, p, pi, q) ELSE [h3 EXCEPT !.r = q]

catX(h, p, q, r, pi) ==
    LET h1 == [Bump(h) EXCEPT !.pg[q].sep = (@ \o <<h.pg[p].sep[pi + 1]>>) \o h.pg[r].sep,
                              !.pg[q].ch = @ \o h.pg[r].ch]
    IN  IF Size(h, p) > 1 THEN extractX(h1, p, pi, h.pg[p].ch[pi + 1]) ELSE [h1 EXCEPT !.r = q]

underflow(h, p, q, pi) ==
    LET s == siblings(h, p, pi)
    IN  IF s.l # 0 /\ Size(h, s.l) + Size(h, q) >= 2 * kd THEN mvR(Bump(h), s.l, q, 1)
        ELSE IF s.r # 0 /\ Size(h, q) + Size(h, s.r) >= 2 * kd THEN mvL(Bump(h), q, s.r, 1)
        ELSE IF s.l # 0 THEN cat(h, p, s.l, q, pi - 1)
        ELSE cat(h, p, q, s.r, pi)

(* A child and a separator from the left or right sibling, or the two pages *)
(* become one.  Returns the page and the index to go on with.               *)
underflowX(h, p, q, pi, i) ==
    LET s == siblings(h, p, pi)
        l == s.l
        r == s.r
        fromL == [Bump(h) EXCEPT !.pg[q].ch = <<Last(h.pg[l].ch)>> \o @,
                                 !.pg[q].sep = <<h.pg[p].sep[pi]>> \o @,
                                 !.pg[l].ch = Front(@), !.pg[l].sep = Front(@),
                                 !.pg[p].sep[pi] = Last(h.pg[l].sep)]
        fromR == [Bump(h) EXCEPT !.pg[q].ch = Append(@, Head(h.pg[r].ch)),
                                 !.pg[q].sep = Append(@, h.pg[p].sep[pi + 1]),
                                 !.pg[r].ch = Tail(@), !.pg[r].sep = Tail(@),
                                 !.pg[p].sep[pi + 1] = Head(h.pg[r].sep)]
    IN  IF l # 0 /\ Size(h, l) > kx THEN [h |-> fromL, q |-> q, i |-> i + 1]
        ELSE IF r # 0 /\ Size(h, r) > kx THEN [h |-> fromR, q |-> q, i |-> i]
        ELSE IF l # 0 THEN [h |-> catX(h, p, l, q, pi - 1), q |-> l, i |-> i + Size(h, l) + 1]
        ELSE [h |-> catX(h, p, q, r, pi), q |-> q, i |-> i]

RECURSIVE DeleteFrom(_, _, _, _, _)
DeleteFrom(h, p, q, pi, k) ==
    LET f == find(h, q, k)
        dp == h.pg[q].sep[f.i + 1]
        u == IF Size(h, q) < kx /\ q # h.r THEN underflowX(h, p, q, pi, f.i) ELSE [h |-> h, q |-> q, i |-> f.i]
        out == extract(h, q, f.i)
    IN  IF IsData(h, q) THEN
            IF ~f.ok THEN h
            ELSE IF Size(out, q) >= kd THEN out
            ELSE IF q # h.r THEN underflow(out, p, q, pi)
            ELSE IF out.c = 0 THEN Cleared ELSE out
        ELSE IF f.ok /\ Size(h, dp) > kd THEN extract(h, dp, 0)
        ELSE LET i == IF f.ok THEN u.i + 1 ELSE u.i
             IN  DeleteFrom(u.h, u.q, u.h.pg[u.q].ch[i + 1], i, k)

TreeDelete(h, k) == IF h.r = 0 THEN h ELSE DeleteFrom(h, 0, h.r, -1, k)

-----------------------------------------------------------------------------
(* Reading.                                                                 *)

Here(h, q, i) == h.pg[q].d[i + 1]

(* Where find leads: a data page, an index in it, and whether k is there.   *)
RECURSIVE SeekFrom(_, _, _)
SeekFrom(h, q, k) ==
    LET f == find(h, q, k)
    IN  IF IsData(h, q) THEN [q |-> q, i |-> f.i, ok |-> f.ok]
        ELSE IF f.ok THEN [q |-> h.pg[q].sep[f.i + 1], i |-> 0, ok |-> TRUE]
        ELSE SeekFrom(h, h.pg[q].ch[f.i + 1], k)

TreeGet(h, k) ==
    LET s == SeekFrom(h, h.r, k)
    IN  IF h.r = 0 \/ ~s.ok THEN None ELSE Here(h, s.q, s.i).v

(* An Enumerator; ver says whether its version is the tree's.               *)
Enumerator(hit, i, k, q) == [err |-> FALSE, hit |-> hit, i |-> i, k |-> k, q |-> q, ver |-> TRUE]

Seek(h, k) ==
    LET s == SeekFrom(h, h.r, k)
    IN  IF h.r = 0 THEN Enumerator(FALSE, 0, k, 0) ELSE Enumerator(s.ok, s.i, k, s.q)

SeekFirst(h) == IF h.first = 0 THEN None ELSE Enumerator(TRUE, 0, Here(h, h.first, 0).k, h.first)

SeekLast(h) ==
    LET i == Size(h, h.last) - 1
    IN  IF h.last = 0 THEN None ELSE Enumerator(TRUE, i, Here(h, h.last, i).k, h.last)

nextOnePage(h, en) ==
    IF en.q # 0 /\ en.i < Size(h, en.q) - 1 THEN [en EXCEPT !.i = @ + 1]
    ELSE [en EXCEPT !.q = 0, !.i = 0, !.err = TRUE]

next(h, en) ==
    IF en.q = 0 THEN [en EXCEPT !.err = TRUE]
    ELSE IF en.i < Size(h, en.q) - 1 THEN [en EXCEPT !.i = @ + 1]
    ELSE [en EXCEPT !.q = h.pg[en.q].n, !.i = 0, !.err = @ \/ h.pg[en.q].n = 0]

prev(h, en) ==
    LET p == h.pg[en.q].p
    IN  IF en.q = 0 THEN [en EXCEPT !.err = TRUE]
        ELSE IF en.i > 0 THEN [en EXCEPT !.i = @ - 1]
        ELSE IF p = 0 THEN [en EXCEPT !.q = 0, !.err = TRUE]
        ELSE [en EXCEPT !.q = p, !.i = Size(h, p) - 1]

Step(h, en, d) == IF d = "next" THEN next(h, en) ELSE prev(h, en)

(* A stale enumerator looks for its key again, and goes past it if the item *)
(* was returned before.                                                     *)
Renewed(h, en, found, d) == IF ~en.hit /\ found.hit THEN Step(h, found, d) ELSE found

(* The key at en, in a page or past its end, and the enumerator after it.   *)
PageEnd(h, en) == IF en.i >= Size(h, en.q) THEN next(h, en) ELSE en

Take(h, en, d) ==
    LET k == Here(h, en.q, en.i).k
    IN  IF en.err THEN [e |-> en, k |-> None] ELSE [e |-> Step(h, [en EXCEPT !.k = k, !.hit = FALSE], d), k |-> k]

Go(h, en, d) ==
    IF en.q = 0 THEN [e |-> [en EXCEPT !.err = TRUE], k |-> None] ELSE Take(h, PageEnd(h, en), d)

Resume(h, en, f, d) == IF f.err THEN [e |-> en, k |-> None] ELSE Go(h, f, d)

(* Next and Prev, which differ in the step they take.  They return the      *)
(* enumerator and the key, or None for io.EOF.                              *)
Advance(h, en, d) ==
    IF en.err THEN [e |-> en, k |-> None]
    ELSE IF en.ver THEN Go(h, en, d)
    ELSE Resume(h, en, Renewed(h, en, Seek(h, en.k), d), d)

-----------------------------------------------------------------------------
(* The pages of a subtree: the data pages from left to right, and the index *)
(* pages.                                                                   *)
RECURSIVE Leaves(_, _)
Leaves(h, q) ==
    IF IsData(h, q) THEN <<q>> ELSE FlattenSeq([i \in DOMAIN h.pg[q].ch |-> Leaves(h, h.pg[q].ch[i])])

RECURSIVE IndexPages(_, _)
IndexPages(h, q) ==
    IF IsData(h, q) THEN <<>>
    ELSE <<q>> \o FlattenSeq([i \in DOMAIN h.pg[q].ch |-> IndexPages(h, h.pg[q].ch[i])])

(* The same tree with its pages numbered in walk order; a pointer to a page *)
(* that is not in the tree becomes -1.                                      *)
Renumbered(h) ==
    LET order == IF h.r = 0 THEN <<>> ELSE Leaves(h, h.r) \o IndexPages(h, h.r)
        ref(q) == IF q = 0 THEN 0
                  ELSE IF Contains(order, q) THEN CHOOSE i \in DOMAIN order : order[i] = q ELSE -1
        refs(s) == [i \in DOMAIN s |-> ref(s[i])]
        page(q) == IF IsData(h, q) THEN [h.pg[q] EXCEPT !.n = ref(@), !.p = ref(@)]
                   ELSE [ch |-> refs(h.pg[q].ch), sep |-> refs(h.pg[q].sep)]
    IN  [pg |-> [i \in DOMAIN order |-> page(order[i])], r |-> ref(h.r),
         first |-> ref(h.first), last |-> ref(h.last), c |-> h.c, ver |-> FALSE]

Items(h) == IF h.r = 0 THEN <<>>
            ELSE FlattenSeq([i \in DOMAIN Leaves(h, h.r) |-> h.pg[Leaves(h, h.r)[i]].d])

Contents(h) ==
    LET items == Items(h)
    IN  [k \in {items[i].k : i \in DOMAIN items} |-> (CHOOSE item \in ToSet(items) : item.k = k).v]

Init ==
    /\ t = TreeNew /\ Abstract!Init
    /\ e = None /\ dir = None /\ got = <<>> /\ steady = {} /\ ended = "no"

(* A change of the tree; an increased version makes the enumerator stale.   *)
Become(h) ==
    /\ t' = Renumbered(h)
    /\ e' = IF e # None /\ h.ver THEN [e EXCEPT !.ver = FALSE, !.q = 0, !.i = 0] ELSE e
    /\ steady' = steady \cap DOMAIN map'
    /\ UNCHANGED <<dir, got, ended>>

Set(k, v) == Abstract!Set(k, v) /\ Become(TreeSet(t, k, v))

Delete(k) == Abstract!Delete(k) /\ Become(TreeDelete(t, k))

Clear == t.r # 0 /\ Abstract!Clear /\ Become(Cleared)

SeekEnd(d) ==
    /\ e = None
    /\ e' = (IF d = "next" THEN SeekFirst(t) ELSE SeekLast(t))
    /\ dir' = d /\ got' = <<>> /\ ended' = "no"
    /\ steady' = DOMAIN map
    /\ UNCHANGED <<t, map>>

Returned(a) ==
    /\ e' = a.e
    /\ got' = IF a.k = None THEN got ELSE IF got = <<>> THEN <<a.k>> ELSE <<Last(got), a.k>>
    /\ steady' = IF a.k = None THEN steady ELSE steady \ {a.k}
    /\ ended' = IF a.k = None THEN "eof" ELSE "no"
    /\ UNCHANGED <<t, map, dir>>

(* A call of Next or Prev.                                                  *)
Enumerate == e # None /\ Returned(Advance(t, e, dir))

(* The caller drops the enumerator.                                         *)
Drop ==
    /\ e # None
    /\ e' = None /\ dir' = None /\ got' = <<>> /\ steady' = {} /\ ended' = "no"
    /\ UNCHANGED <<t, map>>

Write == Clear \/ \E k \in Keys : Delete(k) \/ \E v \in Values : Set(k, v)

Spec == Init /\ [][Write]_vars

(* Enumerations while the tree changes.                                     *)
EnumNext == Write \/ (\E d \in {"next", "prev"} : SeekEnd(d)) \/ Enumerate \/ Drop

-----------------------------------------------------------------------------
RECURSIVE Depths(_, _)
Depths(h, q) ==
    IF IsData(h, q) THEN {0} ELSE {n + 1 : n \in UNION {Depths(h, h.pg[q].ch[i]) : i \in DOMAIN h.pg[q].ch}}

(* The B+tree's structure after every call: all data pages at one depth,    *)
(* pages within their capacity, every separator the first data page of the  *)
(* child to its right, and the keys in order.                               *)
Balanced ==
    t.r # 0 =>
        LET leaves == Leaves(t, t.r)
            pages == IndexPages(t, t.r)
            items == Items(t)
        IN  /\ \A m, n \in Depths(t, t.r) : m = n
            /\ \A q \in ToSet(leaves) : Size(t, q) \in (IF q = t.r THEN 1 ELSE kd)..(2 * kd)
            /\ \A q \in ToSet(pages) :
                  /\ Size(t, q) \in (IF q = t.r THEN 1 ELSE kx - 1)..(2 * kx + 1)
                  /\ \A i \in DOMAIN t.pg[q].sep : t.pg[q].sep[i] = Leaves(t, t.pg[q].ch[i + 1])[1]
            /\ \A i \in 2..Len(items) : items[i - 1].k < items[i].k

(* The list of data pages that an enumeration follows holds the pages of    *)
(* the tree, in both directions, and c counts the items.                    *)
Linked ==
    LET leaves == IF t.r = 0 THEN <<>> ELSE Leaves(t, t.r)
        at(i) == IF i \in DOMAIN leaves THEN leaves[i] ELSE 0
    IN  /\ t.first = at(1) /\ t.last = at(Len(leaves)) /\ t.c = Len(Items(t))
        /\ \A i \in DOMAIN leaves : t.pg[leaves[i]].n = at(i + 1) /\ t.pg[leaves[i]].p = at(i - 1)

(* After any calls the tree holds the items that a map would hold.          *)
IsMap == Contents(t) = map

(* Get returns the item that is in the list of data pages, if any: the      *)
(* separators lead to it.                                                   *)
GetFinds == \A k \in Keys : TreeGet(t, k) = IF k \in DOMAIN map THEN map[k] ELSE None

(* An enumeration upwards returns keys in order, whatever is set and        *)
(* deleted meanwhile.                                                       *)
NextAscends == dir = "next" /\ Len(got) = 2 => got[1] < got[2]

(* It returns io.EOF only after every key that was in the tree all the time.*)
NextComplete == dir = "next" /\ ended = "eof" => steady = {}
=============================================================================
