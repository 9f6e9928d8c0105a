----------------------------- MODULE SortedMap -----------------------------
(* What internal/b promises to the memTable: a map with Set, Delete and     *)
(* Clear.                                                                   *)
EXTENDS Integers

CONSTANTS Keys, Values

VARIABLE map    (* a function from the keys in the map to their values      *)

Init == map = <<>>

Set(k, v) == map' = [x \in DOMAIN map \cup {k} |-> IF x = k THEN v ELSE map[x]]

Delete(k) == map' = [x \in DOMAIN map \ {k} |-> map[x]]

Clear == map' = <<>>

Next == Clear \/ \E k \in Keys : Delete(k) \/ \E v \in Values : Set(k, v)

Spec == Init /\ [][Next]_map
=============================================================================
