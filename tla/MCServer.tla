------------------------------ MODULE MCServer ------------------------------
(* Three requests: two rows, a bad row between two good ones, and no JSON. *)
EXTENDS Server, TLC
CONSTANTS c1, c2, c3
Row(i) == [id |-> i, good |-> TRUE]
Bad(i) == [id |-> i, good |-> FALSE]
MCBatch ==
  (c1 :> <<Row(1), Row(2)>>) @@ (c2 :> <<Row(3), Bad(4), Row(5)>>) @@ (c3 :> <<Row(6)>>)
=============================================================================
