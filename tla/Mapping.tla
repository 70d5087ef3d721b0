------------------------------ MODULE Mapping -------------------------------
(***************************************************************************)
(* What a hash table promises: a map from names to values.                 *)
(***************************************************************************)
CONSTANTS Names, Values, NULL

VARIABLES
  map,    \* what every name stands for, NULL for nothing
  last    \* the last call: what it was, its argument and its value

Called(op, n, v) == [op |-> op, name |-> n, val |-> v]

Init ==
  /\ map = [n \in Names |-> NULL]
  /\ last = NULL

Insert(n, v) ==
  /\ map' = [map EXCEPT ![n] = v]
  /\ last' = Called("insert", n, v)

Lookup(n) ==
  /\ last' = Called("lookup", n, map[n])
  /\ UNCHANGED map

Clear ==
  /\ map' = [n \in Names |-> NULL]
  /\ last' = NULL

Next ==
  \/ \E n \in Names : Lookup(n) \/ \E v \in Values : Insert(n, v)
  \/ Clear

Spec == Init /\ [][Next]_<<map, last>>
=============================================================================
