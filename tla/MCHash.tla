------------------------------- MODULE MCHash -------------------------------
(***************************************************************************)
(* Four names, two pointers to one of them, two names with one hash.       *)
(***************************************************************************)
EXTENDS HashTable

MCKeys == {"a", "a2", "b", "c", "d"}
MCNames == {"a", "b", "c", "d"}
MCName == [k \in MCKeys |-> IF k = "a2" THEN "a" ELSE k]
MCHash == [a |-> 5, a2 |-> 5, b |-> 1, c |-> 6, d |-> 6]
MCPrimes == <<1, 2, 5>>
=============================================================================
