------------------------------- MODULE MCStore -------------------------------
(* A small instance of the collector and of the heap that it implements. *)
EXTENDS NamedHeap
=============================================================================
