------------------------------- MODULE MCHeap -------------------------------
(* Small instances of the collector for TLC. *)
EXTENDS HeapInv

Untainted == ~tainted
=============================================================================
