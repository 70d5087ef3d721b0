------------------------------ MODULE MCSpace -------------------------------
(***************************************************************************)
(* Fresh space for two blocks, old space for three.                        *)
(***************************************************************************)
EXTENDS Space, TLC

Interchangeable == Permutations(Objects)
=============================================================================
