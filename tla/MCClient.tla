------------------------------ MODULE MCClient ------------------------------
(***************************************************************************)
(* Two requests in flight, which are interchangeable.                      *)
(***************************************************************************)
EXTENDS Client, TLC

Symmetry == Permutations(Slots)
==============================================================================
