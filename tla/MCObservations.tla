--------------------------- MODULE MCObservations ---------------------------
(***************************************************************************)
(* Observations of two parcels, moved by one account through requests in   *)
(* parallel; ids and workers are interchangeable.                          *)
(***************************************************************************)
EXTENDS Observations, TLC

Symmetry == Permutations(Workers) \cup Permutations(ObsIds) \cup Permutations(Parcels)
==============================================================================
