------------------------------ MODULE MCParcels ------------------------------
(***************************************************************************)
(* One parcel patched by parallel requests, and two racing for one code;   *)
(* parcels, codes, values and workers are interchangeable.                 *)
(***************************************************************************)
EXTENDS Parcels, TLC

Symmetry == Permutations(Workers) \cup Permutations(ParcelIds)
              \cup Permutations(Values) \cup Permutations(Codes)
==============================================================================
