----------------------------- MODULE MCConflicts -----------------------------
(***************************************************************************)
(* Two people who may settle conflicts, one who may not.                   *)
(***************************************************************************)
EXTENDS Cadastre, TLC

CONSTANTS reviewer, admin, analyst

MCRolesOf == reviewer :> {"reviewer"} @@ admin :> {"admin"} @@ analyst :> {"gis_analyst"}
MCSourceOf == [c \in ConflictIds |-> CHOOSE p \in Proposals : TRUE]

Symmetry == Permutations(Workers) \cup Permutations(ConflictIds)
==============================================================================
