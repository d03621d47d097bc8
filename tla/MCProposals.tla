----------------------------- MODULE MCProposals -----------------------------
(***************************************************************************)
(* A surveyor, a reviewer who may also hold an analyst's role (role        *)
(* changes take effect at the next request) and an administrator.          *)
(***************************************************************************)
EXTENDS Proposals, TLC

CONSTANTS author, reviewer, admin

MCRolesOf ==
  author :> {"surveyor"} @@ reviewer :> {"reviewer", "gis_analyst"}
    @@ admin :> {"admin"}

Symmetry == Permutations(Workers)
==============================================================================
