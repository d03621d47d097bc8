------------------------------ MODULE MCServer ------------------------------
(***************************************************************************)
(* One account that is promoted, demoted or deactivated beside the server. *)
(***************************************************************************)
EXTENDS Server

MCStandings ==
  { [role |-> "gis_analyst", active |-> TRUE],
    [role |-> "gis_analyst", active |-> FALSE],
    [role |-> "auditor",     active |-> TRUE] }
==============================================================================
