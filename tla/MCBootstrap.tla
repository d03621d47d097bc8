----------------------------- MODULE MCBootstrap -----------------------------
(***************************************************************************)
(* Two servers of one database; parcels, which are edited, and proposals,  *)
(* which are not.                                                          *)
(***************************************************************************)
EXTENDS Bootstrap

MCTables == <<"land_parcels", "boundary_proposals">>
MCEditable == {"land_parcels"}
MCSeeds == <<"surveyor", "admin">>
==============================================================================
