----------------------------- MODULE MCTopology -----------------------------
(***************************************************************************)
(* A parcel and two neighbours with stored boundaries at a few marks of a  *)
(* line, and drafts with their sides at every place of it, on both lines,  *)
(* a little off them or out of the reach of a snap.                        *)
(***************************************************************************)
EXTENDS Topology
==============================================================================
