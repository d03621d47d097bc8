----------------------------- MODULE MCDetection -----------------------------
(***************************************************************************)
(* One request whose geometry yields a conflict and one that yields none.  *)
(***************************************************************************)
EXTENDS Detection, TLC

CONSTANTS overlapping, clean

MCFindingsOn == overlapping :> 2 @@ clean :> 0
==============================================================================
