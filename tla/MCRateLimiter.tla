---------------------------- MODULE MCRateLimiter ----------------------------
(***************************************************************************)
(* Two clients whose requests wait for the lock up to a third of a window. *)
(***************************************************************************)
EXTENDS RateLimiter, TLC

Symmetry == Permutations(Workers) \cup Permutations(Clients)
==============================================================================
