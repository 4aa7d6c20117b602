----------------------------- MODULE MCFollower -----------------------------
(***************************************************************************)
(* Two operations, a log that is rewritten once.                           *)
(***************************************************************************)
EXTENDS Follower, TLC
CONSTANTS a, b
MCOps == {a, b}
=============================================================================
