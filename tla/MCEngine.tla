------------------------------ MODULE MCEngine ------------------------------
(***************************************************************************)
(* A database of two edges and two traced retrievals.                      *)
(***************************************************************************)
EXTENDS Engine
=============================================================================
