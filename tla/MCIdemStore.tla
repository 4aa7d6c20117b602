---------------------------- MODULE MCIdemStore ----------------------------
(***************************************************************************)
(* Three keys for a store of two, a log rewritten beyond three lines.      *)
(***************************************************************************)
EXTENDS IdemStore, TLC
CONSTANTS k1, k2, k3
MCKeys == {k1, k2, k3}
Sym == Permutations(MCKeys)
=============================================================================
