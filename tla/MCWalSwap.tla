----------------------------- MODULE MCWalSwap ------------------------------
(***************************************************************************)
(* Two processes, two facts, a handful of files.                           *)
(***************************************************************************)
EXTENDS WalSwap, TLC
CONSTANTS p1, p2, f1, f2
TwoProcs == {p1, p2}
MCFacts == {f1, f2}
SwapSymmetry == Permutations(TwoProcs) \cup Permutations(MCFacts)
=============================================================================
