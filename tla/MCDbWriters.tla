---------------------------- MODULE MCDbWriters -----------------------------
(***************************************************************************)
(* Two or three workers on one database, one kind of small operation and   *)
(* one that does not fit the buffer.                                       *)
(***************************************************************************)
EXTENDS DbWriters, TLC
CONSTANTS o1, big, w1, w2, w3
MCOps == {o1, big}
MCBigOps == {big}
TwoWorkers == {w1, w2}
ThreeWorkers == {w1, w2, w3}
WorkerSymmetry == Permutations(ThreeWorkers)
=============================================================================
