------------------------------- MODULE MCWal --------------------------------
(***************************************************************************)
(* One handle at a time on one log, two kinds of small operation and one   *)
(* that does not fit the buffer.                                           *)
(***************************************************************************)
EXTENDS Wal
CONSTANTS o1, o2, big
MCOps == {o1, o2, big}
MCBigOps == {big}
=============================================================================
