---------------------------- MODULE MCIdemWrites ----------------------------
(***************************************************************************)
(* Two workers, one /ingest request and one /feedback request.             *)
(***************************************************************************)
EXTENDS IdemWrites
CONSTANTS w1, w2, ing, fb
TwoWorkers == {w1, w2}
Both == {ing, fb}
JustFeedback == {fb}
=============================================================================
