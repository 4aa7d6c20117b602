------------------------------ MODULE MCIngest ------------------------------
(***************************************************************************)
(* Two entities that can refer to each other: three batches in order of    *)
(* one content, or two batches in any order with two contents and origins. *)
(***************************************************************************)
EXTENDS Ingest
CONSTANTS x, y, plain, vector, refers, o1, o2
MCNames == <<x, y>>
MCKinds == {refers}
MCProps == {plain, vector}
MCEmbedding == {vector}
MCScopes ==
  {[props |-> {vector}, origins |-> {o1}, maxTs |-> 3, maxBatches |-> 3, inOrder |-> TRUE],
   [props |-> MCProps, origins |-> {o1, o2}, maxTs |-> 2, maxBatches |-> 2, inOrder |-> FALSE]}
=============================================================================
