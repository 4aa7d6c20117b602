----------------------------- MODULE MCRegistry -----------------------------
(***************************************************************************)
(* Two databases, of which one or both can be open at a time.              *)
(***************************************************************************)
EXTENDS Registry, TLC
CONSTANTS main, other, w1, w2, e1, e2, e3
MCDbs == {main, other}
MCWorkers == {w1, w2}
MCEngines == {e1, e2, e3}
MCRequests ==
  {<<main, op>> : op \in {"read", "ingest"}}
    \cup {<<other, op>> : op \in {"create", "ingest", "touch", "feedback", "config", "drop"}}
OneOrTwo == {1, 2}
Symmetry == Permutations(MCWorkers) \cup Permutations(MCEngines)
=============================================================================
