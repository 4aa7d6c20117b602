---------------------------- MODULE MCPlasticity ----------------------------
(***************************************************************************)
(* Plasticity on a hub with two neighbours and a way back, and edges of    *)
(* two kinds from two sources, two of them observed later, one for the     *)
(* second time.                                                            *)
(***************************************************************************)
EXTENDS Plasticity

CONSTANTS rel, serves, clean, evil

Edge(src, dst, kind, origin) == [src |-> src, dst |-> dst, kind |-> kind, origin |-> origin]

MCEdges ==
  <<Edge(1, 2, serves, evil), Edge(2, 1, rel, clean), Edge(1, 3, serves, clean),
    Edge(1, 2, serves, evil)>>
MCNodes == 1 .. 3
MCKinds == {rel, serves}
MCFirstConfig == [rate |-> [k \in MCKinds |-> IF k = rel THEN 1 ELSE 0], setpoint |-> 100]
MCConfigs == {MCFirstConfig, [rate |-> [k \in MCKinds |-> 1], setpoint |-> 300]}
MCSeedSets == {<<1, 2>>}
MCCredits == {[n \in {1, 3} |-> 4]}
MCRewards == {-16}
=============================================================================
