------------------------------- MODULE Spread -------------------------------
(***************************************************************************)
(* Retrieval and credit of the plasticity layer (psyrag-core, lib.rs) as   *)
(* operators: activation spreads from the seeds along the edges, by hops,  *)
(* and leaves a trace of the edges that fired; credit for the nodes that   *)
(* were used flows back along the trace.                                   *)
(*                                                                         *)
(* Weights, activations and credits are integers in units of One, Full and *)
(* the credit for a hit; a share is rounded down.  An edge is its id.      *)
(***************************************************************************)
EXTENDS Integers, Sequences, FiniteSets, SequencesExt, FiniteSetsExt

CONSTANTS
  Nodes,         \* node ids: numbers
  EdgeTable,     \* by edge id: [src, dst, kind, origin]
  One,           \* the weight 1.0
  Full,          \* the activation of a seed
  FanN, FanD,    \* fan = FanN / FanD
  Epsilon,       \* activation_epsilon
  Depth,         \* depth
  TopK,          \* nodes returned
  GammaN, GammaD \* feedback_gamma = GammaN / GammaD

ASSUME SpreadAssumption ==
  /\ Nodes \subseteq Nat /\ IsFiniteSet(Nodes)
  /\ EdgeTable \in Seq(ToSet(EdgeTable))
  /\ \A i \in DOMAIN EdgeTable : EdgeTable[i].src \in Nodes /\ EdgeTable[i].dst \in Nodes
  /\ {One, Full, FanD, GammaD} \subseteq Nat \ {0}
  /\ {FanN, GammaN, Epsilon, Depth, TopK} \subseteq Nat

\* What h gives the elements of S, together.
SumOf(h, S) == MapThenSumSet(LAMBDA i : h[i], S)

Out(u, visible) == {i \in visible : EdgeTable[i].src = u}

Nothing == [n \in Nodes |-> 0]

\* Edge i carries what it carries of an outflow, unless that is too little.
Deliver(s, i, delta) ==
  LET v == EdgeTable[i].dst
  IN IF delta <= Epsilon THEN s
     ELSE [act      |-> [s.act EXCEPT ![v] = @ + delta],
           incoming |-> [s.incoming EXCEPT ![v] = @ + delta],
           fired    |-> Append(s.fired, [eid |-> i, delta |-> delta]),
           frontier |-> s.frontier,
           next     |-> IF s.act[v] = 0 THEN Append(s.next, v) ELSE s.next]

\* Of a node's activation an edge carries a part that grows with its weight; all
\* of them together, whose weight is the mass, never carry more than the fan.
Leaving(u, weight, visible) == SumOf(weight, Out(u, visible))
Carried(activation, weight, mass) == (activation * FanN * weight) \div (FanD * (One + mass))

\* A node of the frontier fires along its edges that are visible, in their order.
Fire(s, u, weight, visible) ==
  LET mass == Leaving(u, weight, visible)
  IN IF s.act[u] <= 0 \/ mass <= 0 THEN s
     ELSE MapThenFoldSet(LAMBDA i, t : Deliver(t, i, Carried(s.act[u], weight[i], mass)), s,
                         LAMBDA i : i, LAMBDA ids : Max(ids), Out(u, visible))

Hop(s, weight, visible) ==
  LET t == FoldLeft(LAMBDA x, u : Fire(x, u, weight, visible), [s EXCEPT !.next = <<>>], s.frontier)
  IN [t EXCEPT !.frontier = t.next]

\* What is sorted: a set by the pairs of an order.
Sorted(S, before) ==
  CHOOSE f \in [1 .. Cardinality(S) -> S] :
    \A i, j \in DOMAIN f : i < j => <<f[i], f[j]>> \in before

\* The TopK nodes, the most activated first, those with equal activation by id.
Top(act) ==
  LET before == {p \in Nodes \X Nodes :
                   act[p[1]] > act[p[2]] \/ (act[p[1]] = act[p[2]] /\ p[1] < p[2])}
      ranked == Sorted({n \in Nodes : act[n] > 0}, before)
  IN SubSeq(ranked, 1, IF Len(ranked) < TopK THEN Len(ranked) ELSE TopK)

\* spread(): what is activated, and by which firings.
Activated(seeds, weight, visible) ==
  FoldLeft(LAMBDA s, k : Hop(s, weight, visible),
           [act      |-> [n \in Nodes |-> IF n \in ToSet(seeds) THEN Full ELSE 0],
            incoming |-> Nothing, fired |-> <<>>, frontier |-> seeds, next |-> <<>>],
           [k \in 1 .. Depth |-> k])

\* The trace of it.
Spreading(seeds, weight, visible) ==
  LET end == Activated(seeds, weight, visible)
      top == Top(end.act)
  IN [fired    |-> end.fired,
      incoming |-> end.incoming,
      surfaced |-> [i \in DOMAIN top |-> [node |-> top[i], act |-> end.act[top[i]]]]]

Mass(trace) == SumOf([i \in DOMAIN trace.fired |-> trace.fired[i].delta], DOMAIN trace.fired)

-----------------------------------------------------------------------------
Total(surfaced) == SumOf([i \in DOMAIN surfaced |-> surfaced[i].act], DOMAIN surfaced)

\* Credit::Nodes, and Credit::Episodic by activation or uniform: by node.
NodeCredit(scores) == [n \in Nodes |-> IF n \in DOMAIN scores THEN scores[n] ELSE 0]
Share(x, trace, uniform) ==
  IF uniform THEN <<1, Len(trace.surfaced)>> ELSE <<x.act, Total(trace.surfaced)>>
EpisodeCredit(trace, reward, uniform) ==
  LET given == [x \in ToSet(trace.surfaced) |->
                  (reward * Share(x, trace, uniform)[1]) \div Share(x, trace, uniform)[2]]
  IN [n \in Nodes |-> SumOf(given, {x \in ToSet(trace.surfaced) : x.node = n})]

\* Nodes that were returned and got no credit lose some.
WithPenalty(trace, credit, penalty) ==
  [n \in Nodes |-> IF credit[n] = 0 /\ \E x \in ToSet(trace.surfaced) : x.node = n
                   THEN -penalty ELSE credit[n]]

Divided(credit, part, whole) == (credit * part) \div whole

\* Mutant of Backwards: in the order in which the edges fired.
Forwards(fired) == fired

Backwards(fired) == Reverse(fired)

\* assign_and_touch(): each edge that fired gets its share of the credit of the
\* node it fired into, and passes a part of that on to the node it came from.
\* What each edge gets, and which get something.
PassBack(s, f, incoming) ==
  LET e == EdgeTable[f.eid]
      r == Divided(s.credit[e.dst], f.delta, incoming[e.dst])
  IN IF s.credit[e.dst] = 0 THEN s
     ELSE [credit |-> [s.credit EXCEPT ![e.src] = @ + (GammaN * r) \div GammaD],
           r      |-> [s.r EXCEPT ![f.eid] = @ + r],
           edges  |-> s.edges \cup {f.eid}]
Assigned(trace, credit) ==
  FoldLeft(LAMBDA s, f : PassBack(s, f, trace.incoming),
           [credit |-> credit, r |-> [i \in 1 .. Len(EdgeTable) |-> 0], edges |-> {}],
           Backwards(trace.fired))

\* Its definition: the credit of a firing is its share of the credit of the node
\* it fired into, and of what that node's own firings, later on, have passed back.
Deserved(trace, credit) ==
  LET f == trace.fired
      Dst(i) == EdgeTable[f[i].eid].dst
      due[i \in 1 .. Len(f)] ==
        Divided(credit[Dst(i)]
                  + SumOf([j \in i + 1 .. Len(f) |-> (GammaN * due[j]) \div GammaD],
                          {j \in i + 1 .. Len(f) : EdgeTable[f[j].eid].src = Dst(i)}),
                f[i].delta, trace.incoming[Dst(i)])
  IN [e \in 1 .. Len(EdgeTable) |->
        SumOf(due, {i \in 1 .. Len(f) : f[i].eid = e})]
=============================================================================
