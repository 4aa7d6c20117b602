--------------------------- MODULE TemporalGraph ---------------------------
(***************************************************************************)
(* The temporal typed property graph (graph.rs) as a value, and what each  *)
(* journalled operation does to it.  A node is known by its name; it has   *)
(* versions, each with the interval in which it was true; an edge is an    *)
(* interval of its own, numbered in the order of creation.  T_MAX ends an  *)
(* interval that is still open.                                            *)
(*                                                                         *)
(* Data abstracted away: NodeIds (names identify nodes), types, the byte   *)
(* estimates and the name index.  Properties are model values: equal       *)
(* hashes are equal values; `Embedding' are those with a usable vector.    *)
(***************************************************************************)
EXTENDS Integers, Sequences, FiniteSets, SequencesExt

CONSTANTS
  Props,      \* contents of a node version
  Embedding,  \* those that carry an embedding
  NullProps,  \* content of a placeholder
  NoOrigin,   \* no provenance label
  T_MAX       \* end of an open interval, later than any timestamp

ASSUME PropsAssumption == Embedding \subseteq Props /\ NullProps \notin Props
ASSUME TimeAssumption == T_MAX \in Nat

EmptyGraph == [node |-> <<>>, edge |-> <<>>, open |-> <<>>, embedded |-> {}]

IsOpen(interval) == interval.to = T_MAX
HasOpenVersion(n) == n.versions # <<>> /\ IsOpen(Last(n.versions))
Triple(e) == <<e.src, e.dst, e.kind>>

\* open_version_mut, set to end at ts.
Closed(versions, ts) ==
  IF versions # <<>> /\ IsOpen(Last(versions))
  THEN [versions EXCEPT ![Len(versions)].to = ts]
  ELSE versions

Version(props, ts, origin) == [props |-> props, from |-> ts, to |-> T_MAX, origin |-> origin]

\* HashMap::insert
Inserted(f, x, v) == [y \in DOMAIN f \cup {x} |-> IF y = x THEN v ELSE f[y]]

\* A real observation upgrades a placeholder; nothing makes a placeholder of
\* a real node.
EnsureNode(g, name, placeholder) ==
  IF name \in DOMAIN g.node
  THEN [g EXCEPT !.node[name].placeholder = @ /\ placeholder]
  ELSE [g EXCEPT !.node = Inserted(@, name, [placeholder |-> placeholder, versions |-> <<>>])]

ObserveNode(g, name, props, ts, origin) ==
  LET h == EnsureNode(g, name, FALSE)
      n == h.node[name]
  IN IF HasOpenVersion(n) /\ Last(n.versions).props = props
     THEN h
     ELSE [h EXCEPT
            !.node[name].versions = Append(Closed(@, ts), Version(props, ts, origin)),
            !.embedded = IF props \in Embedding THEN @ \cup {name} ELSE @ \ {name}]

ObservePlaceholder(g, name, ts, origin) ==
  LET h == EnsureNode(g, name, TRUE)
  IN IF HasOpenVersion(h.node[name])
     THEN h
     ELSE [h EXCEPT !.node[name].versions = Append(@, Version(NullProps, ts, origin))]

\* Mutant of CloseEdges: the index of open edges is not told.
CloseEdgesUnindexed(g, ids, ts) ==
  [g EXCEPT
    !.edge = [i \in DOMAIN g.edge |->
                IF i \in ids THEN [g.edge[i] EXCEPT !.to = ts] ELSE g.edge[i]]]

CloseEdges(g, ids, ts) ==
  [g EXCEPT
    !.edge = [i \in DOMAIN g.edge |->
                IF i \in ids THEN [g.edge[i] EXCEPT !.to = ts] ELSE g.edge[i]],
    !.open = Restrict(@, DOMAIN @ \ {Triple(g.edge[i]) : i \in ids})]

\* Mutant of RetireNode: edges that have ended are ended once more.
RetireNodeAgain(g, name, ts) ==
  IF name \notin DOMAIN g.node THEN g
  ELSE LET h == CloseEdges(g, {i \in DOMAIN g.edge : name \in {g.edge[i].src, g.edge[i].dst}}, ts)
       IN [h EXCEPT !.node[name].versions = Closed(@, ts), !.embedded = @ \ {name}]

\* Mutant of RetireNode: only the outgoing edges are closed.
RetireNodeOutOnly(g, name, ts) ==
  IF name \notin DOMAIN g.node THEN g
  ELSE LET h == CloseEdges(g, {i \in DOMAIN g.edge : IsOpen(g.edge[i]) /\ name = g.edge[i].src}, ts)
       IN [h EXCEPT !.node[name].versions = Closed(@, ts), !.embedded = @ \ {name}]

RetireNode(g, name, ts) ==
  IF name \notin DOMAIN g.node THEN g
  ELSE LET touching == {i \in DOMAIN g.edge :
                          IsOpen(g.edge[i]) /\ name \in {g.edge[i].src, g.edge[i].dst}}
           h == CloseEdges(g, touching, ts)
       IN [h EXCEPT !.node[name].versions = Closed(@, ts), !.embedded = @ \ {name}]

PlaceholderIfAbsent(g, name, ts) ==
  IF name \in DOMAIN g.node THEN g ELSE ObservePlaceholder(g, name, ts, NoOrigin)

ObserveEdge(g, src, dst, kind, ts, origin) ==
  LET h == PlaceholderIfAbsent(PlaceholderIfAbsent(g, src, ts), dst, ts)
  IN IF <<src, dst, kind>> \in DOMAIN h.open
     THEN h
     ELSE [h EXCEPT
            !.edge = Append(@, [src |-> src, dst |-> dst, kind |-> kind, from |-> ts,
                                to |-> T_MAX, origin |-> origin]),
            !.open = Inserted(@, <<src, dst, kind>>, Len(h.edge) + 1)]

RetireEdge(g, src, dst, kind, ts) ==
  IF <<src, dst, kind>> \in DOMAIN g.open
  THEN CloseEdges(g, {g.open[<<src, dst, kind>>]}, ts)
  ELSE g

-----------------------------------------------------------------------------
(* The journalled operations: enum Op, and TemporalGraph::apply. *)

NodeOp(name, props, ts, origin) ==
  [op |-> "ObserveNode", name |-> name, props |-> props, ts |-> ts, origin |-> origin]
PlaceholderOp(name, ts, origin) ==
  [op |-> "ObservePlaceholder", name |-> name, ts |-> ts, origin |-> origin]
EdgeOp(src, dst, kind, ts, origin) ==
  [op |-> "ObserveEdge", src |-> src, dst |-> dst, kind |-> kind, ts |-> ts, origin |-> origin]
RetireNodeOp(name, ts) == [op |-> "RetireNode", name |-> name, ts |-> ts]
RetireEdgeOp(src, dst, kind, ts) ==
  [op |-> "RetireEdge", src |-> src, dst |-> dst, kind |-> kind, ts |-> ts]

Apply(g, o) ==
  CASE o.op = "ObserveNode"        -> ObserveNode(g, o.name, o.props, o.ts, o.origin)
    [] o.op = "ObservePlaceholder" -> ObservePlaceholder(g, o.name, o.ts, o.origin)
    [] o.op = "RetireNode"         -> RetireNode(g, o.name, o.ts)
    [] o.op = "ObserveEdge"        -> ObserveEdge(g, o.src, o.dst, o.kind, o.ts, o.origin)
    [] o.op = "RetireEdge"         -> RetireEdge(g, o.src, o.dst, o.kind, o.ts)

ApplyAll(g, ops) == FoldLeft(Apply, g, ops)

\* Node::version_at and alive_at.
AliveAt(n, t) == \E i \in DOMAIN n.versions : n.versions[i].from <= t /\ t < n.versions[i].to

\* The live, real nodes that a snapshot taken at ts did not assert.
StaleNodes(g, seen, ts) ==
  {name \in DOMAIN g.node \ seen : ~g.node[name].placeholder /\ AliveAt(g.node[name], ts)}

OpenOutEdges(g, src) == {i \in DOMAIN g.edge : IsOpen(g.edge[i]) /\ g.edge[i].src = src}

-----------------------------------------------------------------------------
(* PersistentGraph::open_state_ops: the operations that rebuild the open   *)
(* state, without what came from the origins in `dropped'.                 *)

OpenNodes(g) == {name \in DOMAIN g.node : HasOpenVersion(g.node[name])}
DroppedNodes(g, dropped) ==
  {name \in OpenNodes(g) : Last(g.node[name].versions).origin \in dropped}

OpenNodeOp(g, name) ==
  LET v == Last(g.node[name].versions)
  IN IF g.node[name].placeholder
     THEN PlaceholderOp(name, v.from, v.origin)
     ELSE NodeOp(name, v.props, v.from, v.origin)

OpenEdgeOp(e) == EdgeOp(e.src, e.dst, e.kind, e.from, e.origin)

\* Mutant of OpenStateOps: edges to a dropped node are kept.
OpenStateOpsDangling(g, dropped) ==
  LET nodes == SetToSeq(OpenNodes(g) \ DroppedNodes(g, dropped))
      kept(e) == IsOpen(e) /\ e.origin \notin dropped
  IN [i \in DOMAIN nodes |-> OpenNodeOp(g, nodes[i])]
       \o FlattenSeq([i \in DOMAIN g.edge |->
             IF kept(g.edge[i]) THEN <<OpenEdgeOp(g.edge[i])>> ELSE <<>>])

OpenStateOps(g, dropped) ==
  LET gone == DroppedNodes(g, dropped)
      nodes == SetToSeq(OpenNodes(g) \ gone)
      kept(e) == IsOpen(e) /\ e.origin \notin dropped /\ e.src \notin gone /\ e.dst \notin gone
  IN [i \in DOMAIN nodes |-> OpenNodeOp(g, nodes[i])]
       \o FlattenSeq([i \in DOMAIN g.edge |->
             IF kept(g.edge[i]) THEN <<OpenEdgeOp(g.edge[i])>> ELSE <<>>])

\* What a reader of the present sees.
OpenView(g) ==
  [nodes |-> {[name |-> n, placeholder |-> g.node[n].placeholder,
               version |-> Last(g.node[n].versions)] : n \in OpenNodes(g)},
   edges |-> {e \in ToSet(g.edge) : IsOpen(e)},
   embedded |-> g.embedded]
=============================================================================
