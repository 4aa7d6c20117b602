------------------------------- MODULE Ingest -------------------------------
(***************************************************************************)
(* What ingestion does to the graph: batches of entities (entity.rs) are   *)
(* translated to operations, applied, and, for a full snapshot, reconciled *)
(* with what is there (snapshot.rs).  The operations of a batch are        *)
(* journalled one by one: a crash in the middle leaves the first of them.  *)
(* A batch lists its entities in the order of a fixed sequence of names.   *)
(* Compaction and purge are not steps: the graph they rebuild is compared  *)
(* with the graph they start from, in every state (the last properties).   *)
(***************************************************************************)
EXTENDS TemporalGraph

CONSTANTS
  Names,       \* sequence of the names of entities
  Kinds,       \* kinds of edges
  Scopes       \* bounds of a model-checking run: sets of
               \*   props, origins  contents, and provenance labels, of entities
               \*   maxTs           last timestamp
               \*   maxBatches      batches ingested
               \*   inOrder         none is observed earlier than the ones before

ASSUME NamesAssumption == Names \in Seq(ToSet(Names)) /\ IsFiniteSet(Kinds)
ASSUME ScopesAssumption ==
  \A s \in Scopes :
    /\ s.props \subseteq Props /\ s.maxTs \in Nat \ {0} /\ s.maxTs < T_MAX
    /\ s.maxBatches \in Nat /\ s.inOrder \in BOOLEAN

VARIABLES
  scope,    \* the bounds of this behaviour
  g,        \* the graph
  clock,    \* latest timestamp ingested
  batches,  \* batches begun
  truth     \* the entities of the last batch, if it was a complete snapshot (history)

vars == <<scope, g, clock, batches, truth>>

\* An entity says what it is, where it comes from (its own label, or else the
\* batch's) and which edges it has to other entities.
Absent == [present |-> FALSE]
Entities(s, self) ==
  [present : {TRUE}, props : s.props, origin : s.origins,
   edges : SUBSET ((ToSet(Names) \ {self}) \X Kinds)]
Snapshots ==
  [s \in Scopes |->
     {b \in [ToSet(Names) -> UNION {Entities(s, n) : n \in ToSet(Names)} \cup {Absent}] :
        \A n \in ToSet(Names) : b[n] = Absent \/ b[n] \in Entities(s, n)}]

NoTruth == [n \in {} |-> Absent]
Asserted(b) == {n \in DOMAIN b : b[n].present}
AssertedEdges(b) == UNION {{<<n, e[1], e[2]>> : e \in b[n].edges} : n \in Asserted(b)}

\* entity_ops: the entity, and before each edge a placeholder for its target.
EntityOps(name, entity, ts) ==
  LET edges == SetToSeq(entity.edges)
  IN <<NodeOp(name, entity.props, ts, entity.origin)>>
       \o FlattenSeq([i \in DOMAIN edges |->
            <<PlaceholderOp(edges[i][1], ts, entity.origin),
              EdgeOp(name, edges[i][1], edges[i][2], ts, entity.origin)>>])

BatchOps(b, ts) ==
  FlattenSeq([i \in DOMAIN Names |->
    IF Names[i] \in Asserted(b) THEN EntityOps(Names[i], b[Names[i]], ts) ELSE <<>>])

\* Mutant of StaleEdgeOps: an edge is stale when its target is not asserted.
StaleEdgesByTarget(h, b, ts) ==
  LET seq == SetToSeq({i \in UNION {OpenOutEdges(h, n) : n \in Asserted(b)} :
                         h.edge[i].dst \notin Asserted(b)})
  IN [i \in DOMAIN seq |->
        RetireEdgeOp(h.edge[seq[i]].src, h.edge[seq[i]].dst, h.edge[seq[i]].kind, ts)]

\* Open edges of an observed source that the snapshot did not assert ...
StaleEdgeOps(h, b, ts) ==
  LET stale == {i \in UNION {OpenOutEdges(h, n) : n \in Asserted(b)} :
                  Triple(h.edge[i]) \notin AssertedEdges(b)}
      seq == SetToSeq(stale)
  IN [i \in DOMAIN seq |->
        RetireEdgeOp(h.edge[seq[i]].src, h.edge[seq[i]].dst, h.edge[seq[i]].kind, ts)]

\* ... and then live nodes that it did not assert.
StaleNodeOps(h, b, ts) ==
  LET seq == SetToSeq(StaleNodes(h, Asserted(b), ts))
  IN [i \in DOMAIN seq |-> RetireNodeOp(seq[i], ts)]

\* ingest_snapshot_ops.
SnapshotOps(h, b, ts, reconcile) ==
  LET observe == BatchOps(b, ts)
      h1 == ApplyAll(h, observe)
      edges == StaleEdgeOps(h1, b, ts)
      h2 == ApplyAll(h1, edges)
  IN IF reconcile THEN observe \o edges \o StaleNodeOps(h2, b, ts) ELSE observe

-----------------------------------------------------------------------------
Init == scope \in Scopes /\ g = EmptyGraph /\ clock = 1 /\ batches = 0 /\ truth = NoTruth

Timestamps == IF scope.inOrder THEN clock .. scope.maxTs ELSE 1 .. scope.maxTs

Tick(ts) ==
  /\ batches < scope.maxBatches
  /\ batches' = batches + 1
  /\ clock' = IF ts > clock THEN ts ELSE clock
  /\ UNCHANGED scope

\* A batch is ingested to its end.
IngestAll(b, ts, reconcile) ==
  /\ Tick(ts)
  /\ g' = ApplyAll(g, SnapshotOps(g, b, ts, reconcile))
  /\ truth' = IF reconcile THEN b ELSE NoTruth

\* The process dies within it: a restart replays the first n operations.
IngestCut(b, ts, reconcile) ==
  /\ Tick(ts)
  /\ LET ops == SnapshotOps(g, b, ts, reconcile) IN
       \E n \in 1 .. Len(ops) - 1 : g' = ApplyAll(g, SubSeq(ops, 1, n))
  /\ truth' = NoTruth

Next ==
  \E b \in Snapshots[scope], ts \in Timestamps, reconcile \in BOOLEAN :
    IngestAll(b, ts, reconcile) \/ IngestCut(b, ts, reconcile)

Spec == Init /\ [][Next]_vars

-----------------------------------------------------------------------------
TypeOK ==
  /\ clock \in 1 .. scope.maxTs /\ batches \in 0 .. scope.maxBatches
  /\ DOMAIN g.node \subseteq ToSet(Names)
  /\ \A n \in DOMAIN g.node :
       /\ g.node[n].placeholder \in BOOLEAN /\ g.node[n].versions # <<>>
       /\ \A v \in ToSet(g.node[n].versions) :
            v.props \in scope.props \cup {NullProps} /\ v.origin \in scope.origins \cup {NoOrigin}
  /\ \A i \in DOMAIN g.edge :
       g.edge[i].src \in DOMAIN g.node /\ g.edge[i].dst \in DOMAIN g.node

\* The open-edge index and the vector index are kept by hand beside the data
\* they index, by observation, retirement and reconciliation (graph.rs:548,
\* 438): the one holds every open edge and no closed one, at most one per
\* (src, dst, kind); the other every node whose current version has a vector.
IndexesAgree ==
  /\ \A i \in DOMAIN g.edge :
       IsOpen(g.edge[i]) <=>
         Triple(g.edge[i]) \in DOMAIN g.open /\ g.open[Triple(g.edge[i])] = i
  /\ g.embedded = {n \in OpenNodes(g) : Last(g.node[n].versions).props \in Embedding}

\* A traversal of the present never crosses to a node that is not there: an
\* edge is open only between two nodes that are, in the middle of a batch, too
\* (graph.rs:526, "close the node's open version and all its open edges").
OpenEdgeEndsLive ==
  \A e \in ToSet(g.edge) : IsOpen(e) => {e.src, e.dst} \subseteq OpenNodes(g)

\* Time travel is unambiguous: the versions of a node, and the edges of one
\* (src, dst, kind), follow each other in time ("ordered by observed_at",
\* graph.rs:91).
IntervalsOrdered ==
  /\ \A n \in DOMAIN g.node : LET v == g.node[n].versions IN
       /\ \A i \in DOMAIN v : v[i].from <= v[i].to
       /\ \A i, j \in DOMAIN v : i < j => v[i].to <= v[j].from
  /\ \A i, j \in DOMAIN g.edge :
       i < j /\ Triple(g.edge[i]) = Triple(g.edge[j]) => g.edge[i].to <= g.edge[j].from

\* The shape of the graph at any time, after any crash within a batch; the order
\* of intervals is that of observation.
WellFormed == TypeOK /\ OpenEdgeEndsLive /\ (scope.inOrder => IntervalsOrdered)

\* What a query as of time t answers: version_at and Edge::alive_at.
Alive(intervals, t) == {i \in ToSet(intervals) : i.from <= t /\ t < i.to}
AsOf(h, t) ==
  [nodes |-> UNION {{<<n, v.props>> : v \in Alive(h.node[n].versions, t)} : n \in DOMAIN h.node},
   edges |-> {Triple(e) : e \in Alive(h.edge, t)}]

\* Nothing that is ingested later changes what a query of an earlier time
\* answers: retirement and supersession end intervals, they never reach behind
\* the timestamp of their batch nor touch an interval that has ended.
PastIsFixed ==
  [][scope.inOrder => \A t \in 1 .. clock' - 1 : AsOf(g, t)' = AsOf(g, t)]_vars

\* "The snapshot is the truth" (snapshot.rs:9): after a complete one, the live
\* real nodes are those it asserted, with the contents it gave them, and of
\* their outgoing edges none is open that it did not assert, and each that it
\* asserted between two of them is.  One to a node that it did not assert holds
\* if a placeholder stands for that, but not if the node was there and is retired.
SnapshotIsTruth ==
  scope.inOrder /\ truth # NoTruth =>
    /\ {n \in OpenNodes(g) : ~g.node[n].placeholder} = Asserted(truth)
    /\ \A n \in Asserted(truth) :
         LET open == {Triple(g.edge[i]) : i \in OpenOutEdges(g, n)}
         IN /\ Last(g.node[n].versions).props = truth[n].props
            /\ open \subseteq AssertedEdges(truth)
            /\ \A e \in truth[n].edges : e[1] \in Asserted(truth) => <<n, e[1], e[2]>> \in open

Rebuilt(dropped) == ApplyAll(EmptyGraph, OpenStateOps(g, dropped))

\* Compaction (persist.rs:443) forgets history and nothing else: replaying the
\* compacted log gives a graph with the same present.
CompactionKeepsPresent == OpenView(Rebuilt({})) = OpenView(g)

\* Purging an origin (persist.rs:462) leaves none of its facts, does not
\* resurrect a purged node as the end of an edge, and keeps every open fact of
\* another origin that does not hang on a purged node.
PurgeIsExact ==
  \A o \in scope.origins :
    LET h == Rebuilt({o})
        gone == DroppedNodes(g, {o})
    IN /\ DOMAIN h.node = OpenNodes(g) \ gone
       /\ \A n \in DOMAIN h.node : Last(h.node[n].versions) = Last(g.node[n].versions)
       /\ ToSet(h.edge) =
            {e \in ToSet(g.edge) : IsOpen(e) /\ e.origin # o /\ {e.src, e.dst} \cap gone = {}}
       /\ h.embedded = g.embedded \ gone

\* A log that was rewritten, for either reason, says the same of the present.
RewriteIsExact == CompactionKeepsPresent /\ PurgeIsExact
=============================================================================
