------------------------------- MODULE Engine -------------------------------
(***************************************************************************)
(* One database of the server: the graph, its WAL, the columns of the      *)
(* plasticity layer, their sidecar file and the trace store, which are     *)
(* written one after the other.  An edge has a dense id, its position in   *)
(* the graph in memory, that a replay of a rewritten log changes, and a    *)
(* stable key (src, dst, kind, valid_from), that stays.  Traces name edges *)
(* by id, the sidecar by key.                                              *)
(*                                                                         *)
(* Handlers hold the write lock throughout: an action is a handler, or the *)
(* part of it up to the next write to another file.  A retrieval fires one *)
(* edge; the credit for it is the lesson that edge learns.  The WAL is the *)
(* graph that its replay gives (see Wal, Ingest); the server dying between *)
(* the renames of a compaction is in WalSwap.                              *)
(***************************************************************************)
EXTENDS Integers, Sequences, FiniteSets, SequencesExt, FiniteSetsExt

CONSTANTS
  Cap,            \* traces kept
  MaxLines,       \* lines of the trace log beyond which it is compacted
  DiskFails,      \* the disk may refuse writes
  MaxEdges,       \* bound: edges observed in a model-checking run
  MaxRetrievals   \* bound: traced retrievals in it

ASSUME LimitsAssumption ==
  /\ Cap \in Nat \ {0} /\ MaxLines \in Nat /\ MaxLines >= Cap /\ DiskFails \in BOOLEAN
  /\ MaxEdges \in Nat /\ MaxRetrievals \in Nat

VARIABLES
  graph,      \* edges in memory, in the order of their ids: [edge (its key), open]
  log,        \* the same, as a replay of the WAL would give it
  cols,       \* PlasticityLayer: [dead, lessons] by edge id
  sidecar,    \* the saved columns, by edge key
  traces,     \* TraceStore.map: by trace id, the retrieval and the edge id it fired
  next,       \* TraceStore.next
  lines,      \* TraceStore.lines
  file,       \* the trace log
  wedged,     \* Engine.wedged
  poisoned,   \* a thread panicked with the write lock
  step,       \* what a handler that has rewritten the log has still to write
  born,       \* edges observed so far; their keys are 1 .. born (history)
  retrieved,  \* retrievals so far: edge fired, and trace id, 0 if not answered (history)
  credited,   \* credits answered 200: <<retrieval, edge that learned>> (history)
  exposed     \* stored traces may name edges by ids of another numbering (history)

store == <<traces, next, lines, file>>
history == <<born, retrieved, credited>>
vars == <<graph, log, cols, sidecar, store, wedged, poisoned, step, history, exposed>>

-----------------------------------------------------------------------------
\* Some numbers in their order, as a sequence.
Ascending(S) ==
  CHOOSE s \in [1 .. Cardinality(S) -> S] : \A i, j \in DOMAIN s : i < j => s[i] < s[j]

OpenEdges(g) == {g[i].edge : i \in {j \in DOMAIN g : g[j].open}}
Observed(g, e) == Append(g, [edge |-> e, open |-> TRUE])
Ended(g, es) == [i \in DOMAIN g |-> [g[i] EXCEPT !.open = @ /\ g[i].edge \notin es]]

\* open_state_ops, replayed: the open edges, numbered anew.
Rewritten(g, dropped) ==
  LET kept == Ascending({i \in DOMAIN g : g[i].open /\ g[i].edge \notin dropped})
  IN [n \in DOMAIN kept |-> g[kept[n]]]

\* PlasticityLayer::sync, save, and load_if_exists or restore_keys.
Fresh == [dead |-> FALSE, lessons |-> {}]

\* Mutant of Synced: columns are added on the next load only.
Unsynced(c, g) == c

Synced(c, g) == c \o [i \in 1 .. Len(g) - Len(c) |-> Fresh]

Saved(g, c) ==
  [k \in {g[i].edge : i \in DOMAIN c} |-> c[CHOOSE i \in DOMAIN c : g[i].edge = k]]

\* Mutant of Loaded: columns are taken by position.
LoadedByPosition(g, s) ==
  LET ks == Ascending(DOMAIN s)
  IN [i \in DOMAIN g |-> IF i \in DOMAIN ks THEN s[ks[i]] ELSE Fresh]

Loaded(g, s) == [i \in DOMAIN g |-> IF g[i].edge \in DOMAIN s THEN s[g[i].edge] ELSE Fresh]

SaveSidecar == sidecar' = Saved(graph', cols')

-----------------------------------------------------------------------------
(* The trace log: a line holds a trace, or nothing that parses.            *)

Line(id, t) == [id |-> id, trace |-> t, nl |-> TRUE]
NoTrace == [r |-> 0, pos |-> 0]
Garbled(nl) == [id |-> 0, trace |-> NoTrace, nl |-> nl]

\* What is appended behind a line without newline becomes part of that line.
Written(f, line) ==
  IF f # <<>> /\ ~Last(f).nl THEN Append(Front(f), Garbled(line.nl)) ELSE Append(f, line)

GoodLines(f) == {i \in DOMAIN f : f[i].id # 0}

\* The map keeps the newest ids.
Newest(m) == [id \in {i \in DOMAIN m : Cardinality({j \in DOMAIN m : j > i}) < Cap} |-> m[id]]

\* A trace goes into the map.
Inserted(m, id, t) == [i \in DOMAIN m \cup {id} |-> IF i = id THEN t ELSE m[i]]

\* TraceStore::open.
ReplayedMap(f) ==
  Newest([id \in {f[i].id : i \in GoodLines(f)} |-> f[CHOOSE i \in GoodLines(f) : f[i].id = id].trace])
ReplayedNext(f) == Max({f[i].id : i \in DOMAIN f} \cup {0}) + 1

\* Mutant of LinesOf: the newest trace is forgotten.
LinesOfOlder(m) ==
  LET ids == Ascending(DOMAIN m) IN [i \in 1 .. Len(ids) - 1 |-> Line(ids[i], m[ids[i]])]

\* TraceStore::compact rewrites the log to what the map has.
LinesOf(m) ==
  LET ids == Ascending(DOMAIN m) IN [i \in DOMAIN ids |-> Line(ids[i], m[ids[i]])]

-----------------------------------------------------------------------------
Init ==
  /\ graph = <<>> /\ log = <<>> /\ cols = <<>> /\ sidecar = <<>>
  /\ traces = <<>> /\ next = 1 /\ lines = 0 /\ file = <<>>
  /\ wedged = FALSE /\ poisoned = FALSE /\ step = "idle"
  /\ born = 0 /\ retrieved = <<>> /\ credited = {} /\ exposed = FALSE

Serving == step = "idle" /\ ~poisoned
Writing == Serving /\ ~wedged

\* What /ingest does to a graph: an edge appears, or one ends.
Changes ==
  {[op |-> "observe", edge |-> e] : e \in {born + 1} \cap 1 .. MaxEdges}
    \cup {[op |-> "end", edge |-> e] : e \in OpenEdges(graph)}
Changed(g, c) == IF c.op = "observe" THEN Observed(g, c.edge) ELSE Ended(g, {c.edge})
Counted(c) == born' = IF c.op = "observe" THEN born + 1 ELSE born

Ingest(c) ==
  /\ Writing
  /\ graph' = Changed(graph, c) /\ log' = Changed(log, c)
  /\ cols' = Synced(cols, graph') /\ Counted(c)
  /\ UNCHANGED <<sidecar, store, wedged, poisoned, step, retrieved, credited, exposed>>

\* The WAL refuses: the batch is in memory, perhaps it will be in the log; the
\* early return leaves the layer as it was.
IngestFails(c) ==
  /\ Writing /\ DiskFails
  /\ graph' = Changed(graph, c) /\ (log' = Changed(log, c) \/ UNCHANGED log)
  /\ wedged' = TRUE /\ Counted(c)
  /\ UNCHANGED <<cols, sidecar, store, poisoned, step, retrieved, credited, exposed>>

\* TraceStore::put of a trace that fired the edge with id i: appended and
\* fsynced, then kept in memory; a long log is compacted, or that fails.
Put(i) ==
  LET t == [r |-> Len(retrieved) + 1, pos |-> i]
      written == Written(file, Line(next, t))
      Answered(id) == retrieved' = Append(retrieved, [edge |-> graph[i].edge, id |-> id])
  IN /\ next' = next + 1
     /\ \/ /\ traces' = Newest(Inserted(traces, next, t))
           /\ \/ /\ lines < MaxLines
                 /\ file' = written /\ lines' = lines + 1 /\ Answered(next)
              \/ /\ lines >= MaxLines
                 /\ file' = LinesOf(traces') /\ lines' = Len(file') /\ Answered(next)
              \/ /\ lines >= MaxLines /\ DiskFails
                 /\ file' = written /\ lines' = lines + 1 /\ Answered(0)
        \/ /\ DiskFails
           /\ file' \in {file, written, Written(file, Garbled(FALSE)),
                         Written(file, [Line(next, t) EXCEPT !.nl = FALSE])}
           /\ Answered(0)
           /\ UNCHANGED <<traces, lines>>

\* /retrieve with a trace fires an edge, open or not (as of an earlier time).
Retrieve(i) ==
  /\ Serving /\ Len(retrieved) < MaxRetrievals
  /\ i \in DOMAIN cols /\ ~cols[i].dead
  /\ Put(i)
  /\ UNCHANGED <<graph, log, cols, sidecar, wedged, poisoned, step, born, credited, exposed>>

\* The spread reads the column of an edge that has none: out of bounds.
RetrievePanics ==
  /\ Serving /\ DOMAIN graph # DOMAIN cols
  /\ poisoned' = TRUE
  /\ UNCHANGED <<graph, log, cols, sidecar, store, wedged, step, history, exposed>>

SaveFails == DiskFails /\ UNCHANGED sidecar

\* Mutant of Feedback: the credit is answered before the sidecar is saved.
FeedbackUnsaved(r) ==
  /\ Writing /\ retrieved[r].id \in DOMAIN traces
  /\ LET i == traces[retrieved[r].id].pos
         learns == i \in DOMAIN cols /\ ~cols[i].dead
     IN /\ cols' = IF learns THEN [cols EXCEPT ![i].lessons = @ \cup {r}] ELSE cols
        /\ credited' = credited \cup IF learns THEN {<<r, graph[i].edge>>} ELSE {}
  /\ UNCHANGED <<graph, log, sidecar, store, wedged, poisoned, step, born, retrieved, exposed>>

\* /feedback with the trace id that retrieval r was answered: the edge that the
\* trace names now learns, unless it is pruned or there is none of that id.
Feedback(r) ==
  /\ Writing /\ retrieved[r].id \in DOMAIN traces
  /\ LET i == traces[retrieved[r].id].pos
         learns == i \in DOMAIN cols /\ ~cols[i].dead
     IN /\ cols' = IF learns THEN [cols EXCEPT ![i].lessons = @ \cup {r}] ELSE cols
        /\ UNCHANGED graph
        /\ \/ /\ SaveSidecar
              /\ credited' = credited \cup IF learns THEN {<<r, graph[i].edge>>} ELSE {}
           \/ SaveFails /\ UNCHANGED credited
  /\ UNCHANGED <<log, store, wedged, poisoned, step, born, retrieved, exposed>>

\* /consolidate, /sleep and their scheduled runs: edges are pruned, and those
\* that contradict stronger ones may be ended, as an operation of the log.
Consolidate(pruned, superseded) ==
  /\ Writing
  /\ cols' = [i \in DOMAIN cols |-> [cols[i] EXCEPT !.dead = @ \/ i \in pruned]]
  /\ graph' = Ended(graph, superseded)
  /\ \/ log' = Ended(log, superseded) /\ (SaveSidecar \/ SaveFails) /\ UNCHANGED wedged
     \/ /\ superseded # {} /\ DiskFails
        /\ log' \in {log, Ended(log, superseded)} /\ wedged' = TRUE
        /\ UNCHANGED sidecar
  /\ UNCHANGED <<store, poisoned, step, history, exposed>>

\* Shutdown saves the sidecars of all databases, wedged or not.
FlushAll ==
  /\ Serving
  /\ UNCHANGED <<graph, cols>> /\ SaveSidecar
  /\ UNCHANGED <<log, store, wedged, poisoned, step, history, exposed>>

\* /checkpoint, also scheduled: the log is rewritten, the graph in memory stays.
Checkpoint ==
  /\ Writing
  /\ log' = Rewritten(graph, {}) /\ step' = "save"
  /\ UNCHANGED <<graph, cols, sidecar, store, wedged, poisoned, history, exposed>>

\* /purge: the log is rewritten without some facts, memory is rebuilt from it,
\* and the columns are carried over by key.
Purge(dropped) ==
  /\ Writing
  /\ log' = Rewritten(graph, dropped) /\ graph' = log'
  /\ cols' = Loaded(graph', Saved(graph, cols))
  /\ step' = "save"
  /\ UNCHANGED <<sidecar, store, wedged, poisoned, history, exposed>>

RewriteFails ==
  /\ Writing /\ DiskFails
  /\ wedged' = TRUE
  /\ UNCHANGED <<graph, log, cols, sidecar, store, poisoned, step, history, exposed>>

\* Both go on with the sidecar; an error ends them here (a scheduled checkpoint
\* then wedges the database).
SaveAfterRewrite ==
  /\ step = "save"
  /\ UNCHANGED <<graph, cols>>
  /\ \/ SaveSidecar /\ step' = "clear" /\ UNCHANGED <<wedged, exposed>>
     \/ /\ SaveFails /\ step' = "idle"
        /\ wedged' \in BOOLEAN
        /\ exposed' = (exposed \/ DOMAIN traces # {} \/ GoodLines(file) # {})
  /\ UNCHANGED <<log, store, poisoned, history>>

\* TraceStore::clear: first the map, then the file.
ClearTraces ==
  /\ step = "clear" /\ step' = "idle"
  /\ traces' = <<>> /\ lines' = 0
  /\ \/ file' = <<>> /\ UNCHANGED <<wedged, exposed>>
     \/ /\ DiskFails /\ UNCHANGED file
        /\ wedged' \in BOOLEAN
        /\ exposed' = (exposed \/ GoodLines(file) # {})
  /\ UNCHANGED <<graph, log, cols, sidecar, next, poisoned, history>>

\* The process is killed, or the database is evicted, and is opened again.
Reopen ==
  /\ graph' = log /\ cols' = Loaded(log, sidecar)
  /\ traces' = ReplayedMap(file) /\ next' = ReplayedNext(file) /\ lines' = Len(file)
  /\ wedged' = FALSE /\ poisoned' = FALSE /\ step' = "idle"
  /\ exposed' = \/ exposed
                \/ GoodLines(file) # {} /\ (graph # log \/ step # "idle")
                \/ \E r \in DOMAIN retrieved : retrieved[r].id >= next'
  /\ UNCHANGED <<log, sidecar, file, history>>

Next ==
  \/ \E c \in Changes : Ingest(c) \/ IngestFails(c)
  \/ \E i \in DOMAIN graph : Retrieve(i)
  \/ RetrievePanics
  \/ \E r \in DOMAIN retrieved : Feedback(r)
  \/ \E pruned \in SUBSET DOMAIN cols, superseded \in SUBSET OpenEdges(graph) :
       Consolidate(pruned, superseded)
  \/ \E dropped \in SUBSET OpenEdges(graph) : Purge(dropped)
  \/ Checkpoint \/ RewriteFails \/ SaveAfterRewrite \/ ClearTraces
  \/ FlushAll \/ Reopen

Spec == Init /\ [][Next]_vars

-----------------------------------------------------------------------------
GraphOK(g) ==
  /\ \A i \in DOMAIN g : g[i].edge \in 1 .. born /\ g[i].open \in BOOLEAN
  /\ \A i, j \in DOMAIN g : i # j => g[i].edge # g[j].edge
ColumnOK(c) == c.dead \in BOOLEAN /\ c.lessons \subseteq DOMAIN retrieved

TypeOK ==
  /\ GraphOK(graph) /\ GraphOK(log) /\ Len(cols) <= Len(graph)
  /\ \A i \in DOMAIN cols : ColumnOK(cols[i])
  /\ DOMAIN sidecar \subseteq 1 .. born /\ \A k \in DOMAIN sidecar : ColumnOK(sidecar[k])
  /\ Cardinality(DOMAIN traces) <= Cap /\ \A id \in DOMAIN traces : id \in 1 .. next - 1
  /\ \A i \in DOMAIN file : file[i].id \in Nat /\ file[i].nl \in BOOLEAN
  /\ lines \in Nat /\ born \in 0 .. MaxEdges /\ Len(retrieved) <= MaxRetrievals
  /\ wedged \in BOOLEAN /\ poisoned \in BOOLEAN /\ exposed \in BOOLEAN
  /\ step \in {"idle", "save", "clear"}

\* Deferred credit is learned by the edge that was retrieved, whatever was
\* purged, pruned, compacted, evicted and restarted in between - unless stored
\* traces were left with the edge ids of an earlier numbering, or trace ids
\* were given out again (engine.rs:356).
CreditLands ==
  ~exposed => \A i \in DOMAIN cols : \A r \in cols[i].lessons : graph[i].edge = retrieved[r].edge

\* "A 2xx from a mutating endpoint means the change is on disk" (serve.rs:9):
\* what an edge has learned stays learned while the edge is there, in memory
\* and on disk, through renumbering and restarts.
CreditKept ==
  \A c \in credited :
    /\ c[2] \in OpenEdges(log) => c[2] \in DOMAIN sidecar /\ c[1] \in sidecar[c[2]].lessons
    /\ \A i \in DOMAIN graph :
         graph[i].edge = c[2] => i \in DOMAIN cols /\ c[1] \in cols[i].lessons

\* "A trace_id the server hands out must actually be redeemable after a
\* restart" (engine.rs:286): what the map has of the traces that were answered,
\* the file has, but for one behind each torn append: that one is glued to it.
TracesOnDisk ==
  LET Answered == {id \in DOMAIN traces : retrieved[traces[id].r].id = id}
      OnDisk(id) == \E i \in DOMAIN file : file[i].id = id /\ file[i].trace = traces[id]
  IN Cardinality({id \in Answered : ~OnDisk(id)})
       <= Cardinality({i \in DOMAIN file : file[i].id = 0 /\ file[i].nl})

\* Every edge that a reader can reach has a column, unless the WAL has failed.
ColumnsCover == ~wedged => DOMAIN cols = DOMAIN graph

\* The shape of the engine at every step: no reader panics on an edge without column.
WellFormed == TypeOK /\ ColumnsCover
=============================================================================
