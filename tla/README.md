# PsyRag in TLA+

PsyRag (`src/`) is a memory server: a temporal property graph journalled to a
write-ahead log (crate `psyrag-graph`), a plasticity layer that learns edge
weights (`psyrag-core`), and an HTTP/MCP/CLI server around them (`psyrag`). This
directory specifies what makes it a *database*: what an acknowledged write is
worth when disks fill, processes die, requests are retried and logs are
compacted, and what the graph says about present and past after any history of
ingestion.

Every definition that stands for code is listed in `PROJECT.json` under `map`
with the lines it models.

## The system

| Part | State | Operations | Talks to |
|---|---|---|---|
| **WAL** `psyrag-graph/src/persist.rs`, `PersistentGraph` | file, flock, `BufWriter`, `TemporalGraph`, `wal_id`, `lsn` | `open` (lock, replay, repair), `record`, `flush`, `compact`, `purge`, `apply_shipped`, `reset_for_resync`, `Drop` | file system; every writer |
| **Temporal graph** `graph.rs` | nodes with versions, edges with intervals, open-edge index, adjacency, name index, embeddings | `apply` of five operations; queries as of a time, `diff`, traversals, `match_tokens`, `match_vector` | applied by the WAL |
| **Ingestion** `snapshot.rs`, `entity.rs`, `gcp.rs` | none of its own | a batch to operations; reconciliation of a full snapshot | records into the WAL |
| **Plasticity** `psyrag-core/src/lib.rs` | per edge: weight, last touch, salience, consolidated; homeostat; trust; config | `touch`, `retrieve`, `apply_credit`, `consolidate`, `sleep`, `sync`, `save`, `load_if_exists`, `snapshot_keys`/`restore_keys` | reads the graph; sidecar file |
| **Engine** `psyrag/src/engine.rs` | the two above, `TraceStore`, `IdemStore`, `wedged` | `save_sidecar`, `wedge`, NDJSON `put`/`open`/`compact` | sidecar, two NDJSON logs |
| **Server** `psyrag/src/serve.rs` | registry of `Db` (`RwLock<Engine>`, in-flight keys, rate window), stop flag | routes, write gate, idempotency, eviction, `drop_db`, shutdown, maintenance thread, follower thread | clients, engines, a primary |
| **MCP server** `psyrag/src/mcp/` | one engine under a mutex, recall window, ring of recent events | recall, credit on file touches, daily sleep | editor hooks by socket, stdio |
| **CLI** `psyrag/src/main.rs` | one engine for one command | the same operations, sequentially | the same files |

Workers of the server run concurrently; each database has one `RwLock`. Request
handling takes and drops that lock several times (wedged check, idempotency
lookup, handler, dedup record) and a mutex for the in-flight keys in between.
The maintenance and follower threads take the same lock. Different processes meet
only at the file system: the flock on the WAL and the names beside it.

What is hard here:

* *Crash and failure.* A batch reaches the disk in pieces; what is torn must be
  repaired, what was acknowledged must stay. A compaction replaces the file under
  its own writer. The sidecar, the dedup log and the trace log are saved after the
  WAL, each on its own.
* *Concurrency.* Decisions made under one lock are used under the next one.
* *Retries.* Clients repeat requests whose answer they did not get, or got as 5xx.
* *Order and time.* Batches carry timestamps; intervals are closed by later ones.
* *Redundancy.* Indexes beside the data, placeholders beside nodes, two log
  formats, edge ids that are dense in replay order and renumbered by compaction.

`PROJECT.json` lists each of these as a hazard at the line where it bites, with the
properties that watch it or the reason why none does.

What would make each part correct:

* WAL: acknowledged operations survive any failure, in order, as a prefix; every log
  the program can leave behind can be opened; replay is the graph in memory.
* WAL ownership: one writer, which appends to the file the next open reads.
* Graph: intervals ordered, indexes equal to what they index, no open edge to a dead
  node, the past immutable; compaction forgets only history, purge only its origin.
* Ingestion: after a complete snapshot the live graph is the snapshot.
* Write path: 2xx means on disk; one application per key; refusals leave no trace;
  a wedged database takes no writes; no key stays locked.
* Stores: an acknowledged record is found after restart, an id names one trace.
* Sidecar: saved state is never older than what was acknowledged, nor from another
  log, nor for other edges.
* Registry: one engine per database, none dropped while in use; what was acknowledged is
  found by whoever opens the database next, and it can be opened.
* Follower: its log is a prefix of what the primary has or had, and ends up equal to it.
* Plasticity: credit reaches the edges that earned it, forgetting spares what it
  promises to spare and is final, derived state follows the configuration.

## Modules

| Module | Models | Extends |
|---|---|---|
| `DurableLog` | the abstract log: a sequence, its acknowledged prefix, one operation in doubt | |
| `Wal` | one handle on one log: `BufWriter`, page cache, fsync, errors, kill, power loss, `open` | |
| `DbWriters` | HTTP workers, wedged check and write lock on top of `Wal` | `Wal` |
| `IdemWrites` | idempotent write requests: lookup, marker, handler, dedup record, release | |
| `IdemStore` | the log of final responses on disk: append, torn lines, window, capacity, replay, rewrite | |
| `WalSwap` | processes, names, inodes and flocks during open and compaction | |
| `TemporalGraph` | the graph as a value, the five operations, `open_state_ops` (no state machine) | |
| `Ingest` | batches, reconciliation and a crash inside a batch, over `TemporalGraph` | `TemporalGraph` |
| `Engine` | one database: graph, log, columns, sidecar and trace store, and the handlers that write them one after the other | |
| `Registry` | the databases of a server: opened, evicted, dropped, maintained, shut down, killed | |
| `Follower` | a standby that copies a primary's log by offset | |
| `Spread` | spreading activation, traces and credit, as operators (no state machine) | |
| `Plasticity` | the learning of one database: weights in integers, decay, pruning, trust, homeostat, restart | `Spread` |
| `WalProofs`, `IdemProofs`, `SwapProofs`, `RegistryProofs`, `FollowerProofs`, `PlasticityProofs`, `EngineProofs`, `IngestProofs` | theorems and proofs, see below | the module they are about, `TLAPS` (`WalProofs`: `DbWriters`; `IdemProofs`: `IdemWrites` and `IdemStore`) |
| `MCWal` ... `MCPlasticity` | constants of the model-checking runs | the module they name |

A definition whose comment says *Mutant of X* is a plausible bug of the code that X
translates; `PROJECT.json` says which property fails when it replaces X. Nothing
else uses it.

### Wal

An operation is a model value; a line of the file is `[op, nl]`: what it parses to
(`NoOp` for a bad checksum or bad JSON, `NoText` when it was cut within a multi-byte character and
is no UTF-8) and whether its newline is there. `file` is
what the operating system holds, `synced` how many lines fsync has covered, `buf`
and `nlPending` the `BufWriter`. `record` is five actions, because its system calls
differ: `Buffer` (fits: no call, cannot fail), `Spill` (buffer full: its content is
written first), `WriteThrough` (a line larger than the buffer is written directly),
`SpillFails`, `WriteThroughFails` (nothing, a part - which may end within a character - or all but
the newline of the line is in the file). `flush` is `Flush` or `FlushFails`, `Drop` is `Close`. `Drain` is
the flush that `flush_all` (shutdown) and `/wal/tail` make without asking whether the
database is wedged, which is how records of a failed batch reach the disk. `Crash`
covers kill and power loss: any prefix of the written bytes that contains the fsynced
ones survives. `Open` is replay with its repair: a bad last line is cut, a last line
without newline is owed one, a bad line elsewhere refuses the log (`Corrupt`) - and so does a last
line that is no UTF-8 (`EndsWithinCharacter`), because `read_line` into a `String` returns an error
for it before any repair (`persist.rs:348`).

That is a disagreement: `persist.rs:18` says that a torn final record is "never an error". A kill
while a batch is written, or a direct write that a full disk stops within a character, is enough
(names are journalled as UTF-8, unescaped), and the invariant *closed implies `CanOpen(file)`* fails
in three steps. `Openable` is what holds instead: no line but the last is ever bad, so that the log
opens as it is, or once that last line is cut off by hand, and nothing acknowledged is in it
(`AckedDurable`).

The other properties: `AckedDurable`, `ReplayIsGraph`, and `Abstract`, the
refinement of `DurableLog` under the mapping *log = the graph of the open handle, or
what the next open replays; doubt = the one line in the file that the graph does not
have*. The refinement also says precisely what a restart after a failed write may find:
a prefix of what readers saw, at least as long as what was acknowledged, or all of it
and the operation in doubt. It is *not* "exactly what was acked", as
`docs/deployment.md:108` and `engine.rs:24` have it: operations of the failed batch that
were buffered are written by `Drop` (`persist.rs:804`) and are found again.

### DbWriters

`Wal` composed with the workers of `serve.rs`. `Gate` is the wedged check under the
read lock (`serve.rs:1715`), `Acquire` the write lock in the handler (`serve.rs:1813`).
A write may fail, and wedge the database, between the two; the code does not ask again.
`WedgeHolds` says that the wedge lets through at most one batch per worker that was past the
gate (`FewStragglers`), and is sufficient otherwise (`SafeUnlessStraggler`). Run
`MCDbStraggler` is the acknowledged batch lost: the
straggler appends behind the torn line of the write that failed, its first operation
becomes part of that line, and its 200 is sent. With a second operation behind it the
log cannot be opened at all.

### IdemWrites

The write branch of `handle_db`, one action per critical section. Requests are keys,
their effect is counted in memory and on disk. `/ingest` stands for the handlers that
journal (WAL fsync, wedge on error), `/feedback` for those that change weights and save
the sidecar (no wedge, 500 after the change). Attempts are repeated at any time, any
number of workers, disk failures, restarts, and handlers that outlive the 60-second
marker. `AckedOnDisk` says what a 2xx is worth, `RefusedMeansUntouched` what an answer
is worth that the client must not repeat, `OneHandlerPerKey` that the marker serializes the
requests of a key until it expires.

A batch that was past the wedged check when the log failed is the straggler of `DbWriters`: here
it leaves any part of what is in memory on disk (`WalPartly`) and is answered 200 (`straggled`). Its
answer is recorded, too, so that a retry after the restart is told that it was done. `AckedOnDisk`
exempts these batches and no others; in particular what was acknowledged before the failure
stays. `MCIdem` reaches this by a duplicate of its batch, and the invariant without the exemption
fails there.

The README of the program promises that a key is never applied twice. It is, in five ways,
which `excused` records as they happen: the handler fails after it had an effect (a `/feedback`
whose 500 left its credit in memory, a batch whose fsync failed), the record of the response
cannot be written, the process dies between the handler and the record, a handler outlives its
marker, and - with nothing failing at all - a duplicate that asks for the record before it is
there and for the marker when it is gone: the lookup (`serve.rs:1737`) and the marker
(`serve.rs:1745`) are two critical sections. `OnceUnlessExcused` says that there is no other way.

### IdemStore

The file behind `idem` of `IdemWrites`. A line is the records it parses to, whether it is UTF-8,
and whether its newline is there; what is appended behind a line without one becomes part of it.
`put` is one step, under the database's lock: `PutAppends`, `PutCompacts` when the log has grown
long, `PutFails` when the append or the fsync fails and leaves any part of the line. `Kill` may
interrupt it, also when the log has just been written anew. `Open` reads up to the first line that is not UTF-8 (`lines().map_while`), drops
what has expired, and keeps the newest keys. Time is a number that passes at any moment.

`RetriesAnswered` is the promise in both directions. `StoredIsFound`: within the window, and
within the last `Cap` keys, a stored response is found. Two exemptions are the code's own:
`unsafe`, a record glued to a torn line or behind one that ends within a character, and `again`,
a key stored once more, which keeps its old place in the order (`engine.rs:172`) and may give
way early. `LastIsFound`: what is found is never older than the last that was stored.

### WalSwap

Directory entries, inodes and flocks. `open` is three steps (open by name, lock, replay
by name again), `rewrite_wal` six (create, lock, fill, rename aside, rename in, adopt),
each of which may fail or be the process's last; after a failed compaction no caller
writes again (`serve.rs:1980`, `serve.rs:754`, the CLI exits), which is the state
`wedged`. `exposed` records that an opener met a swap: it found no log between the
renames and created one, it locked an inode that a swap had moved away, or the removal
of the old log failed after the swap. `SafeUnlessExposed` says that nothing else goes
wrong, and `WriterOwnsLog` that a writer always holds the locks of the files it writes, and that,
unless exposed, the one it appends to is the one behind the name. The process that dies between the renames
(`persist.rs:607`, 608) is one of the exposed cases:
the next open creates an empty log and the database is empty, its content under
`.compact.old`, `.archive-*` and `.compact.tmp`, although `persist.rs:437` has it that "the old
log is intact until the final rename": `AckedInGraph` fails without the exemption, with one process
and one fact. The window in which another process can
take the name (`persist.rs:435` says there is none) is the same one: there `SingleWriter` fails.

### TemporalGraph and Ingest

Nodes are known by name (the journal is name-addressed), properties are model values,
`Embedding` those with a usable vector; types, byte estimates and the name index are left
out. `Apply` is `TemporalGraph::apply`; the operators are the methods behind it with the
index updates they make. `Ingest` enumerates whole batches: every subset of the entities,
contents and edges, complete (`IngestAll`) or cut by a crash after any operation
(`IngestCut`), reconciled or not. A snapshot's reconciliation is computed against the
graph its own observations have already changed, as in `snapshot.rs:75`.
`OpenStateOps` is what `compact` and `purge` journal; `Rebuilt` the replay of it.
Compaction and purge are not steps of `Ingest` (the server keeps the full graph in memory
after a compaction): `RewriteIsExact` compares, in every reachable
state, the graph with the one that a restart would find: compaction keeps the present, a purge
leaves every other fact that does not hang on a purged node.

`SnapshotIsTruth` stops short of one promise: an asserted edge need not be open if its target was
not asserted. A node that had a record once, was retired, and is referenced again
is alive but no placeholder (`graph.rs:354` never goes back), so the reconciliation of the
very snapshot that asserts the edge retires the target as a zombie and closes the edge.
`IntervalsOrdered`, `PastIsFixed` and `SnapshotIsTruth` need batches in the order of time: the
optional `ts` of a request lets a caller close a version before it began (`graph.rs:421`). The
indexes, the liveness of edge ends and the rewrites do not; `scope` holds the bounds of a
behaviour, so that one run has both kinds.

### Engine

An edge has an *id*, its position in the graph in memory, and a *key* (`stable_edge_key`),
which is what `edge` holds in the model. A replay of a rewritten log changes ids; traces name
edges by id, the sidecar by key, the columns of the plasticity layer by position. One
action is one handler under the write lock, or the part of it up to the next write to another
file, because each of these may fail or be the last: `Checkpoint` and `Purge` (log), then
`SaveAfterRewrite` (sidecar), then `ClearTraces` (trace log). `Put` is `TraceStore::put` with
its torn appends, the line glued to one, capacity and compaction; `Reopen` is a kill or an
eviction followed by `open_engine_at`. A credit is the number of the retrieval it is for, so that
a column that has learned it can be asked whether it belongs to the edge that was retrieved.

`CreditLands` holds unless `exposed`, which records how stored traces come to name ids of
another numbering:

* a checkpoint keeps the graph in memory and clears the traces, but every trace stored from then
  on has the old ids, and the next restart numbers the edges as the rewritten log has them;
  the same follows from edges of a failed batch, which are in memory and may not be in the log;
* the sidecar cannot be saved after the rewrite, so that the handler returns before the traces
  are cleared, or the trace log cannot be truncated;
* the process dies between the rewrite and the clearing;
* trace ids are counted on in memory across `clear()`, as `engine.rs:356` says, but a restart
  counts on from what the file holds (`engine.rs:268`), which is nothing: an id that a client
  still holds is given out again.

`CreditKept` is the durability of learning across all of it, `TracesOnDisk` that of trace ids
(a torn append costs one answered trace, which is glued to it),
`ColumnsCover` (a part of `WellFormed`) the precondition of every unchecked index into the layer.
It holds until the WAL fails: a failed `/ingest` leaves edges in memory for which `layer.sync` was
not called, and `RetrievePanics` is the next `/retrieve` that reaches one: out of bounds, under the
write lock, although the server promises that reads go on (`docs/reference.md:47`).

### Registry

Requests of several databases, from `route` to the answer. `resolve` asks the map twice, under its
read lock (`Receive`) and its write lock (`ResolveHit`, `ResolveRefused`, `ResolveOpens`), which
also evicts; `check_capacity` is `Capacity`, then rounds of `Evict`, then `Recheck`; the handlers
are what they do to the engine and to the directory. A request holds an `Arc` (`holds`), the
maintenance thread those of all databases (`maint`); an engine nobody holds is dropped, and its
buffer written (`Closing`). The directory is a record: the log, with its header on disk or not
yet; the sidecar, saved for this log or for another; `config.json`, torn or not. `drop_db` takes the
database out of the map, and then its files one by one, in any order. `Crash` may find all of it
half done.

`InUseIsOpen` says that the engine of a request is the one that the map has. `NothingLost` is what
a 2xx is worth: facts, lessons and quarantines on disk for the next open (`AckedFound`), and
touches, which `/touch` acknowledges without saving (`serve.rs:1862`), with the engine until it is
evicted or killed (`TouchKept`). `ReopensUnlessExposed`: what is closed can be opened. `exposed`
are the databases for which that fails: opened while their directory was being removed, killed
while `config.json` was being written, while the directory was being removed, or while the header of a new log
was still buffered and a sidecar with its id was not. The last one needs no unusual timing: `MCRegistryDies` is a
new database on which a scheduled task saves the sidecar, and a kill; the server then refuses to
start.

### Follower

One round of `follower_loop` per turn: `Probe` (length and last bytes of the own log), `Fetch`
(served by the primary under its lock; `FetchFails` when it is lost), then `Resync` and `Reset`,
or `Apply`, then perhaps the sidecar. Records are all of one length; the header is one, and names
the log. The primary writes, fails a write (its torn line is shipped, `serve.rs:1435`), restarts,
rewrites its log or is restored to an earlier state. Each disk operation of the standby may fail,
leaving a part of what was shipped; the process may be killed or stopped anywhere. `Cut` and
`Broken` are what a restart does with what an error left: a torn last line is cut off, a torn line
before the end refuses the log, and the standby is `down`. It takes two errors on top of each other,
so three faults, for a line to be torn before the end; the run has two, the theorems any number.

`CopyOfPrimary` is the promise of `serve.rs:804` as far as it goes: `overlooked` records that the
bytes compared agreed though the logs differ before them (a rewrite can do that), `glued` that an
error left bytes in the log that were not shipped for that place. `WellFormed` has the graph and the columns equal
to the log but after such an error, until the next resync or restart. `CatchesUp` is liveness: once
the primary is not stuck behind a torn line for ever, the standby ends up with its log and keeps
it, through every state that errors, kills and rewrites may have left behind - or it is `down`,
because the sidecar it had fetched names a log whose header a restart did not find.

### Spread and Plasticity

`Spread` is `spread()` and the walk of `apply_credit` as operators over integers: hop by hop, node
by node in the order of the frontier, edge by edge; a share is rounded down where the code has
`f32`. `Deserved` defines what the walk should give each firing, by recursion over later firings;
`CreditFollowsPaths` compares the two, on graphs with a cycle, for every state in which a trace is
made. The code's loops are folds over the same things in the same order, a sum is `SumOf`, and what is
sorted is the row that the order admits (`Sorted`). `Plasticity` is the layer under the requests that change it. What decays halves
(`exp(-lambda * scale * dt)` is `2^-(rate * scale * dt)`), columns are written lazily, at the time
the caller names, which may be earlier than the last. `Consolidate` is prune, renormalize and,
perhaps, resolve conflicts; `Sleep` downscales, prunes below a threshold that the quantile of
weights limits, and renormalizes.

`FiresAsAllowed` relates retrieval to liveness, trust and the exploration floor (an edge out of a seed
fires if the share it carries at the floor exceeds `activation_epsilon`, and none fires twice unless
a client names a seed twice), `DerivedIsCurrent`
rates, trust mask and setpoint to the configuration through every edit, ingestion and restart
(`outdated` follows the setpoint of before an edit into the sidecar, out of it again at a restart,
`lib.rs:1287`, and into the next one, until the next edit; it never looks at the homeostat).

What a request has done to the columns is saved at its end, and the save may fail (`TrySave`): the
client gets a 500 ("ran but not persisted", `serve.rs:1954`, 2171), the maintenance thread logs it
(`serve.rs:749`), memory keeps the change and the database is not wedged. `Resolve` journals the
ends of superseded edges first; when the log fails under one of them the request returns before the
save, with the database wedged and the weak edges pruned in memory only (`serve.rs:2150`). The ends
that were applied may or may not be found by the next open (`loose`). `unsaved` records the edges
that were pruned since the sidecar was last written or loaded: these a restart revives.
`ForgottenStays` says that it revives no others: pruning is final once any save has succeeded
after it, but for two edges of one key (ended and observed again at the same time), which share one
saved state. Every save and every journalling may fail in its run, where the property without
`unsaved` fails after a `Sleep` and a `Restart`. `ConflictsEnd` and
`SleepSpares` say what the two maintenance operations leave; the quantile's index is rounded to the
nearest, so of `n` edges a protected fraction `p` is `n*p + 1/2 - p` at least.

## Runs

| Run | Question | Bounds, and why they are enough |
|---|---|---|
| `MCWal` | Does one log keep its promises under every failure? | two small and one direct operation, buffer of 2, logs of 4: a full buffer, a spill that fails half-way and a torn line in front of, within and behind a batch all occur |
| `MCDbWriters` | What can pass the wedge, and is it enough? | three symmetric workers (two stragglers), logs of 3 |
| `MCDbStraggler` | *violation*: an acknowledged batch can be lost | two workers |
| `MCIdem` | Do acknowledgement, serialization and release survive every failure, and how is a key applied twice? | two workers, one request of each kind, two attempts each: a retry of each overlaps the original, its slow handler and its record |
| `MCIdemStore` | Is a stored response found, and the last one? | three symmetric keys for a store of two, a window of one, five calls, two faults: expiry, eviction, a rewrite and a torn line before and after it |
| `MCSwap` | Is there one writer, of the right file? | two symmetric processes, four files (two compactions overlapping with an open), two facts |
| `MCIngest` | Is the graph a temporal graph, the snapshot the truth, and a rewrite exact? | two entities, one kind of edge; three batches at three times (created, ended and ended again), or two batches of two contents and two origins in any order of time |
| `MCEngine` | Do learning and traces survive renumbering, failures and restarts? | two edges (so that one can take the other's id), two retrievals, one trace kept, compaction on every second put |
| `MCRegistry` | Is what is acknowledged found again, whatever is opened, evicted, dropped and killed? | two databases of which one or two may be open, two symmetric workers and the maintenance thread, three engines, one write, a budget and a quota that one ingest exceeds |
| `MCRegistryDies` | *violation*: a server that does not start again | the same |
| `MCFollower` | Does the standby copy, serve and catch up? | two operations, logs of 3, an overlap of one record (so that a rewrite can agree with it), one rewrite, two faults |
| `MCPlasticity` | Do learning and forgetting do what they promise? | three nodes, two edges in a cycle, two that are observed later (a contradiction, and an edge that is observed again), two configurations, two times that may go back, a disk that may fail at any request, four requests: any two that disturb each other, with a setup and a restart |

Bounds are constants with a name (`MaxLog`, `MaxAttempts`, `MaxInode`, `Scopes`,
`MaxEdges`, `MaxRetrievals`, `MaxWrites`, `MaxFaults`, `MaxSteps` and so on); each appears in the guard of the action that would exceed it and in the type
invariant, nowhere else.
`CHECK_DEADLOCK FALSE` stands where such a bound ends every behaviour: attempts and
batches run out, or the last file is created while the name is missing, or a server is down that cannot start. `MCWal`,
`MCDbWriters` and `MCEngine` check for deadlock.

### Fairness

`MarkersReleased` needs weak fairness of `Serve(w)` per worker, i.e. a thread
that has a request goes on with it. The pool's threads are ordinary OS threads, handlers
do not wait for each other but for locks that are released on every path, so that a step
that stays enabled is taken. `CatchesUp` needs weak fairness of `Poll`, the loop of the standby's
thread, which sleeps and goes on whatever the last round returned, and strong fairness of `Fetch`:
a request that is repeated for ever is answered now and then. That the primary is restarted after
a write failed is not assumed but the premise of `CatchesUp`. Nothing is assumed of clients, kills or
time.

## Proofs

Eight modules prove theorems for every value of the constants: any number of workers, databases,
edges, retrievals, faults, restarts and so on. They restate no bound: where a model has one
(`MaxLog`, `MaxEdges`, ...), it is an arbitrary number.

| Module | Theorem | Says |
|---|---|---|
| `WalProofs` | `TypeCorrect`, `InductiveInvariant` | `Spec => []TypeOK`, `Spec => []IInv` |
| | `AckedSurvives` | `[]AckedDurable` |
| | `OpenableAgain` | `[]Openable` |
| | `ReplayGivesGraph` | `[]ReplayIsGraph` |
| | `LogImplementsAbstract` | `Spec => Abstract`: the log implements `DurableLog` |
| | `WedgeHoldsAlways` | `DbSpec => []WedgeHolds` |
| `IdemProofs` | `TypeCorrect` | `[]TypeOK` |
| | `AckedStaysOnDisk` | `[]AckedOnDisk` |
| | `DuplicatesSerialized` | `[]OneHandlerPerKey` |
| | `RefusalsAreClean` | `[]RefusedMeansUntouched` |
| | `DoubledOnlyIfExcused` | `[]OnceUnlessExcused` |
| | `StoreTypeAlways` | `StoreSpec => []StoreTypeOK` |
| | `RetriesAnsweredAlways` | `StoreSpec => []RetriesAnswered` |
| `SwapProofs` | `TypeCorrect` | `[]TypeOK` |
| | `SafeWhileUnexposed` | `[]SafeUnlessExposed` |
| | `WriterOwnsItsLog` | `[]WriterOwnsLog` |
| `RegistryProofs` | `TypeCorrect` | `[]TypeOK` |
| | `InUseStaysOpen` | `[]InUseIsOpen` |
| | `AnswersKept` | `[]NothingLost` |
| | `AlwaysReopens` | `[]ReopensUnlessExposed` |
| `FollowerProofs` | `CopiesPrimary` | `[]CopyOfPrimary` |
| | `ServesItsLog` | `[]WellFormed` |
| `PlasticityProofs` | `StaysCurrent` | `[]DerivedIsCurrent` |
| | `ForgettingIsFinal` | `Spec => ForgottenStays`, an action property |
| | `PlasticityTypeAlways` | `[]TypeOK` |
| | `FiresAsAllowedAlways` | `[]FiresAsAllowed` |
| | `CreditFollowsPathsAlways` | `[]CreditFollowsPaths` |
| | `ConflictsEndAlways` | `Spec => ConflictsEnd`, an action property |
| | `SleepSparesAlways` | `Spec => SleepSpares`, an action property |
| `EngineProofs` | `Invariant`, `ShapeHolds` | `[]IInv`, `[]WellFormed` |
| | `CreditLandsRight` | `[]CreditLands` |
| | `CreditStays` | `[]CreditKept` |
| | `TracesStayOnDisk` | `[]TracesOnDisk` |
| `IngestProofs` | `IndexesAgreeAlways` | `[]IndexesAgree` |
| | `WellFormedAlways` | `[]WellFormed` |
| | `SnapshotIsTruthAlways` | `[]SnapshotIsTruth` |
| | `PastIsFixedAlways` | `Spec => PastIsFixed`, an action property |
| | `RewriteIsExactAlways` | `[]RewriteIsExact` |

Each module begins with its inductive invariant; a lemma per action shows that it is preserved,
and what actions have in common is a lemma of its own. The conjuncts were first checked as
invariants of the module's run. None of the properties is inductive; why, and what is added:

* **Wal.** That no line but the last is bad after the next crash depends on what the file and the
  buffer hold *now*; what the next flush acknowledges depends on the buffer holding exactly what the graph
  has beyond the file. `IInv` adds `GoodLines(file)` (every line but the last is complete and holds
  an operation), `HandleInv` (while a handle is open, either `InStep` - file and buffer together are
  the graph, line by line - or `HalfWritten` - the handle has failed, the buffer is empty and the file
  has one line more) and that what was acknowledged is in the first, fsynced lines. A handle that is
  `HalfWritten` has only `Drain`, `Close` and `Crash` left: the argument for the wedge. For the
  refinement every action is mapped: what fits the buffer is a `DurableLog` append, what fails an
  append in doubt, a flush an acknowledgement, a crash the loss of a suffix.
* **DbWriters.** `LetIn`: nobody holds the write lock but by the gate, and who holds it on a failed
  handle came after the failure. `Counted`: those the gate let pass before it, but for the one that
  failed, are all that can still come, so at most one less than there are workers. Unless one of
  them came, the invariant of `Wal` holds, by the lemmas of `WalProofs`.
* **IdemWrites.** A 2xx is on disk because a handler's effect is (`SucceededOnDisk`) before it is
  answered, unless the handler ran on a wedged database, and no save writes less than what the disk has (`DiskInMemory`). The marker of a worker
  in the handler is its own until it expires (`MarkerHeld`). `EffectShown` ties an effect in memory to
  an answer that was given or to a worker that is about to give it, and `EffectRecorded`, for keys
  without an excuse, to the record: in the store, or in the hands of one worker while no other is
  past the lookup.
* **IdemStore.** What must be found must have a place: its record stands in the log, in front of
  only lines that can be read and only keys put later (`StoredIn`), and therefore in the map, behind
  which fewer than `Cap` others have been put (`HeldIn`). So it is not evicted, a reload reads it and
  keeps it, and a rewrite, which writes the map in its order, puts it back in the same place. That
  the last record of a key is the one found needs the other half: a record in the log or the map
  that is not the key's last one has a later one behind it (`LogLatest`, `MapLatest`, `Superseded`).
  The calls are in order of time (`CallsMade`), so what expires is always the older part.
* **Ingest.** `Good` holds of every graph that any operations make, in any order of time: the indexes
  agree with the data (`EdgesIndexed`, `NodesIndexed`), a live placeholder has no content, and an open
  edge has both ends (`EndsLive`), because retiring a node closes every open edge at it, in either
  direction. It is preserved by each of the five operations, hence by any prefix of a batch, hence
  by a crash. Batches in order add that nothing in the graph is later
  than the clock and that intervals follow each other (`GraphUpTo`, `GraphInOrder`), from which the
  past stays fixed. `SnapshotIsTruth` is not preserved by operations but made by a whole batch: its
  proof follows the reconciliation through the retirement of nodes and the closing of edges.
  `RewriteIsExact` has no invariant of its own: it is a theorem about the replay of `OpenStateOps` on
  every `Good` graph - nodes first, so that each edge finds its ends and no placeholder is
  made that the graph does not have.
* **WalSwap.** `Created` and `Locked` say which process holds which inode, `Placed` under which name
  it is at each step of a compaction, from which there is one owner (`OneOwner`), and `Kept` that the
  log, the owner's memory and, from its fsync on, the new log have every acknowledged fact - all but
  the first two while nothing is `exposed`.
* **Registry.** `InUse` is who holds what: an engine in the map per database, every `Arc` of a request
  or of the maintenance thread on an engine of the map, no other engine open. On it rest `Sound(d)`
  for each database that is not exposed: dropped as a whole (`DroppedWhole`), what was promised in
  the files and in the engine that would overwrite them (`Promised`), and log, sidecar and
  configuration of one making (`Matching`), for which two workers must never configure the same
  database (`OneConfigures`).
* **Follower.** `Heads` and `Headed` say what the first line of either log is, `Asked` and `Answered`
  what the probe and the answer on its way still say about the two logs, although the primary has
  moved on; without these the copy is not inductive. `GraphIsLog` needs what `OpsOf` gives for an
  appended log, by induction over its length.
* **Plasticity.** The tables and the sidecar keep their shape (`Tables`, `Sidecar`), and what is
  forgotten in memory is so in the sidecar (`Forgotten`), but for what no save has followed (`unsaved`):
  a save that succeeds writes all columns, one that fails adds what the request pruned. `SidecarIsCurrent`
  says the same of the setpoint.
  None of this, `IInv`, depends on the weights. `WInv` adds that what is in memory and in the sidecar
  weighs a natural number, nothing if it is dead (`WCols`, `WSaved`), that the homeostat is within its
  bounds (`WControl`), and that the stored trace is one that spreading can leave (`IsTrace`: every node
  that a firing reached has received something, so that no share is divided by zero). On it the operators
  of `Spread` are taken apart: `FireRuns` and `HopRuns` turn the folds into chains of states, along which
  `FireSpreads`, `FireWaits` and `HopSpreads` carry what has fired, what has received and who waits in the
  frontier. A node waits once and never again (`Waits`, `NoneTwice`), because it is put there only while
  its activation is 0, which never falls; hence no edge fires twice. What leaves a seed is delivered
  when the seed's turn comes, with the activation it has grown to by then (`GrowsOn`, `Leaves`). For
  credit, `PassRuns` gives the states of the walk back, in which each firing gets a share; these shares
  satisfy the recursion of `Deserved` (`GottenAreDue`), and only one function does (`OneIsDue`).
  `WinnerIs` and `SortedHas` say that a heaviest edge and a sorted row exist; `BelowFacts` is the
  arithmetic of the quantile's index.
* **Engine.** A credit must survive a restart at *any* moment, whose columns come from the sidecar and
  whose edges from the log. So `IInv` has that the log replays to no edge that memory lacks
  (`LogInGraph`), that what was credited is with its edge in memory and in the sidecar
  (`KeptInMemory`, `KeptOnDisk`, for edges that have ended too, since a purge may bring back no more
  than memory has), that lessons are their edge's in both (`LandsInMemory`, `LandsOnDisk`), and that a
  stored trace names its retrieval, and by its id the edge this one fired, but while a rewrite is
  between its log and its traces (`Named`). `Covered` is why the rewrites may trust positions. `LooseEnd`
  counts torn appends: the line to which the next one is glued was never answered.

Assumptions are those of the modules, which TLC evaluates in their runs: `NoOp` is no operation and the
buffer holds at least one (`Wal`); the pool has a worker (`serve.rs:587` takes at least one); requests
are those of the model and there are more engine identities than may be open, an identity being an
address that is free again (`Registry`); the primary's log has room for its header (`Follower`); at
least one trace is kept and the log of traces may be longer (`Engine`); names are a finite sequence
and kinds finitely many (the code numbers them in 32 bits, `graph.rs:118`), an embedding is a
property, and a timestamp is not 0 and lies before `T_MAX` (`Ingest`, `TemporalGraph`); window and
capacity are natural numbers (`IdemStore`); nodes are finitely many numbers that the edges run between,
clients' times lie before `T_MAX`, weights, rates and the homeostat's setpoint are not negative,
`lambda_scale` may reach 1 at least and the protected fraction is at most 1 (`Spread`, `Plasticity`).

What a recursive definition computes is proved from least elements: `Least` is the library's
`WFMin` on the natural numbers, `Induction` follows from it for a *set* of numbers, so that
no operator has to be instantiated. That is how sorted sequences (`AscendingHas`), logs
(`OpsOf`), the replay of a log of responses (`Loaded`), batches (`FlattenSeq`, and the fold that applies
one) and maxima are dealt with. The folds of the community modules are unfolded the same way
(`FoldExists`, `SumsOf`): a function on the subsets of a finite set that satisfies their definition
exists, so the one that `CHOOSE` takes satisfies it.

Every safety invariant and action property that a run checks is proved. Model-checked only are
`MarkersReleased` and `CatchesUp`: liveness, and the `ENABLED` in fairness.

## Assumptions and limits

* Power loss keeps a prefix of the bytes appended: the file system does not reorder the
  pages of an append. Renames are durable at once; `rewrite_wal` syncs the directory only on
  a best-effort basis.
* Lines are not bytes: a torn line is one that does not parse, or one that is no UTF-8, which `Wal`
  and `IdemStore` tell apart. `Engine`, `Registry` and `Follower` do not: a torn last line of the
  WAL is one that `open()` repairs there. Where it is not, a restart fails until the line is cut off
  by hand, and goes on as in these modules; so it does in `IdemWrites` after a straggler.
* The header of the WAL and its id are in `Registry` and `Follower`, not in `Wal`; a torn header,
  and the format versions, are not modelled.
* `Drop` is atomic; the process does not die in the middle of it, other than by `Crash`.
* `IdemWrites` takes `IdemStore` as a map that keeps everything; its window and capacity are the
  matter of `IdemStore`.
* In `Engine` a retrieval fires one edge, the log of traces is compacted at a bound of its own
  (`MaxLines` for `max(4 * cap, 64)`), and an edge is not ended and observed again at the
  timestamp it began with (both would have one key). A kill in the middle of `put` is the failed
  put followed by `Reopen`. Stateless feedback by seeds is in `Plasticity`, `/touch` and the
  sidecar's binding in `Registry`; `--ephemeral-traces` and the sidecar's format v1 are not modelled.
* In `Registry` the WAL does not fail (`Wal`, `DbWriters`), nor does saving but for a directory that
  is gone; a touch names an edge or does nothing. The rate window of `/feedback`, which an eviction
  forgets, is left out.
* In `Follower` all records have one length, so that an overlap never begins within a line; a
  request is served at one moment, under the primary's lock; the flock that a resync
  drops (`persist.rs:751`) is not modelled: there is one standby on a log.
* In `Plasticity` the log fails only under `/consolidate` (under `/ingest`, in `Engine`), where any of
  the superseded edges may have ended by then; `config.json` is always written (`Registry` has it torn). The
  requests that save do not ask whether the database is wedged: they may have passed the gate before. Trust is 0 or 1, nodes are always alive, salience is 1, time and weights are small
  integers and shares are rounded down: what is proved of order, of which edges fire and of who gets
  credit carries over, what depends on the precision of `f32` does not.
* Hash collisions of edge keys and properties (64 bit) and of line checksums do not happen.

Not modelled:

* the MCP server: one engine under one mutex, one client; its daily sleep and its recall window;
* the command line, the adapter for cloud assets, the storage seam: sequential translations;
* authentication, metrics, monitoring, logs, export, clients, tools: no state that the
  properties depend on;
* read-only queries of the graph (traversals, `diff`, `match_tokens`, `match_vector`),
  `verify_wal` and `replay_readonly`: they answer from the state that is modelled.

`components` in `PROJECT.json` has the list by source file.

## Plan

Done, in this order: `Wal` with `DurableLog`, `DbWriters`, `IdemWrites`, `WalSwap`,
`TemporalGraph` with `Ingest`, `WalProofs`, `Engine`, `IdemStore`, `Registry`, `Follower`,
`Spread` with `Plasticity`, and the proofs of all safety properties.

To model, if there is room: the MCP session, and trust between 0 and 1.
