----------------------------- MODULE DbWriters -----------------------------
(***************************************************************************)
(* The HTTP workers that write to one database (serve.rs) on top of its    *)
(* write-ahead log (Wal).  A worker asks under the read lock whether the   *)
(* database is wedged, lets the lock go, and takes the write lock only     *)
(* when it has parsed its request: another worker's write may fail and     *)
(* wedge the database in between.  Wal!failed is Engine.wedged: the        *)
(* handler that sees an error of record() or flush() sets it before it     *)
(* lets the write lock go, and only a new handle clears it.                *)
(***************************************************************************)
EXTENDS Wal, FiniteSets

CONSTANTS Workers, NoWorker

\* opts.workers.max(1)
ASSUME WorkersAssumption == IsFiniteSet(Workers) /\ Workers # {} /\ NoWorker \notin Workers

VARIABLES passed,     \* workers that found the database not wedged
          holder,     \* the worker that holds the write lock, or NoWorker
          stragglers, \* writers let in since the database was wedged (history)
          straggled   \* one was ever let in (history)

dbVars == <<vars, passed, holder, stragglers, straggled>>

DbInit ==
  /\ Init
  /\ passed = {} /\ holder = NoWorker /\ stragglers = 0 /\ straggled = FALSE

\* The wedged check of handle_db: the read lock waits for a writer.
Gate(w) ==
  /\ handle = "open" /\ holder = NoWorker
  /\ w \notin passed /\ ~failed
  /\ passed' = passed \cup {w}
  /\ UNCHANGED <<vars, holder, stragglers, straggled>>

\* engine.write() in the handler: nothing is asked again.
Acquire(w) ==
  /\ w \in passed /\ holder = NoWorker
  /\ holder' = w
  /\ stragglers' = IF failed THEN stragglers + 1 ELSE stragglers
  /\ straggled' = (straggled \/ failed)
  /\ UNCHANGED <<vars, passed>>

Release == holder' = NoWorker /\ passed' = passed \ {holder}

\* One operation of the holder's batch is journalled and applied.
RecordOp(op) ==
  /\ holder # NoWorker /\ Len(graph) < MaxLog
  /\ Buffer(op) \/ Spill(op) \/ WriteThrough(op)
  /\ UNCHANGED <<passed, holder, stragglers, straggled>>

\* record() fails: the handler wedges the database and answers 500.
RecordOpFails(op) ==
  /\ holder # NoWorker /\ Len(graph) < MaxLog
  /\ SpillFails(op) \/ WriteThroughFails(op)
  /\ Release
  /\ UNCHANGED <<stragglers, straggled>>

\* The flush at the end of the batch: 200, or the database is wedged and 500.
EndBatch ==
  /\ holder # NoWorker
  /\ Flush \/ FlushFails
  /\ Release
  /\ UNCHANGED <<stragglers, straggled>>

\* A flush by nobody's write: shutdown, /wal/tail.
DrainDb == holder = NoWorker /\ Drain /\ UNCHANGED <<passed, holder, stragglers, straggled>>

\* The process ends and starts again: every request in it is gone.
Restart ==
  /\ Open \/ Crash \/ (holder = NoWorker /\ Close)
  /\ passed' = {} /\ holder' = NoWorker /\ stragglers' = 0
  /\ UNCHANGED straggled

DbNext ==
  \/ \E w \in Workers : Gate(w) \/ Acquire(w)
  \/ \E op \in Ops : RecordOp(op) \/ RecordOpFails(op)
  \/ EndBatch \/ DrainDb \/ Restart

DbSpec == DbInit /\ [][DbNext]_dbVars

-----------------------------------------------------------------------------
\* The wedge is a gate, not a lock: after the write that wedged the database
\* at most one more batch per other worker reaches the log (serve.rs:1715).
FewStragglers == stragglers <= Cardinality(Workers) - 1

\* As long as no straggler was ever let in, the log keeps its promises through
\* failed writes, restarts and crashes: that is what the wedge is for
\* (engine.rs:22).
SafeUnlessStraggler == ~straggled => AckedDurable /\ Openable

\* What the wedge achieves.
WedgeHolds == FewStragglers /\ SafeUnlessStraggler
=============================================================================
