------------------------------ MODULE Follower ------------------------------
(***************************************************************************)
(* A warm standby (serve.rs, follower_loop) that copies the write-ahead    *)
(* log of a primary by offset.  Each poll asks for the primary's log from  *)
(* a little before the end of the standby's own, compares the overlap, and *)
(* appends and applies what is new; when the two differ, or the primary's  *)
(* log has become shorter, the standby's log is discarded and fetched from *)
(* the beginning.  The standby also fetches the primary's sidecar.         *)
(*                                                                         *)
(* A log is a sequence of records, all of one length, so that an offset is *)
(* a number of records; the header is a record, too, and carries the log's *)
(* id.  The primary's log is what is fsynced there (durable_len flushes    *)
(* before anything is shipped).  The graph is the sequence of operations   *)
(* applied to it.                                                          *)
(***************************************************************************)
EXTENDS Naturals, Sequences, FiniteSets, SequencesExt

CONSTANTS
  Ops,          \* operations
  Ours, Theirs, \* headers: of a log the standby created, of the primary's
  Torn,         \* a line that does not parse
  Overlap,      \* OVERLAP, in records
  DiskFails,    \* the standby's disk may fail
  MaxLog,       \* bound: length of the primary's log
  MaxVersions,  \* bound: times the primary's log is rewritten or restored
  MaxFaults     \* bound: failures and kills of the standby

ASSUME FollowerAssumption ==
  /\ Overlap \in Nat \ {0} /\ DiskFails \in BOOLEAN
  /\ MaxLog \in Nat \ {0} /\ MaxVersions \in Nat /\ MaxFaults \in Nat
ASSUME RecordsAssumption ==
  /\ Ours # Theirs /\ Torn \notin Ops \cup {Ours, Theirs} /\ {Ours, Theirs} \cap Ops = {}

NoId == "none"
Lost == [status |-> 0, body |-> <<>>]
Gone == [status |-> 409, body |-> <<>>]
Sent(records) == [status |-> 200, body |-> records]

VARIABLES
  primary,   \* the primary's log
  torn,      \* it ends in a torn line: a write failed and the primary is wedged
  versions,  \* what it was before each rewrite (history)
  log,       \* the standby's log
  graph,     \* operations in the standby's graph
  columns,   \* operations of it that the plasticity layer has columns for
  id,        \* PersistentGraph.wal_id: a header, or NoId
  sidecar,   \* the id that the standby's sidecar file names, or NoId
  pc,        \* where follower_loop is
  from, expected,  \* the request: offset, and the overlap expected there
  response,  \* Lost, Gone, or Sent(records)
  damaged,   \* an error left log and graph apart (history)
  glued,     \* an error left something in the log that was not shipped for there (history)
  overlooked,\* an overlap matched though the logs differ before it (history)
  faults     \* failures and kills so far (history)

source == <<primary, torn, versions>>
local == <<log, graph, columns, id>>
request == <<from, expected, response>>
history == <<damaged, glued, overlooked, faults>>
vars == <<source, local, sidecar, pc, request, history>>

-----------------------------------------------------------------------------
\* The operations of a log, header and torn lines left out.
OpsOf(l) ==
  LET upto[n \in 0 .. Len(l)] ==
        IF n = 0 THEN <<>>
        ELSE IF l[n] \in Ops THEN Append(upto[n - 1], l[n]) ELSE upto[n - 1]
  IN upto[Len(l)]
Smaller(a, b) == IF a < b THEN a ELSE b
From(l, n) == SubSeq(l, n + 1, Len(l))
Fault == DiskFails /\ faults < MaxFaults /\ faults' = faults + 1

Init ==
  /\ primary = <<Theirs>> /\ torn = FALSE /\ versions = {}
  /\ log = <<Ours>> /\ graph = <<>> /\ columns = 0 /\ id = Ours /\ sidecar = NoId
  /\ pc = "probe" /\ from = 0 /\ expected = <<>> /\ response = Lost
  /\ damaged = FALSE /\ glued = FALSE /\ overlooked = FALSE /\ faults = 0

-----------------------------------------------------------------------------
(* The primary.                                                            *)

Write(op) ==
  /\ ~torn /\ Len(primary) < MaxLog
  /\ primary' = Append(primary, op)
  /\ UNCHANGED <<torn, versions, local, sidecar, pc, request, history>>

\* A write fails half-way, and the primary refuses writes until it is restarted.
WriteFails ==
  /\ ~torn /\ Len(primary) < MaxLog
  /\ torn' = TRUE
  /\ UNCHANGED <<primary, versions, local, sidecar, pc, request, history>>

RestartPrimary ==
  /\ torn /\ torn' = FALSE
  /\ UNCHANGED <<primary, versions, local, sidecar, pc, request, history>>

\* Checkpoint or purge: some operations, once each, behind the same header.
Rewrites ==
  {<<Theirs>> \o s : s \in {t \in UNION {[1 .. n -> ToSet(OpsOf(primary))] : n \in 0 .. Cardinality(ToSet(OpsOf(primary)))} :
                              IsInjective(t)}}

\* The primary's log is rewritten, or it comes back with an earlier state of it.
Rewrite ==
  /\ ~torn /\ Cardinality(versions) < MaxVersions /\ primary \notin versions
  /\ primary' \in (Rewrites \cup {SubSeq(primary, 1, n) : n \in 1 .. Len(primary)}) \ {primary}
  /\ versions' = versions \cup {primary}
  /\ UNCHANGED <<torn, local, sidecar, pc, request, history>>

-----------------------------------------------------------------------------
(* One round of the standby's loop.                                        *)

Request(f, e) == from' = f /\ expected' = e /\ response' = Lost

\* The end of the standby's own log; errors count as length 0, and as nothing
\* expected.
Probe ==
  LET overlap == Smaller(Len(log), Overlap)
      start == Len(log) - overlap
  IN /\ pc = "probe" /\ pc' = "fetch"
     /\ \/ Request(start, From(log, start)) /\ UNCHANGED faults
        \/ Fault /\ (Request(0, <<>>) \/ Request(start, <<>>))
     /\ UNCHANGED <<source, local, sidecar, damaged, glued, overlooked>>

\* Mutant of Diverged: only a shorter log counts.
DivergedIfGone(answer) == answer.status = 409

\* Mutant of Diverged: no, or too short, an answer is no reason.
DivergedIfLonger(answer) ==
  LET n == Smaller(Len(expected), Len(answer.body))
  IN SubSeq(answer.body, 1, n) # SubSeq(expected, 1, n)

\* The primary's log is not a continuation of ours, as far as one can see.
Diverged(answer) ==
  \/ answer.status = 409
  \/ ~IsPrefix(expected, answer.body)

SameUpTo(n) == IsPrefix(SubSeq(log, 1, n), primary)

Shipped == IF torn THEN Append(primary, Torn) ELSE primary

\* GET /wal/tail/{from}: served under the primary's lock, and perhaps lost.
Fetch ==
  /\ pc = "fetch" /\ pc' = "handle"
  /\ response' = IF from > Len(Shipped) THEN Gone ELSE Sent(From(Shipped, from))
  /\ overlooked' = (overlooked \/ (expected # <<>> /\ ~Diverged(response') /\ ~SameUpTo(from)))
  /\ UNCHANGED <<source, local, sidecar, from, expected, damaged, glued, faults>>

FetchFails ==
  /\ pc = "fetch" /\ pc' = "sidecar"
  /\ UNCHANGED <<source, local, sidecar, request, history>>

Resync ==
  /\ pc = "handle" /\ Diverged(response)
  /\ pc' = "resync"
  /\ UNCHANGED <<source, local, sidecar, request, history>>

New == From(response.body, Len(expected))
Continues == pc = "handle" /\ ~Diverged(response)

\* Nothing new, or a line that does not parse (so does the rest of a record
\* when the overlap was not read): nothing is done.
NothingApplied ==
  /\ Continues
  /\ New = <<>> \/ Torn \in ToSet(New) \/ (from > 0 /\ expected = <<>>)
  /\ pc' = "sidecar"
  /\ UNCHANGED <<source, local, sidecar, request, history>>

Applicable ==
  Continues /\ New # <<>> /\ Torn \notin ToSet(New) /\ (from > 0 => expected # <<>>)

\* It was asked for while the log could not be read.
Misplaced == from + Len(expected) # Len(log)

\* A header in what is shipped names the log, if nothing has yet.
Named(new) ==
  id' = IF id = NoId /\ Theirs \in ToSet(new) THEN Theirs ELSE id

\* apply_shipped, then layer.sync.
Apply ==
  /\ Applicable
  /\ log' = log \o New /\ graph' = graph \o OpsOf(New) /\ columns' = Len(graph')
  /\ Named(New)
  /\ glued' = (glued \/ Misplaced)
  /\ pc' = "sidecar"
  /\ UNCHANGED <<source, sidecar, request, damaged, overlooked, faults>>

\* The standby's disk fails: a part of it is written, and nothing applied; or
\* all is applied, and the columns are not brought up to date.
ApplyFails ==
  /\ Applicable /\ Fault
  /\ \/ /\ \E n \in 0 .. Len(New) - 1, t \in {<<>>, <<Torn>>} : log' = log \o SubSeq(New, 1, n) \o t
        /\ UNCHANGED graph
     \/ log' = log \o New /\ graph' = graph \o OpsOf(New)
  /\ Named(New) /\ UNCHANGED columns
  /\ damaged' = TRUE /\ glued' = TRUE
  /\ pc' = "sidecar"
  /\ UNCHANGED <<source, sidecar, request, overlooked>>

\* Mutant of Discard: the graph stays as it is.
DiscardLog == log' = <<>> /\ id' = NoId /\ UNCHANGED <<graph, columns>>

Discard == log' = <<>> /\ graph' = <<>> /\ columns' = 0 /\ id' = NoId

\* reset_for_resync, and a new plasticity layer; then the loop at once.
Reset ==
  /\ pc = "resync" /\ pc' = "probe"
  /\ Discard
  /\ damaged' = FALSE /\ glued' = FALSE /\ overlooked' = FALSE
  /\ UNCHANGED <<source, sidecar, request, faults>>

\* It fails before or after the file was cut.
ResetFails ==
  /\ pc = "resync" /\ pc' = "probe"
  /\ Fault /\ log' \in {log, <<>>} /\ damaged' = TRUE
  /\ UNCHANGED <<source, graph, columns, id, sidecar, request, glued, overlooked>>

\* The sidecar is not due, or does not arrive; or the primary saves and sends its
\* own, which replaces our file and is loaded unless our log has another id.
FetchSidecar ==
  /\ pc = "sidecar" /\ pc' = "probe"
  /\ \/ UNCHANGED <<sidecar, columns>>
     \/ /\ sidecar' = Theirs
        /\ columns' = IF id \in {NoId, Theirs} THEN Len(graph) ELSE columns
  /\ UNCHANGED <<source, log, graph, id, request, history>>

-----------------------------------------------------------------------------
\* A last line that does not parse is cut off; one that is not the last is a
\* reason not to open the log.
Cut(l) == IF l # <<>> /\ Last(l) = Torn THEN Front(l) ELSE l
Broken(l) == Torn \in ToSet(Cut(l))

\* open_engine_at on what a process left: a log that is empty gets a header of
\* its own; a sidecar of another log is refused, and there is no standby.
Reopen(l) ==
  LET opened == IF l = <<>> THEN <<Ours>> ELSE Cut(l)
  IN /\ Request(0, <<>>) /\ damaged' = FALSE
     /\ IF Broken(l)
        THEN log' = l /\ graph' = <<>> /\ columns' = 0 /\ id' = NoId /\ pc' = "down"
        ELSE /\ log' = opened /\ graph' = OpsOf(opened) /\ columns' = Len(graph')
             /\ id' = IF opened = <<>> THEN NoId ELSE opened[1]
             /\ pc' = IF sidecar' # NoId /\ id' # NoId /\ (l = <<>> \/ sidecar' # id')
                      THEN "down" ELSE "probe"

\* kill -9, also in the middle of an append.
Kill ==
  /\ pc # "down" /\ faults < MaxFaults /\ faults' = faults + 1
  /\ UNCHANGED sidecar
  /\ \/ Reopen(log) /\ UNCHANGED glued
     \/ /\ Applicable /\ \E n \in 0 .. Len(New) : Reopen(log \o SubSeq(New, 1, n))
        /\ glued' = (glued \/ Misplaced)
  /\ UNCHANGED <<source, overlooked>>

\* SIGTERM: the sidecar is saved, with the id of the log in memory.
Stop ==
  /\ pc = "probe" /\ faults < MaxFaults /\ faults' = faults + 1
  /\ sidecar' = id
  /\ Reopen(log)
  /\ UNCHANGED <<source, glued, overlooked>>

-----------------------------------------------------------------------------
Poll ==
  \/ Probe \/ Fetch \/ Resync \/ NothingApplied \/ Apply \/ Reset \/ FetchSidecar

Next ==
  \/ Poll \/ FetchFails \/ ApplyFails \/ ResetFails \/ Kill \/ Stop
  \/ (\E op \in Ops : Write(op)) \/ WriteFails \/ RestartPrimary \/ Rewrite

Spec == Init /\ [][Next]_vars

\* The standby's thread goes on, and a request that is repeated for ever is
\* answered for ever.
FairSpec == Spec /\ WF_vars(Poll) /\ SF_vars(Fetch)

-----------------------------------------------------------------------------
Records == Ops \cup {Ours, Theirs, Torn}

TypeOK ==
  /\ primary \in Seq(Ops \cup {Theirs}) /\ Len(primary) \in 1 .. MaxLog
  /\ torn \in BOOLEAN /\ Cardinality(versions) <= MaxVersions
  /\ log \in Seq(Records) /\ graph \in Seq(Ops) /\ columns \in 0 .. Len(graph)
  /\ {id, sidecar} \subseteq {NoId, Ours, Theirs}
  /\ pc \in {"probe", "fetch", "handle", "resync", "sidecar", "down"}
  /\ from \in Nat /\ expected \in Seq(Records)
  /\ response \in [status : {0, 200, 409}, body : Seq(Records)]
  /\ {damaged, glued, overlooked} \subseteq BOOLEAN /\ faults \in 0 .. MaxFaults

\* "The local WAL is therefore always an exact byte-copy of the primary's"
\* (serve.rs:804): of the log as it is or was, through rewrites, lost answers,
\* torn lines, kills and restarts - unless the bytes compared happened to agree
\* (serve.rs:827), or the standby's disk failed.
CopyOfPrimary ==
  ~overlooked /\ ~glued =>
    log = <<Ours>> \/ \E v \in versions \cup {primary} : IsPrefix(log, v)

\* What the standby answers from is what its log says, and each edge has a
\* column (so that a promoted standby serves the same graph); a resync and a
\* restart mend what a failure of the disk has left apart.
GraphIsLog == ~damaged /\ pc # "down" => graph = OpsOf(log) /\ columns = Len(graph)

\* Both in every state the standby can be found in.
WellFormed == TypeOK /\ GraphIsLog

\* "A clean resync" (serve.rs:803): once the primary's log stays as it is, and
\* answers get through, the standby has it and keeps it.
CatchesUp ==
  (<>[](~torn)) => <>[](log = primary \/ overlooked \/ pc = "down")
=============================================================================
