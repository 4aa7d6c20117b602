-------------------------------- MODULE Wal --------------------------------
(***************************************************************************)
(* The write-ahead log behind one PersistentGraph handle (persist.rs): the *)
(* BufWriter in front of the file, the page cache behind it, the fsync     *)
(* that acknowledges a batch, the I/O errors a full disk causes, process   *)
(* kill and power loss, and the replay that opens the log again.           *)
(*                                                                         *)
(* Data abstracted away: an operation is a model value, a line of the file *)
(* is a record [op, nl]: `op' the operation the line parses to (NoOp when  *)
(* its checksum or its JSON is bad, NoText when it is not even UTF-8       *)
(* because it was cut within a character), `nl' whether its newline is     *)
(* there.  Any operation may have such a character: names are not escaped. *)
(* The graph in memory is the sequence of operations applied to it, so     *)
(* PersistentGraph.lsn is Len(graph).                                      *)
(*                                                                         *)
(* A power loss keeps a prefix of the written bytes that contains every    *)
(* fsynced byte: the file system does not reorder the pages of an append.  *)
(***************************************************************************)
EXTENDS Naturals, Sequences

CONSTANTS
  Ops,      \* the operations journalled
  BigOps,   \* those whose line does not fit the BufWriter: written directly
  NoOp,     \* what an unparseable line holds
  NoText,   \* what a line holds that is not UTF-8
  BufCap,   \* lines the BufWriter holds before it spills
  MaxLog    \* bound: operations in the log of a model-checking run

ASSUME OpsAssumption == BigOps \subseteq Ops /\ {NoOp, NoText} \cap Ops = {} /\ NoOp # NoText
ASSUME BoundsAssumption == BufCap \in Nat \ {0} /\ MaxLog \in Nat

VARIABLES
  file,       \* the WAL as the operating system holds it: Seq(Line)
  synced,     \* how many of its lines an fsync has covered
  handle,     \* "open" while a PersistentGraph lives, else "closed"
  buf,        \* operations in the BufWriter, not yet handed to the OS
  nlPending,  \* the BufWriter starts with the newline that open() owes
  graph,      \* operations applied to the TemporalGraph in memory
  failed,     \* a record() or flush() of this handle returned an error
  acked       \* operations covered by a flush() that returned Ok (history)

vars == <<file, synced, handle, buf, nlPending, graph, failed, acked>>

Line == [op : Ops \cup {NoOp, NoText}, nl : BOOLEAN]
Good(op) == [op |-> op, nl |-> TRUE]     \* the line record() formats
Cut(op)  == [op |-> op, nl |-> FALSE]    \* complete but for its newline
Torn     == [op |-> NoOp, nl |-> FALSE]  \* a part of a line
Split    == [op |-> NoText, nl |-> FALSE] \* a part that ends within a character

\* What a write that stops within the line of an operation leaves of it.
Parts(op) == {Torn, Split, Cut(op)}

Ragged(f) == f # <<>> /\ ~f[Len(f)].nl

\* Two lines in one: no parser takes it, and broken text stays broken.
Glued(a, b) == [op |-> IF NoText \in {a.op, b.op} THEN NoText ELSE NoOp, nl |-> b.nl]

\* What the file holds after the bytes of line `ln' are appended to it: behind
\* a line without a newline they become a part of that line.
Put(f, ln) == IF Ragged(f) THEN [f EXCEPT ![Len(f)] = Glued(f[Len(f)], ln)] ELSE Append(f, ln)

Appended(f, ops) ==
  IF ops = <<>> THEN f
  ELSE Put(f, Good(ops[1])) \o [i \in 1 .. Len(ops) - 1 |-> Good(ops[i + 1])]

\* The newline open() buffers; on a line that has one it is a blank line.
Terminated(f) == IF Ragged(f) THEN [f EXCEPT ![Len(f)] = Good(f[Len(f)].op)] ELSE f

\* Mutant of Written: the newline that open() owes is forgotten.
WrittenWithoutNewline(k) == Appended(file, SubSeq(buf, 1, k))

\* The file after the first k buffered operations have reached it.
Written(k) ==
  Appended(IF nlPending THEN Terminated(file) ELSE file, SubSeq(buf, 1, k))

\* open() refuses a log with a bad line anywhere but at its end.
Corrupt(f) == \E i \in 1 .. Len(f) - 1 : f[i].op \notin Ops

\* read_line() has no answer for a line that is not UTF-8.
EndsWithinCharacter(f) == f # <<>> /\ f[Len(f)].op = NoText

CanOpen(f) == ~Corrupt(f) /\ ~EndsWithinCharacter(f)

\* Mutant of Repaired: the torn line stays.
RepairedNot(f) == f

\* open() drops a bad last line (set_len) and replays the rest.  One that ends
\* within a character has to be cut off by hand first.
Repaired(f) ==
  IF f # <<>> /\ f[Len(f)].op \notin Ops THEN SubSeq(f, 1, Len(f) - 1) ELSE f

Replayed(f) == [i \in 1 .. Len(Repaired(f)) |-> Repaired(f)[i].op]

-----------------------------------------------------------------------------
Init ==
  /\ file = <<>> /\ synced = 0
  /\ handle = "closed" /\ buf = <<>> /\ nlPending = FALSE
  /\ graph = <<>> /\ failed = FALSE
  /\ acked = <<>>

\* Mutant of Open: the torn line is cut off, what was fsynced of it is not.
OpenForgetsCut ==
  /\ handle = "closed" /\ CanOpen(file)
  /\ handle' = "open" /\ failed' = FALSE /\ buf' = <<>>
  /\ file' = Repaired(file)
  /\ graph' = Replayed(file)
  /\ nlPending' = Ragged(file')
  /\ UNCHANGED <<synced, acked>>

\* PersistentGraph::open: lock, replay, truncate a torn last line, owe a
\* newline to a complete last line without one.  An error changes nothing.
Open ==
  /\ handle = "closed" /\ CanOpen(file)
  /\ handle' = "open" /\ failed' = FALSE /\ buf' = <<>>
  /\ file' = Repaired(file)
  /\ synced' = IF synced > Len(file') THEN Len(file') ELSE synced
  /\ graph' = Replayed(file)
  /\ nlPending' = Ragged(file')
  /\ UNCHANGED acked

Apply(op) == graph' = Append(graph, op)

\* record() into a BufWriter with room: no system call, cannot fail.
Buffer(op) ==
  /\ op \notin BigOps /\ Len(buf) < BufCap
  /\ buf' = Append(buf, op)
  /\ Apply(op)
  /\ UNCHANGED <<file, synced, handle, nlPending, failed, acked>>

\* record() into a full BufWriter: its content goes to the OS first.
Spill(op) ==
  /\ op \notin BigOps /\ Len(buf) = BufCap
  /\ file' = Written(Len(buf)) /\ nlPending' = FALSE
  /\ buf' = <<op>>
  /\ Apply(op)
  /\ UNCHANGED <<synced, handle, failed, acked>>

\* record() of a line larger than the buffer: spill, then write it directly.
WriteThrough(op) ==
  /\ op \in BigOps
  /\ file' = Put(Written(Len(buf)), Good(op)) /\ nlPending' = FALSE
  /\ buf' = <<>>
  /\ Apply(op)
  /\ UNCHANGED <<synced, handle, failed, acked>>

\* A write of the BufWriter's content stops after k operations (ENOSPC); the
\* rest stays buffered.  k = Len(buf) with an error is a failed fsync.
Partly(k) ==
  /\ \/ UNCHANGED <<file, nlPending>> /\ k = 0
     \/ file' = Written(k) /\ nlPending' = FALSE
  /\ buf' = SubSeq(buf, k + 1, Len(buf))

\* Mutant of SpillFails: applied to the graph before it is journalled.
SpillFailsApplied(op) ==
  /\ op \in BigOps \/ Len(buf) = BufCap
  /\ \E k \in 0 .. Len(buf) - 1 : Partly(k)
  /\ failed' = TRUE
  /\ Apply(op)
  /\ UNCHANGED <<synced, handle, acked>>

\* record() fails while spilling: the operation is neither applied nor kept.
SpillFails(op) ==
  /\ op \in BigOps \/ Len(buf) = BufCap
  /\ \E k \in 0 .. Len(buf) - 1 : Partly(k)
  /\ failed' = TRUE
  /\ UNCHANGED <<synced, handle, graph, acked>>

\* Mutant of WriteThroughFails: nobody is wedged by the error.
WriteThroughFailsUnnoticed(op) ==
  /\ op \in BigOps
  /\ LET f == Written(Len(buf)) IN
       file' \in {f} \cup {Put(f, ln) : ln \in Parts(op)}
  /\ buf' = <<>> /\ nlPending' = FALSE
  /\ UNCHANGED <<synced, handle, graph, failed, acked>>

\* record() fails in the direct write: none, a part, or all but the newline
\* of the line is in the file, and nothing remembers it.
WriteThroughFails(op) ==
  /\ op \in BigOps
  /\ LET f == Written(Len(buf)) IN
       file' \in {f} \cup {Put(f, ln) : ln \in Parts(op)}
  /\ buf' = <<>> /\ nlPending' = FALSE
  /\ failed' = TRUE
  /\ UNCHANGED <<synced, handle, graph, acked>>

\* Mutant of Drained: written, not fsynced.
DrainedUnsynced ==
  /\ file' = Written(Len(buf)) /\ buf' = <<>> /\ nlPending' = FALSE
  /\ UNCHANGED synced

\* flush(): everything buffered reaches the OS and is fsynced.
Drained ==
  /\ file' = Written(Len(buf)) /\ buf' = <<>> /\ nlPending' = FALSE
  /\ synced' = Len(file')

\* flush() returns Ok: the caller acknowledges all it has recorded.
Flush ==
  /\ Drained
  /\ acked' = graph
  /\ UNCHANGED <<handle, graph, failed>>

FlushFails ==
  /\ \E k \in 0 .. Len(buf) : Partly(k)
  /\ failed' = TRUE
  /\ UNCHANGED <<synced, handle, graph, acked>>

\* flush() on a handle that has failed, on nobody's behalf: serve.rs's
\* flush_all and durable_len do not ask whether the database is wedged.
Drain ==
  /\ handle = "open" /\ failed
  /\ Drained
  /\ UNCHANGED <<handle, graph, failed, acked>>

\* Drop: a last flush whose result nobody looks at.
Close ==
  /\ handle = "open"
  /\ \/ file' = file /\ synced' = synced
     \/ \E k \in 0 .. Len(buf) :
          /\ file' = Written(k)
          /\ synced' = synced \/ (k = Len(buf) /\ synced' = Len(file'))
  /\ handle' = "closed" /\ graph' = <<>> /\ buf' = <<>> /\ nlPending' = FALSE
  /\ UNCHANGED <<failed, acked>>

\* The process is killed, or the power fails: what was written survives up to
\* some byte behind the fsynced prefix, possibly in the middle of a line.
Crash ==
  /\ LET f == Written(Len(buf)) IN
       \/ \E n \in synced .. Len(f) : file' = SubSeq(f, 1, n)
       \/ \E n \in synced .. Len(f) - 1 :
            file' \in {Append(SubSeq(f, 1, n), ln) : ln \in Parts(f[n + 1].op)}
  /\ handle' = "closed" /\ graph' = <<>> /\ buf' = <<>> /\ nlPending' = FALSE
  /\ UNCHANGED <<synced, failed, acked>>

\* A caller that stops at the first error: the CLI exits, the server wedges.
Record(op) ==
  /\ handle = "open" /\ ~failed /\ Len(graph) < MaxLog
  /\ Buffer(op) \/ Spill(op) \/ WriteThrough(op) \/ SpillFails(op) \/ WriteThroughFails(op)

Batch == handle = "open" /\ ~failed /\ (Flush \/ FlushFails)

Next ==
  \/ Open \/ Batch \/ Drain \/ Close \/ Crash
  \/ \E op \in Ops : Record(op)

Spec == Init /\ [][Next]_vars

-----------------------------------------------------------------------------
TypeOK ==
  /\ file \in Seq(Line) /\ synced \in 0 .. Len(file)
  /\ handle \in {"open", "closed"} /\ failed \in BOOLEAN
  /\ buf \in Seq(Ops) /\ nlPending \in BOOLEAN
  /\ graph \in Seq(Ops) /\ acked \in Seq(Ops)

\* What open() would replay if power were lost now and nothing but the fsynced
\* bytes survived.
Survivors == Replayed(SubSeq(file, 1, synced))

\* "An acknowledged flush means the data survived power loss" (persist.rs:15):
\* the acknowledged operations are in the fsynced part of the file, in their
\* order, and replay returns them whatever is cut off behind.
AckedDurable ==
  /\ Len(acked) <= Len(Survivors)
  /\ \A i \in 1 .. Len(acked) : Survivors[i] = acked[i]

\* "Corruption anywhere else is a hard error" (persist.rs:19), and no failed
\* write, kill, power loss or restart causes it: only the last line is ever bad.
\* "A torn FINAL record ... is truncated away on open ... never an error"
\* (persist.rs:18) is more than the code does: one that ends within a character
\* is an error (persist.rs:348).  So what holds is that the log can be opened as
\* it is, or once such a line is cut off by hand; nothing in it was acknowledged
\* (AckedDurable).
Openable ==
  CanOpen(IF EndsWithinCharacter(file) THEN SubSeq(file, 1, Len(file) - 1) ELSE file)

\* "The WAL is the database" (persist.rs:11): with the buffer written out, a
\* replay gives exactly the graph in memory, but for one operation whose direct
\* write failed after its last byte before the newline.
ReplayIsGraph ==
  handle = "open" =>
    LET r == Replayed(Written(Len(buf))) IN
      \/ r = graph
      \/ failed /\ Len(r) = Len(graph) + 1 /\ SubSeq(r, 1, Len(graph)) = graph

\* The log implements the abstract one: readers see the graph of the open
\* handle, or what the next open() will replay.
View == IF handle = "open" THEN graph ELSE Replayed(file)

DL == INSTANCE DurableLog WITH
  log     <- View,
  durable <- Len(acked),
  doubt   <- IF handle = "open" /\ Len(file) = Len(graph) + 1 /\ file[Len(file)].op \in Ops
             THEN file[Len(file)].op ELSE NoOp

Abstract == DL!Spec
=============================================================================
