----------------------------- MODULE DurableLog -----------------------------
(***************************************************************************)
(* What the write-ahead log of psyrag-graph promises its callers, with no  *)
(* file, buffer or handle in sight: a sequence of operations whose prefix  *)
(* of length `durable' was acknowledged and can never be lost.  A restart  *)
(* may drop operations from the end, never one that was acknowledged and   *)
(* never one from the middle, and may find the one operation whose write   *)
(* was reported as failed.                                                 *)
(***************************************************************************)
EXTENDS Naturals, Sequences

CONSTANTS Ops,   \* the journalled operations (graph.rs: enum Op)
          NoOp   \* not an operation

VARIABLES log,      \* the operations a reader of the graph sees, in order
          durable,  \* how many of them were acknowledged
          doubt     \* the operation whose write failed half-way, or NoOp

vars == <<log, durable, doubt>>

Init == log = <<>> /\ durable = 0 /\ doubt = NoOp

\* An operation is appended; nothing can follow one that is in doubt.
AppendOp(op) ==
  /\ doubt = NoOp
  /\ log' = Append(log, op)
  /\ UNCHANGED <<durable, doubt>>

\* A write was refused to its caller, but its bytes may be on the disk.
FailOp(op) ==
  /\ doubt = NoOp
  /\ doubt' = op
  /\ UNCHANGED <<log, durable>>

\* The caller is told that everything up to here survives a power loss.
Acknowledge ==
  /\ durable' = Len(log)
  /\ UNCHANGED <<log, doubt>>

\* The process ends, and a later one finds a prefix of the log, or all of it
\* and the operation in doubt.
Lose(n) ==
  /\ n \in durable .. Len(log)
  /\ log' = SubSeq(log, 1, n)
  /\ doubt' = NoOp
  /\ UNCHANGED durable

AdoptDoubt ==
  /\ doubt # NoOp
  /\ log' = Append(log, doubt)
  /\ doubt' = NoOp
  /\ UNCHANGED durable

Next ==
  \/ \E op \in Ops : AppendOp(op) \/ FailOp(op)
  \/ Acknowledge
  \/ \E n \in durable .. Len(log) : Lose(n)
  \/ AdoptDoubt

Spec == Init /\ [][Next]_vars
=============================================================================
