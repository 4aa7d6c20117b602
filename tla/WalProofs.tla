------------------------------ MODULE WalProofs -----------------------------
(***************************************************************************)
(* Theorems about the write-ahead log (Wal), for every set of operations,  *)
(* every capacity of the buffer and every length of the log; and, in the   *)
(* last part, about the workers that write it (DbWriters), however many    *)
(* they are.                                                               *)
(***************************************************************************)
EXTENDS DbWriters, FiniteSetTheorems, SequenceTheorems, TLAPS

-----------------------------------------------------------------------------
(* The operators on files. *)

LEMMA LineTypes ==
  /\ \A op \in Ops : Good(op) \in Line /\ Cut(op) \in Line
  /\ Torn \in Line /\ Split \in Line
  /\ \A op \in Ops \cup {NoOp, NoText} : Parts(op) \subseteq Line
BY DEF Good, Cut, Torn, Split, Parts, Line

LEMMA GluedType ==
  ASSUME NEW a \in Line, NEW b \in Line
  PROVE  Glued(a, b) \in Line
BY DEF Glued, Line

\* Behind a complete line, what is written is a line of its own; behind one
\* without a newline it is lost in it.
LEMMA PutType ==
  ASSUME NEW f \in Seq(Line), NEW ln \in Line
  PROVE  /\ Put(f, ln) \in Seq(Line)
         /\ Len(f) <= Len(Put(f, ln)) /\ Len(Put(f, ln)) <= Len(f) + 1
         /\ ~Ragged(f) => Put(f, ln) = Append(f, ln)
<1>1. CASE Ragged(f)
  <2>1. Len(f) \in 1 .. Len(f)
    BY <1>1 DEF Ragged
  <2>2. Glued(f[Len(f)], ln) \in Line
    BY <2>1, GluedType
  <2>3. Put(f, ln) = [f EXCEPT ![Len(f)] = Glued(f[Len(f)], ln)]
    BY <1>1 DEF Put
  <2> QED
    BY <1>1, <2>1, <2>2, <2>3, ExceptSeq
<1>2. CASE ~Ragged(f)
  BY <1>2 DEF Put
<1> QED
  BY <1>1, <1>2

LEMMA GoodsType ==
  ASSUME NEW ops \in Seq(Ops), NEW n \in Nat, n < Len(ops)
  PROVE  /\ [i \in 1 .. n |-> Good(ops[i + 1])] \in Seq(Line)
         /\ Len([i \in 1 .. n |-> Good(ops[i + 1])]) = n
<1>1. \A i \in 1 .. n : ops[i + 1] \in Ops
  OBVIOUS
<1>2. \A i \in 1 .. n : Good(ops[i + 1]) \in Line
  BY <1>1, LineTypes
<1> QED
  BY <1>2

LEMMA AppendedType ==
  ASSUME NEW f \in Seq(Line), NEW ops \in Seq(Ops)
  PROVE  Appended(f, ops) \in Seq(Line) /\ Len(f) <= Len(Appended(f, ops))
<1>1. CASE ops = <<>>
  BY <1>1 DEF Appended
<1>2. CASE ops # <<>>
  <2> DEFINE n == Len(ops) - 1
             rest == [i \in 1 .. n |-> Good(ops[i + 1])]
  <2>1. n \in Nat /\ n < Len(ops)
    BY <1>2
  <2>2. rest \in Seq(Line)
    BY <2>1, GoodsType
  <2>3. Good(ops[1]) \in Line
    BY <1>2, LineTypes
  <2>4. Put(f, Good(ops[1])) \in Seq(Line) /\ Len(f) <= Len(Put(f, Good(ops[1])))
    BY <2>3, PutType
  <2>5. Appended(f, ops) = Put(f, Good(ops[1])) \o rest
    BY <1>2 DEF Appended
  <2> HIDE DEF rest
  <2> QED
    BY <2>2, <2>4, <2>5
<1> QED
  BY <1>1, <1>2

LEMMA TerminatedType ==
  ASSUME NEW f \in Seq(Line)
  PROVE  /\ Terminated(f) \in Seq(Line) /\ Len(Terminated(f)) = Len(f)
         /\ \A i \in 1 .. Len(f) : Terminated(f)[i].op = f[i].op
         /\ (\A i \in 1 .. Len(f) - 1 : f[i].nl) => \A i \in 1 .. Len(f) : Terminated(f)[i].nl
<1>1. CASE Ragged(f)
  <2>1. Len(f) \in 1 .. Len(f)
    BY <1>1 DEF Ragged
  <2>2. Terminated(f) = [f EXCEPT ![Len(f)] = Good(f[Len(f)].op)]
    BY <1>1 DEF Terminated
  <2>3. f[Len(f)] \in Line
    BY <2>1
  <2>4. f[Len(f)].op \in Ops \cup {NoOp, NoText}
    BY <2>3 DEF Line
  <2>5. Good(f[Len(f)].op) \in Line
    BY <2>4 DEF Line, Good
  <2>6. Good(f[Len(f)].op).op = f[Len(f)].op /\ Good(f[Len(f)].op).nl = TRUE
    BY DEF Good
  <2> QED
    BY <2>1, <2>2, <2>5, <2>6, ExceptSeq
<1>2. CASE ~Ragged(f)
  BY <1>2 DEF Terminated, Ragged
<1> QED
  BY <1>1, <1>2

LEMMA WrittenType ==
  ASSUME TypeOK, NEW k \in 0 .. Len(buf)
  PROVE  Written(k) \in Seq(Line) /\ Len(file) <= Len(Written(k))
<1>1. SubSeq(buf, 1, k) \in Seq(Ops)
  BY DEF TypeOK
<1>2. file \in Seq(Line)
  BY DEF TypeOK
<1> QED
  BY <1>1, <1>2, AppendedType, TerminatedType DEF Written

LEMMA RepairedType ==
  ASSUME NEW f \in Seq(Line)
  PROVE  /\ Repaired(f) \in Seq(Line) /\ Len(Repaired(f)) <= Len(f)
         /\ Len(f) <= Len(Repaired(f)) + 1
         /\ \A i \in 1 .. Len(Repaired(f)) : Repaired(f)[i] = f[i]
         /\ Len(Repaired(f)) = Len(f) \/ f[Len(f)].op \notin Ops
         /\ Repaired(f) # <<>> => Len(Repaired(f)) < Len(f) \/ f[Len(f)].op \in Ops
BY DEF Repaired

LEMMA ReplayedType ==
  ASSUME NEW f \in Seq(Line), ~Corrupt(f)
  PROVE  Replayed(f) \in Seq(Ops) /\ Len(Replayed(f)) = Len(Repaired(f))
<1> DEFINE r == Repaired(f)
<1>1. r \in Seq(Line) /\ Len(r) <= Len(f) /\ \A i \in 1 .. Len(r) : r[i] = f[i]
  BY RepairedType
<1>2. \A i \in 1 .. Len(r) : f[i].op \in Ops
  BY <1>1, RepairedType DEF Corrupt
<1>3. \A i \in 1 .. Len(r) : r[i] \in Line
  BY <1>1
<1>4. \A i \in 1 .. Len(r) : r[i].op \in Ops
  BY <1>1, <1>2, <1>3 DEF Line
<1>5. Replayed(f) = [i \in 1 .. Len(r) |-> r[i].op]
  BY DEF Replayed
<1>6. Len(r) \in Nat
  BY <1>1
<1> HIDE DEF r
<1>7. [i \in 1 .. Len(r) |-> r[i].op] \in Seq(Ops) /\ Len([i \in 1 .. Len(r) |-> r[i].op]) = Len(r)
  BY <1>4, <1>6
<1> QED
  BY <1>5, <1>7 DEF r

-----------------------------------------------------------------------------
(* Type correctness: the flags, the sequences of operations, the file. *)

FlagsOK == handle \in {"open", "closed"} /\ failed \in BOOLEAN /\ nlPending \in BOOLEAN
OpsOK   == buf \in Seq(Ops) /\ graph \in Seq(Ops) /\ acked \in Seq(Ops)
FileOK  == file \in Seq(Line) /\ synced \in 0 .. Len(file)

LEMMA FlagsStep == TypeOK /\ [Next]_vars => FlagsOK'
<1> SUFFICES ASSUME TypeOK, [Next]_vars PROVE FlagsOK'
  OBVIOUS
<1> USE DEF TypeOK, FlagsOK
<1>1. CASE Open
  BY <1>1 DEF Open, Ragged
<1>2. ASSUME NEW op \in Ops, Record(op) PROVE FlagsOK'
  <2>1. CASE Buffer(op) \/ Spill(op) \/ WriteThrough(op)
    BY <2>1, <1>2 DEF Record, Buffer, Spill, WriteThrough
  <2>2. CASE SpillFails(op)
    <3>1. PICK k \in 0 .. Len(buf) - 1 : Partly(k)
      BY <2>2 DEF SpillFails
    <3> QED
      BY <2>2, <3>1 DEF SpillFails, Partly
  <2>3. CASE WriteThroughFails(op)
    BY <2>3 DEF WriteThroughFails
  <2> QED
    BY <1>2, <2>1, <2>2, <2>3 DEF Record
<1>3. CASE Batch
  <2>1. CASE Flush
    BY <2>1 DEF Flush, Drained
  <2>2. CASE FlushFails
    <3>1. PICK k \in 0 .. Len(buf) : Partly(k)
      BY <2>2 DEF FlushFails
    <3> QED
      BY <2>2, <3>1 DEF FlushFails, Partly
  <2> QED
    BY <1>3, <2>1, <2>2 DEF Batch
<1>4. CASE Drain
  BY <1>4 DEF Drain, Drained
<1>5. CASE Close
  BY <1>5 DEF Close
<1>6. CASE Crash
  BY <1>6 DEF Crash
<1>7. CASE UNCHANGED vars
  BY <1>7 DEF vars
<1> QED
  BY <1>1, <1>2, <1>3, <1>4, <1>5, <1>6, <1>7 DEF Next

LEMMA OpsStep == TypeOK /\ [Next]_vars => OpsOK'
<1> SUFFICES ASSUME TypeOK, [Next]_vars PROVE OpsOK'
  OBVIOUS
<1> USE DEF TypeOK, OpsOK
<1>p. \A k \in 0 .. Len(buf) : Partly(k) => buf' \in Seq(Ops)
  BY DEF Partly
<1>1. CASE Open
  BY <1>1, ReplayedType DEF Open, CanOpen
<1>2. ASSUME NEW op \in Ops, Record(op) PROVE OpsOK'
  <2>1. CASE Buffer(op)
    BY <1>2, <2>1 DEF Buffer, Apply
  <2>2. CASE Spill(op)
    BY <1>2, <2>2 DEF Spill, Apply
  <2>3. CASE WriteThrough(op)
    BY <1>2, <2>3 DEF WriteThrough, Apply
  <2>4. CASE SpillFails(op)
    BY <1>p, <2>4 DEF SpillFails
  <2>5. CASE WriteThroughFails(op)
    BY <2>5 DEF WriteThroughFails
  <2> QED
    BY <1>2, <2>1, <2>2, <2>3, <2>4, <2>5 DEF Record
<1>3. CASE Batch
  <2>1. CASE Flush
    BY <2>1 DEF Flush, Drained
  <2>2. CASE FlushFails
    BY <1>p, <2>2 DEF FlushFails
  <2> QED
    BY <1>3, <2>1, <2>2 DEF Batch
<1>4. CASE Drain
  BY <1>4 DEF Drain, Drained
<1>5. CASE Close
  BY <1>5 DEF Close
<1>6. CASE Crash
  BY <1>6 DEF Crash
<1>7. CASE UNCHANGED vars
  BY <1>7 DEF vars
<1> QED
  BY <1>1, <1>2, <1>3, <1>4, <1>5, <1>6, <1>7 DEF Next

LEMMA FileStep == TypeOK /\ [Next]_vars => FileOK'
<1> SUFFICES ASSUME TypeOK, [Next]_vars PROVE FileOK'
  OBVIOUS
<1> USE DEF TypeOK, FileOK
<1> DEFINE f == Written(Len(buf))
<1>f. f \in Seq(Line) /\ Len(file) <= Len(f)
  BY WrittenType
<1>p. \A k \in 0 .. Len(buf) : Partly(k) => file' \in Seq(Line) /\ Len(file) <= Len(file')
  BY WrittenType DEF Partly
<1> HIDE DEF f
<1>1. CASE Open
  BY <1>1, RepairedType DEF Open
<1>2. ASSUME NEW op \in Ops, Record(op) PROVE FileOK'
  <2>1. \A ln \in Line : Put(f, ln) \in Seq(Line) /\ Len(f) <= Len(Put(f, ln))
    BY <1>f, PutType
  <2>2. CASE Buffer(op)
    BY <2>2 DEF Buffer
  <2>3. CASE Spill(op)
    BY <1>f, <2>3 DEF Spill, f
  <2>4. CASE WriteThrough(op)
    BY <1>f, <1>2, <2>1, <2>4, LineTypes DEF WriteThrough, f
  <2>5. CASE SpillFails(op)
    BY <1>p, <2>5 DEF SpillFails
  <2>6. CASE WriteThroughFails(op)
    <3>1. file' \in {f} \cup {Put(f, ln) : ln \in Parts(op)}
      BY <2>6 DEF WriteThroughFails, f
    <3>2. Parts(op) \subseteq Line
      BY <1>2, LineTypes
    <3>3. file' \in Seq(Line) /\ Len(f) <= Len(file')
      <4>1. CASE file' = f
        BY <1>f, <4>1
      <4>2. ASSUME NEW ln \in Line, file' = Put(f, ln)
            PROVE  file' \in Seq(Line) /\ Len(f) <= Len(file')
        BY <2>1, <4>2
      <4> QED
        BY <3>1, <3>2, <4>1, <4>2
    <3> QED
      BY <1>f, <2>6, <3>3 DEF WriteThroughFails
  <2> QED
    BY <1>2, <2>2, <2>3, <2>4, <2>5, <2>6 DEF Record
<1>3. CASE Batch
  BY <1>f, <1>p, <1>3 DEF Batch, Flush, FlushFails, Drained, f
<1>4. CASE Drain
  BY <1>f, <1>4 DEF Drain, Drained, f
<1>5. CASE Close
  BY <1>5, WrittenType DEF Close
<1>6. CASE Crash
  <2>1. \A n \in synced .. Len(f) :
          SubSeq(f, 1, n) \in Seq(Line) /\ Len(SubSeq(f, 1, n)) = n
    BY <1>f
  <2>2. \A n \in synced .. Len(f) - 1 : Parts(f[n + 1].op) \subseteq Line
    <3>1. \A n \in synced .. Len(f) - 1 : f[n + 1] \in Line
      BY <1>f
    <3> QED
      BY <3>1, LineTypes DEF Line
  <2>3. CASE \E n \in synced .. Len(f) : file' = SubSeq(f, 1, n)
    BY <1>f, <1>6, <2>1, <2>3 DEF Crash
  <2>4. CASE \E n \in synced .. Len(f) - 1 :
               file' \in {Append(SubSeq(f, 1, n), ln) : ln \in Parts(f[n + 1].op)}
    <3>1. PICK n \in synced .. Len(f) - 1 :
            file' \in {Append(SubSeq(f, 1, n), ln) : ln \in Parts(f[n + 1].op)}
      BY <2>4
    <3>2. n \in Nat /\ SubSeq(f, 1, n) \in Seq(Line) /\ Len(SubSeq(f, 1, n)) = n
      BY <1>f, <2>1
    <3>3. PICK ln \in Line : file' = Append(SubSeq(f, 1, n), ln)
      BY <2>2, <3>1, LineTypes
    <3>4. file' \in Seq(Line) /\ Len(file') = n + 1
      BY <3>2, <3>3
    <3> QED
      BY <1>f, <1>6, <3>4 DEF Crash
  <2> QED
    BY <1>6, <2>3, <2>4 DEF Crash, f
<1>7. CASE UNCHANGED vars
  BY <1>7 DEF vars
<1> QED
  BY <1>1, <1>2, <1>3, <1>4, <1>5, <1>6, <1>7 DEF Next

\* Every state of the log's handle, file and history is of the declared form;
\* in particular no fsync is remembered of lines that the file no longer has,
\* though open() and a power loss shorten it.
THEOREM TypeCorrect == Spec => []TypeOK
<1>1. Init => TypeOK
  <2>1. Init => FlagsOK
    BY DEF Init, FlagsOK
  <2>2. Init => OpsOK
    BY DEF Init, OpsOK
  <2>3. Init => FileOK
    BY DEF Init, FileOK
  <2> QED
    BY <2>1, <2>2, <2>3 DEF FlagsOK, OpsOK, FileOK, TypeOK
<1>2. TypeOK /\ [Next]_vars => TypeOK'
  BY FlagsStep, OpsStep, FileStep DEF FlagsOK, OpsOK, FileOK, TypeOK
<1> QED
  BY <1>1, <1>2, PTL DEF Spec

-----------------------------------------------------------------------------
(* The inductive invariant.  What a write appends to matters: behind a line *)
(* without a newline it would be lost.  So the invariant says that such a   *)
(* line is only ever the last one, and that a handle which may still write  *)
(* has the newline pending; then file, buffer and graph are one sequence.   *)

\* Every line but the last parses and has its newline.
GoodLines(f) == \A i \in 1 .. Len(f) - 1 : f[i].op \in Ops /\ f[i].nl

\* The graph is the file followed by the buffer.
InStep ==
  /\ Len(graph) = Len(file) + Len(buf)
  /\ \A i \in 1 .. Len(file) : file[i].op = graph[i]
  /\ \A i \in 1 .. Len(buf) : buf[i] = graph[Len(file) + i]
  /\ nlPending \/ ~Ragged(file)

Idle == buf = <<>> /\ nlPending = FALSE

\* After a failed direct write: a line too many, and nothing will follow it.
HalfWritten ==
  /\ failed /\ Idle
  /\ Len(file) = Len(graph) + 1
  /\ \A i \in 1 .. Len(graph) : file[i].op = graph[i]

HandleInv ==
  /\ handle = "open" => InStep \/ HalfWritten
  /\ handle = "closed" => Idle

AckedIn(f) == \A i \in 1 .. Len(acked) : f[i].op = acked[i]

IInv == TypeOK /\ GoodLines(file) /\ HandleInv /\ Len(acked) <= synced /\ AckedIn(file)

\* Written behind complete lines, operations become complete lines.
LEMMA AppendedGood ==
  ASSUME NEW f \in Seq(Line), ~Ragged(f), NEW ops \in Seq(Ops)
  PROVE  /\ Appended(f, ops) \in Seq(Line)
         /\ Len(Appended(f, ops)) = Len(f) + Len(ops)
         /\ \A i \in 1 .. Len(f) : Appended(f, ops)[i] = f[i]
         /\ \A i \in 1 .. Len(ops) : Appended(f, ops)[Len(f) + i] = Good(ops[i])
<1>1. CASE ops = <<>>
  BY <1>1 DEF Appended
<1>2. CASE ops # <<>>
  <2> DEFINE n == Len(ops) - 1
             rest == [i \in 1 .. n |-> Good(ops[i + 1])]
             g == Append(f, Good(ops[1]))
  <2>1. n \in Nat /\ n < Len(ops)
    BY <1>2
  <2>2. rest \in Seq(Line) /\ Len(rest) = n
    BY <2>1, GoodsType
  <2>3. \A i \in 1 .. n : rest[i] = Good(ops[i + 1])
    OBVIOUS
  <2>4. Good(ops[1]) \in Line
    BY <1>2, LineTypes
  <2>5. /\ g \in Seq(Line) /\ Len(g) = Len(f) + 1
        /\ \A i \in 1 .. Len(f) : g[i] = f[i]
        /\ g[Len(f) + 1] = Good(ops[1])
    BY <2>4
  <2>6. Appended(f, ops) = g \o rest
    BY <1>2, <2>4, PutType DEF Appended
  <2> HIDE DEF rest, g, n
  <2>7. /\ g \o rest \in Seq(Line)
        /\ Len(g \o rest) = Len(g) + Len(rest)
        /\ \A i \in 1 .. Len(g) + Len(rest) : (g \o rest)[i] =
             IF i <= Len(g) THEN g[i] ELSE rest[i - Len(g)]
    BY <2>2, <2>5, ConcatProperties
  <2>8. Len(g \o rest) = Len(f) + Len(ops)
    BY <2>1, <2>2, <2>5, <2>7 DEF n
  <2>9. \A i \in 1 .. Len(f) : (g \o rest)[i] = f[i]
    BY <2>1, <2>2, <2>5, <2>7
  <2>10. ASSUME NEW i \in 1 .. Len(ops)
         PROVE  (g \o rest)[Len(f) + i] = Good(ops[i])
    <3>1. CASE i = 1
      BY <2>1, <2>2, <2>5, <2>7, <3>1
    <3>2. CASE i # 1
      <4>1. i - 1 \in 1 .. n /\ Len(f) + i \in 1 .. Len(g) + Len(rest) /\ Len(f) + i > Len(g)
        BY <2>1, <2>2, <2>5, <3>2 DEF n
      <4>2. (g \o rest)[Len(f) + i] = rest[i - 1]
        BY <2>5, <2>7, <4>1
      <4>3. rest[i - 1] = Good(ops[i])
        BY <2>3, <4>1
      <4> QED
        BY <4>2, <4>3
    <3> QED
      BY <3>1, <3>2
  <2> QED
    BY <2>6, <2>7, <2>8, <2>9, <2>10
<1> QED
  BY <1>1, <1>2

\* As long as file, buffer and graph are in step, what a write of the buffer
\* leaves in the file is the graph, line by line.
LEMMA WrittenInStep ==
  ASSUME TypeOK, GoodLines(file), InStep, NEW k \in 0 .. Len(buf)
  PROVE  /\ Written(k) \in Seq(Line)
         /\ Len(Written(k)) = Len(file) + k
         /\ \A i \in 1 .. Len(Written(k)) : Written(k)[i].op = graph[i] /\ Written(k)[i].nl
         /\ ~Ragged(Written(k))
<1> DEFINE f == IF nlPending THEN Terminated(file) ELSE file
           ops == SubSeq(buf, 1, k)
<1>1. f \in Seq(Line) /\ Len(f) = Len(file)
  BY TerminatedType DEF TypeOK
<1>2. \A i \in 1 .. Len(file) : f[i].op = graph[i]
  BY TerminatedType DEF TypeOK, InStep
<1>3. \A i \in 1 .. Len(file) : f[i].nl
  <2>1. CASE nlPending
    BY <2>1, TerminatedType DEF TypeOK, GoodLines
  <2>2. CASE ~nlPending
    BY <2>2 DEF TypeOK, GoodLines, InStep, Ragged
  <2> QED
    BY <2>1, <2>2
<1>4. ~Ragged(f)
  BY <1>1, <1>3 DEF Ragged
<1>5. ops \in Seq(Ops) /\ Len(ops) = k /\ \A i \in 1 .. k : ops[i] = buf[i]
  BY DEF TypeOK
<1>6. Written(k) = Appended(f, ops)
  BY DEF Written
<1> HIDE DEF f, ops
<1>7. Written(k) \in Seq(Line) /\ Len(Written(k)) = Len(file) + k
  BY <1>1, <1>4, <1>5, <1>6, AppendedGood
<1>8. ASSUME NEW i \in 1 .. Len(Written(k))
      PROVE  Written(k)[i].op = graph[i] /\ Written(k)[i].nl
  <2>1. CASE i <= Len(file)
    BY <1>1, <1>2, <1>3, <1>4, <1>5, <1>6, <1>7, <2>1, AppendedGood
  <2>2. CASE i > Len(file)
    <3>1. i - Len(file) \in 1 .. k /\ Len(file) + (i - Len(file)) = i
      BY <1>7, <2>2 DEF TypeOK
    <3>a. \A j \in 1 .. k : Written(k)[Len(file) + j] = Good(ops[j])
      <4>1. \A j \in 1 .. Len(ops) : Appended(f, ops)[Len(f) + j] = Good(ops[j])
        BY <1>1, <1>4, <1>5, AppendedGood
      <4> QED
        BY <1>1, <1>5, <1>6, <4>1
    <3>b. Written(k)[Len(file) + (i - Len(file))] = Good(ops[i - Len(file)])
      BY <3>1, <3>a
    <3>2. Written(k)[i] = Good(buf[i - Len(file)])
      BY <1>5, <3>1, <3>b
    <3>3. buf[i - Len(file)] = graph[i]
      <4> DEFINE j == i - Len(file)
      <4>1. j \in 1 .. Len(buf) /\ Len(file) + j = i
        BY <3>1 DEF TypeOK
      <4> HIDE DEF j
      <4>2. buf[j] = graph[Len(file) + j]
        BY <4>1 DEF InStep
      <4> QED
        BY <4>1, <4>2 DEF j
    <3> QED
      BY <3>2, <3>3 DEF Good
  <2> QED
    BY <1>7, <2>1, <2>2 DEF TypeOK
<1>9. ~Ragged(Written(k))
  BY <1>7, <1>8 DEF Ragged
<1> QED
  BY <1>7, <1>8, <1>9

LEMMA WrittenIdle ==
  ASSUME TypeOK, Idle
  PROVE  Len(buf) = 0 /\ Written(0) = file
BY DEF Idle, Written, Appended, TypeOK

\* Whatever the state, a write leaves good lines and takes no acknowledged one.
LEMMA WrittenSound ==
  ASSUME IInv, NEW k \in 0 .. Len(buf)
  PROVE  /\ Written(k) \in Seq(Line) /\ Len(file) <= Len(Written(k))
         /\ GoodLines(Written(k)) /\ AckedIn(Written(k))
<1>1. TypeOK /\ GoodLines(file) /\ AckedIn(file) /\ Len(acked) <= Len(file)
  BY DEF IInv, TypeOK
<1>2. CASE InStep
  <2>1. /\ Written(k) \in Seq(Line) /\ Len(Written(k)) = Len(file) + k
        /\ \A i \in 1 .. Len(Written(k)) : Written(k)[i].op = graph[i] /\ Written(k)[i].nl
    BY <1>1, <1>2, WrittenInStep
  <2>2. Len(Written(k)) <= Len(graph)
    BY <1>1, <1>2, <2>1 DEF InStep, TypeOK
  <2>3. \A i \in 1 .. Len(graph) : graph[i] \in Ops
    BY <1>1, OpsAssumption DEF TypeOK
  <2>4. GoodLines(Written(k))
    BY <1>1, <2>1, <2>2, <2>3 DEF GoodLines, TypeOK
  <2>5. \A i \in 1 .. Len(acked) : Written(k)[i].op = file[i].op
    BY <1>1, <1>2, <2>1 DEF InStep, TypeOK
  <2>6. AckedIn(Written(k))
    BY <1>1, <2>5 DEF AckedIn
  <2> QED
    BY <1>1, <2>1, <2>4, <2>6 DEF TypeOK
<1>3. CASE Idle
  BY <1>1, <1>3, WrittenIdle DEF TypeOK
<1> QED
  BY <1>1, <1>2, <1>3 DEF IInv, HandleInv, HalfWritten, TypeOK

\* The repair of open() takes no acknowledged line: the one it takes is bad.
LEMMA AckedRepaired ==
  ASSUME NEW f \in Seq(Line), OpsOK, Len(acked) <= Len(f), AckedIn(f)
  PROVE  Len(acked) <= Len(Repaired(f)) /\ AckedIn(Repaired(f))
<1>1. Len(acked) \in Nat /\ \A i \in 1 .. Len(acked) : acked[i] \in Ops
  BY OpsAssumption DEF OpsOK
<1>2. /\ Repaired(f) \in Seq(Line) /\ Len(f) <= Len(Repaired(f)) + 1
      /\ Len(Repaired(f)) <= Len(f)
      /\ \A i \in 1 .. Len(Repaired(f)) : Repaired(f)[i] = f[i]
      /\ Len(Repaired(f)) = Len(f) \/ f[Len(f)].op \notin Ops
  BY RepairedType
<1>3. Len(acked) <= Len(Repaired(f))
  BY <1>1, <1>2 DEF AckedIn
<1> QED
  BY <1>1, <1>2, <1>3 DEF AckedIn

-----------------------------------------------------------------------------
(* Every step preserves the invariant. *)

\* A line appended behind good lines, the new one included, keeps them good.
LEMMA AppendGoodLines ==
  ASSUME NEW f \in Seq(Line), NEW ln \in Line,
         \A i \in 1 .. Len(f) : f[i].op \in Ops /\ f[i].nl
  PROVE  GoodLines(Append(f, ln))
BY DEF GoodLines

\* The disk: lines stay good, acknowledged ones stay.
LEMMA DiskStep ==
  ASSUME IInv, [Next]_vars
  PROVE  GoodLines(file') /\ (acked' = acked => AckedIn(file'))
<1>0. TypeOK /\ GoodLines(file) /\ AckedIn(file) /\ Len(acked) <= synced /\ Len(acked) <= Len(file)
  BY DEF IInv, TypeOK
<1> DEFINE w == Written(Len(buf))
<1>w. w \in Seq(Line) /\ Len(file) <= Len(w) /\ GoodLines(w) /\ AckedIn(w)
  BY <1>0, WrittenSound DEF TypeOK
<1>p. \A k \in 0 .. Len(buf) : Partly(k) => GoodLines(file') /\ AckedIn(file')
  BY <1>0, WrittenSound DEF Partly
<1>t. Torn \in Line
  BY LineTypes
<1> HIDE DEF w
<1>1. CASE Open
  <2>1. /\ file' = Repaired(file) /\ Len(file') <= Len(file)
        /\ \A i \in 1 .. Len(file') : file'[i] = file[i]
    BY <1>0, <1>1, RepairedType DEF Open, TypeOK
  <2>2. file' \in Seq(Line)
    BY <1>0, <2>1, RepairedType DEF TypeOK
  <2>3. GoodLines(file')
    <3> SUFFICES ASSUME NEW i \in 1 .. Len(file') - 1 PROVE file'[i].op \in Ops /\ file'[i].nl
      BY DEF GoodLines
    <3>1. i \in 1 .. Len(file') /\ i \in 1 .. Len(file) - 1
      BY <1>0, <2>1, <2>2 DEF TypeOK
    <3> QED
      BY <1>0, <2>1, <3>1 DEF GoodLines
  <2>4. AckedIn(file')
    BY <1>0, <2>1, AckedRepaired DEF TypeOK, OpsOK
  <2> QED
    BY <2>3, <2>4
<1>2. ASSUME NEW op \in Ops, Record(op) PROVE GoodLines(file') /\ AckedIn(file')
  <2>1. CASE Buffer(op)
    BY <1>0, <2>1 DEF Buffer
  <2>2. CASE Spill(op)
    BY <1>w, <2>2 DEF Spill, w
  <2>3. InStep /\ ~failed
    BY <1>2 DEF Record, IInv, HandleInv, HalfWritten
  <2>4. /\ \A i \in 1 .. Len(w) : w[i].op = graph[i] /\ w[i].nl
        /\ ~Ragged(w) /\ Len(w) = Len(graph)
    BY <1>0, <2>3, WrittenInStep DEF w, InStep, TypeOK
  <2>5. \A i \in 1 .. Len(w) : w[i].op \in Ops /\ w[i].nl
    BY <1>0, <2>4, OpsAssumption DEF TypeOK
  <2>6. ASSUME NEW ln \in Line
        PROVE  Put(w, ln) = Append(w, ln) /\ GoodLines(Append(w, ln)) /\ AckedIn(Append(w, ln))
    <3>1. Put(w, ln) = Append(w, ln) /\ GoodLines(Append(w, ln))
      BY <1>w, <2>4, <2>5, PutType, AppendGoodLines
    <3>2. \A i \in 1 .. Len(w) : Append(w, ln)[i] = w[i]
      BY <1>w
    <3>3. AckedIn(Append(w, ln))
      BY <1>0, <1>w, <3>2 DEF AckedIn, TypeOK
    <3> QED
      BY <3>1, <3>3
  <2>7. CASE WriteThrough(op)
    BY <1>2, <2>6, <2>7, LineTypes DEF WriteThrough, w
  <2>8. CASE SpillFails(op)
    BY <1>0, <1>p, <2>8 DEF SpillFails, TypeOK
  <2>9. CASE WriteThroughFails(op)
    <3>1. file' \in {w} \cup {Put(w, ln) : ln \in Parts(op)}
      BY <2>9 DEF WriteThroughFails, w
    <3>2. Parts(op) \subseteq Line
      BY <1>2, LineTypes
    <3> QED
      BY <1>w, <1>t, <2>6, <3>1, <3>2
  <2> QED
    BY <1>2, <2>1, <2>2, <2>7, <2>8, <2>9 DEF Record
<1>3. CASE Drained
  BY <1>w, <1>3 DEF Drained, w
<1>4. CASE Batch
  BY <1>p, <1>3, <1>4 DEF Batch, Flush, FlushFails
<1>5. CASE Drain
  BY <1>3, <1>5 DEF Drain
<1>6. CASE Close
  BY <1>0, <1>6, WrittenSound DEF Close
<1>7. CASE Crash
  <2>1. ASSUME NEW n \in synced .. Len(w), file' = SubSeq(w, 1, n)
        PROVE  GoodLines(file') /\ AckedIn(file')
    <3>1. n \in Nat /\ n <= Len(w) /\ Len(acked) <= n
      BY <1>0, <1>w DEF TypeOK
    <3>2. Len(file') = n /\ \A i \in 1 .. n : file'[i] = w[i]
      BY <1>w, <2>1, <3>1
    <3>3. GoodLines(file')
      BY <1>w, <3>1, <3>2 DEF GoodLines
    <3>4. AckedIn(file')
      BY <1>0, <1>w, <3>1, <3>2 DEF AckedIn, TypeOK
    <3> QED
      BY <3>3, <3>4
  <2>2. ASSUME NEW n \in synced .. Len(w) - 1, NEW ln \in Line,
               file' = Append(SubSeq(w, 1, n), ln)
        PROVE  GoodLines(file') /\ AckedIn(file')
    <3>1. n \in Nat /\ n < Len(w) /\ Len(acked) <= n
      BY <1>0, <1>w DEF TypeOK
    <3>2. SubSeq(w, 1, n) \in Seq(Line) /\ Len(SubSeq(w, 1, n)) = n
          /\ \A i \in 1 .. n : SubSeq(w, 1, n)[i] = w[i]
      BY <1>w, <3>1
    <3>3. Len(file') = n + 1 /\ \A i \in 1 .. n : file'[i] = w[i]
      BY <2>2, <3>1, <3>2
    <3>4. GoodLines(file')
      BY <1>w, <3>1, <3>3 DEF GoodLines
    <3>5. AckedIn(file')
      BY <1>0, <1>w, <3>1, <3>3 DEF AckedIn, TypeOK
    <3> QED
      BY <3>4, <3>5
  <2>3. \A n \in synced .. Len(w) - 1 : Parts(w[n + 1].op) \subseteq Line
    <3>1. \A n \in synced .. Len(w) - 1 : w[n + 1] \in Line
      BY <1>0, <1>w DEF TypeOK
    <3> QED
      BY <3>1, LineTypes DEF Line
  <2> QED
    BY <1>7, <1>t, <2>1, <2>2, <2>3 DEF Crash, w
<1>8. CASE UNCHANGED vars
  BY <1>0, <1>8 DEF vars
<1> QED
  BY <1>1, <1>2, <1>4, <1>5, <1>6, <1>7, <1>8 DEF Next

\* A write of the first k buffered operations that keeps the others buffered
\* keeps file, buffer and graph in step.
LEMMA PartlyInStep ==
  ASSUME TypeOK, GoodLines(file), InStep, NEW k \in 0 .. Len(buf), Partly(k), graph' = graph
  PROVE  InStep'
<1>1. CASE k = 0 /\ UNCHANGED <<file, nlPending>>
  BY <1>1 DEF Partly, InStep, TypeOK, Ragged
<1>2. CASE file' = Written(k) /\ nlPending' = FALSE
  <2>1. /\ Len(file') = Len(file) + k
        /\ \A i \in 1 .. Len(file') : file'[i].op = graph[i]
        /\ ~Ragged(file')
    BY <1>2, WrittenInStep
  <2>2. Len(buf') = Len(buf) - k /\ \A i \in 1 .. Len(buf) - k : buf'[i] = buf[k + i]
    BY DEF Partly, TypeOK
  <2>3. Len(graph) = Len(file') + Len(buf')
    BY <2>1, <2>2 DEF InStep, TypeOK
  <2>4. ASSUME NEW i \in 1 .. Len(buf') PROVE buf'[i] = graph[Len(file') + i]
    <3>1. k + i \in 1 .. Len(buf) /\ Len(file) + (k + i) = Len(file') + i
      BY <2>1, <2>2 DEF TypeOK
    <3>2. buf[k + i] = graph[Len(file) + (k + i)]
      BY <3>1 DEF InStep
    <3> QED
      BY <2>2, <3>1, <3>2
  <2>5. ~Ragged(file)'
    BY <2>1 DEF Ragged
  <2> QED
    BY <2>1, <2>3, <2>4, <2>5 DEF InStep
<1> QED
  BY <1>1, <1>2 DEF Partly

\* One more operation: the file takes f, complete and holding the graph so
\* far, the buffer the new one, or the file both.
LEMMA GrownInStep ==
  ASSUME TypeOK, NEW op \in Ops, graph' = Append(graph, op),
         file' \in Seq(Line), ~Ragged(file'),
         \/ /\ buf' = <<op>> /\ Len(file') = Len(graph)
            /\ \A i \in 1 .. Len(graph) : file'[i].op = graph[i]
         \/ /\ buf' = <<>> /\ Len(file') = Len(graph) + 1
            /\ \A i \in 1 .. Len(graph) : file'[i].op = graph[i]
            /\ file'[Len(graph) + 1].op = op
  PROVE  InStep'
<1>1. /\ Len(graph') = Len(graph) + 1 /\ graph'[Len(graph) + 1] = op
      /\ \A i \in 1 .. Len(graph) : graph'[i] = graph[i]
  BY DEF TypeOK
<1>2. Len(graph) \in Nat
  BY DEF TypeOK
<1>3. ~Ragged(file)'
  BY DEF Ragged
<1>4. CASE /\ buf' = <<op>> /\ Len(file') = Len(graph)
           /\ \A i \in 1 .. Len(graph) : file'[i].op = graph[i]
  <2>1. Len(buf') = 1 /\ buf'[1] = op
    BY <1>4
  <2> QED
    BY <1>1, <1>2, <1>3, <1>4, <2>1 DEF InStep
<1>5. CASE /\ buf' = <<>> /\ Len(file') = Len(graph) + 1
           /\ \A i \in 1 .. Len(graph) : file'[i].op = graph[i]
           /\ file'[Len(graph) + 1].op = op
  <2>1. Len(buf') = 0
    BY <1>5
  <2>2. \A i \in 1 .. Len(file') : file'[i].op = graph'[i]
    BY <1>1, <1>2, <1>5
  <2> QED
    BY <1>1, <1>2, <1>3, <1>5, <2>1, <2>2 DEF InStep
<1> QED
  BY <1>4, <1>5

LEMMA HandleStep ==
  ASSUME IInv, [Next]_vars
  PROVE  HandleInv'
<1>0. TypeOK /\ GoodLines(file) /\ HandleInv
  BY DEF IInv
<1> DEFINE w == Written(Len(buf))
<1>w. InStep => /\ w \in Seq(Line) /\ Len(w) = Len(graph) /\ ~Ragged(w)
                /\ \A i \in 1 .. Len(graph) : w[i].op = graph[i] /\ w[i].nl
  BY <1>0, WrittenInStep DEF InStep, TypeOK
<1> HIDE DEF w
<1>1. CASE Open
  <2>1. file' \in Seq(Line) /\ file' = Repaired(file)
    BY <1>0, <1>1, RepairedType DEF Open, TypeOK
  <2>2. graph' = Replayed(file) /\ graph' \in Seq(Ops) /\ Len(graph') = Len(file')
    BY <1>0, <1>1, <2>1, ReplayedType DEF Open, CanOpen, TypeOK
  <2>3. \A i \in 1 .. Len(file') : file'[i].op = graph'[i]
    BY <2>1, <2>2 DEF Replayed
  <2>4. Len(buf') = 0
    BY <1>1 DEF Open
  <2>5. nlPending' \/ ~Ragged(file)'
    BY <1>1 DEF Open, Ragged
  <2> QED
    BY <1>1, <2>1, <2>2, <2>3, <2>4, <2>5 DEF Open, HandleInv, InStep
<1>2. ASSUME NEW op \in Ops, Record(op) PROVE handle' = handle /\ (InStep \/ HalfWritten)'
  <2>0. InStep
    BY <1>0, <1>2 DEF Record, HandleInv, HalfWritten
  <2>1. CASE Buffer(op)
    <3>1. /\ file' = file /\ nlPending' = nlPending
          /\ buf' = Append(buf, op) /\ graph' = Append(graph, op)
      BY <2>1 DEF Buffer, Apply
    <3>2. nlPending' \/ ~Ragged(file)'
      BY <2>0, <3>1 DEF InStep, Ragged
    <3>3. Len(graph') = Len(file') + Len(buf')
      BY <1>0, <2>0, <3>1 DEF InStep, TypeOK
    <3>4. \A i \in 1 .. Len(file') : file'[i].op = graph'[i]
      BY <1>0, <2>0, <3>1 DEF InStep, TypeOK
    <3>5. \A i \in 1 .. Len(buf') : buf'[i] = graph'[Len(file') + i]
      BY <1>0, <1>2, <2>0, <3>1 DEF InStep, TypeOK
    <3> QED
      BY <2>1, <3>2, <3>3, <3>4, <3>5 DEF InStep, Buffer
  <2>2. CASE Spill(op)
    <3>1. file' = w /\ buf' = <<op>> /\ graph' = Append(graph, op)
      BY <2>2 DEF Spill, Apply, w
    <3>2. InStep'
      BY <1>0, <1>2, <1>w, <2>0, <3>1, GrownInStep
    <3> QED
      BY <2>2, <3>2 DEF Spill
  <2>3. ASSUME NEW ln \in Line
        PROVE  /\ Put(w, ln) \in Seq(Line) /\ Len(Put(w, ln)) = Len(graph) + 1
               /\ \A i \in 1 .. Len(graph) : Put(w, ln)[i] = w[i]
               /\ Put(w, ln)[Len(graph) + 1] = ln
    <3>1. w \in Seq(Line) /\ Len(w) = Len(graph) /\ Put(w, ln) = Append(w, ln)
      BY <1>w, <2>0, PutType
    <3> QED
      BY <3>1
  <2>4. CASE WriteThrough(op)
    <3>1. file' = Put(w, Good(op)) /\ buf' = <<>> /\ graph' = Append(graph, op)
      BY <2>4 DEF WriteThrough, Apply, w
    <3>2. Good(op) \in Line /\ Good(op).op = op /\ Good(op).nl
      BY <1>2, LineTypes DEF Good
    <3>3. /\ file' \in Seq(Line) /\ Len(file') = Len(graph) + 1
          /\ file'[Len(graph) + 1] = Good(op)
          /\ \A i \in 1 .. Len(graph) : file'[i].op = graph[i]
      <4>1. /\ file' \in Seq(Line) /\ Len(file') = Len(graph) + 1
            /\ \A i \in 1 .. Len(graph) : file'[i] = w[i]
            /\ file'[Len(graph) + 1] = Good(op)
        BY <2>3, <3>1, <3>2
      <4> QED
        BY <1>w, <2>0, <4>1
    <3>4. ~Ragged(file')
      BY <3>2, <3>3 DEF Ragged
    <3>5. InStep'
      BY <1>0, <1>2, <3>1, <3>2, <3>3, <3>4, GrownInStep
    <3> QED
      BY <2>4, <3>5 DEF WriteThrough
  <2>5. CASE SpillFails(op)
    <3>1. PICK k \in 0 .. Len(buf) - 1 : Partly(k)
      BY <2>5 DEF SpillFails
    <3>2. k \in 0 .. Len(buf)
      BY <1>0 DEF TypeOK
    <3>3. InStep'
      BY <1>0, <2>0, <2>5, <3>1, <3>2, PartlyInStep DEF SpillFails
    <3> QED
      BY <2>5, <3>3 DEF SpillFails
  <2>6. CASE WriteThroughFails(op)
    <3>1. /\ file' \in {w} \cup {Put(w, ln) : ln \in Parts(op)}
          /\ buf' = <<>> /\ nlPending' = FALSE /\ failed' = TRUE /\ UNCHANGED <<handle, graph>>
      BY <2>6 DEF WriteThroughFails, w
    <3>2. CASE file' = w
      <4>1. ~Ragged(file)'
        BY <1>w, <2>0, <3>2 DEF Ragged
      <4>2. Len(buf') = 0
        BY <3>1
      <4> QED
        BY <1>0, <1>w, <2>0, <3>1, <3>2, <4>1, <4>2 DEF InStep, TypeOK
    <3>3. ASSUME NEW ln \in Line, file' = Put(w, ln)
          PROVE  handle' = handle /\ HalfWritten'
      <4>1. Len(file') = Len(graph') + 1
        BY <2>3, <3>1, <3>3
      <4>2. \A i \in 1 .. Len(graph) : file'[i] = w[i] /\ w[i].op = graph[i]
        BY <1>w, <2>0, <2>3, <3>3
      <4>3. \A i \in 1 .. Len(graph') : file'[i].op = graph'[i]
        BY <3>1, <4>2
      <4> QED
        BY <3>1, <4>1, <4>3 DEF HalfWritten, Idle
    <3>4. Parts(op) \subseteq Line
      BY <1>2, LineTypes
    <3> QED
      BY <3>1, <3>2, <3>3, <3>4
  <2> QED
    BY <1>2, <2>1, <2>2, <2>4, <2>5, <2>6 DEF Record
<1>3. CASE Drained /\ handle = "open" /\ UNCHANGED <<handle, graph, failed>>
  <2>1. file' = w /\ buf' = <<>> /\ nlPending' = FALSE /\ Len(buf') = 0
    BY <1>3 DEF Drained, w
  <2>2. CASE InStep
    <3>1. ~Ragged(file)'
      BY <1>w, <2>1, <2>2 DEF Ragged
    <3>2. InStep'
      BY <1>0, <1>3, <1>w, <2>1, <2>2, <3>1 DEF InStep, TypeOK
    <3> QED
      BY <1>3, <3>2 DEF HandleInv
  <2>3. CASE HalfWritten
    <3>1. w = file
      BY <1>0, <2>3, WrittenIdle DEF HalfWritten, w
    <3>2. HalfWritten'
      BY <1>3, <2>1, <2>3, <3>1 DEF HalfWritten, Idle
    <3> QED
      BY <1>3, <3>2 DEF HandleInv
  <2> QED
    BY <1>0, <1>3, <2>2, <2>3 DEF HandleInv
<1>4. CASE Batch
  <2>1. CASE Flush
    BY <1>3, <1>4, <2>1 DEF Batch, Flush
  <2>2. CASE FlushFails
    <3>1. InStep
      BY <1>0, <1>4 DEF Batch, HandleInv, HalfWritten
    <3>2. InStep'
      BY <1>0, <2>2, <3>1, PartlyInStep DEF FlushFails
    <3> QED
      BY <1>4, <2>2, <3>2 DEF FlushFails, Batch, HandleInv
  <2> QED
    BY <1>4, <2>1, <2>2 DEF Batch
<1>5. CASE Drain
  BY <1>3, <1>5 DEF Drain
<1>6. CASE Close
  BY <1>6 DEF Close, HandleInv, Idle
<1>7. CASE Crash
  BY <1>7 DEF Crash, HandleInv, Idle
<1>8. CASE UNCHANGED vars
  BY <1>0, <1>8 DEF vars, HandleInv, InStep, HalfWritten, Idle, Ragged
<1>9. ASSUME NEW op \in Ops, Record(op) PROVE HandleInv'
  BY <1>2, <1>9 DEF Record, HandleInv
<1> QED
  BY <1>1, <1>4, <1>5, <1>6, <1>7, <1>8, <1>9 DEF Next

\* The history: an acknowledgement covers what an fsync has covered.
LEMMA AckedStep ==
  ASSUME IInv, [Next]_vars
  PROVE  Len(acked') <= synced' /\ AckedIn(file)'
<1>0. TypeOK /\ GoodLines(file) /\ HandleInv /\ Len(acked) <= synced /\ FileOK' /\ OpsOK'
  BY FileStep, OpsStep DEF IInv
<1>1. CASE Flush /\ Batch
  <2>1. InStep
    BY <1>0, <1>1 DEF Batch, HandleInv, HalfWritten
  <2>2. /\ file' = Written(Len(buf)) /\ Len(file') = Len(graph)
        /\ \A i \in 1 .. Len(graph) : file'[i].op = graph[i]
    <3>1. file' = Written(Len(buf)) /\ Len(buf) \in 0 .. Len(buf)
      BY <1>0, <1>1 DEF Flush, Drained, TypeOK
    <3>2. Len(file') = Len(graph)
      BY <1>0, <2>1, <3>1, WrittenInStep DEF InStep, TypeOK
    <3>3. \A i \in 1 .. Len(file') : file'[i].op = graph[i]
      BY <1>0, <2>1, <3>1, WrittenInStep
    <3> QED
      BY <3>1, <3>2, <3>3
  <2>3. acked' = graph /\ synced' = Len(file')
    BY <1>1 DEF Flush, Drained
  <2> QED
    BY <1>0, <2>2, <2>3 DEF AckedIn, TypeOK
<1>2. CASE acked' = acked
  <2>1. AckedIn(file)'
    BY <1>2, DiskStep DEF AckedIn
  <2>2. CASE Open
    <3>1. /\ synced' = IF synced > Len(file') THEN Len(file') ELSE synced
          /\ file' = Repaired(file)
      BY <2>2 DEF Open
    <3>2. Len(acked) <= Len(file')
      BY <1>0, <3>1, AckedRepaired DEF IInv, TypeOK, OpsOK
    <3>3. Len(acked) <= synced'
      <4>1. CASE synced > Len(file')
        BY <3>1, <3>2, <4>1
      <4>2. CASE ~(synced > Len(file'))
        BY <1>0, <3>1, <4>2
      <4> QED
        BY <4>1, <4>2
    <3>4. Len(acked') <= synced'
      BY <1>2, <3>3
    <3> QED
      BY <2>1, <3>4
  <2>3. CASE synced' = synced
    BY <1>0, <1>2, <2>1, <2>3
  <2>4. CASE file' = Written(Len(buf)) /\ synced' = Len(file')
    BY <1>0, <1>2, <2>1, <2>4, WrittenType DEF TypeOK, FileOK
  <2>5. CASE Close
    BY <2>3, <2>4, <2>5 DEF Close
  <2>6. CASE Drain
    BY <2>4, <2>6 DEF Drain, Drained
  <2>7. CASE Batch /\ FlushFails
    BY <2>3, <2>7 DEF FlushFails
  <2>8. CASE Batch /\ Flush
    BY <1>1, <2>8
  <2>9. CASE Crash
    BY <2>3, <2>9 DEF Crash
  <2>10. ASSUME NEW op \in Ops, Record(op) PROVE synced' = synced
    BY <2>10 DEF Record, Buffer, Spill, WriteThrough, SpillFails, WriteThroughFails
  <2>11. CASE UNCHANGED vars
    BY <2>3, <2>11 DEF vars
  <2> QED
    BY <2>2, <2>3, <2>5, <2>6, <2>7, <2>8, <2>9, <2>10, <2>11 DEF Next, Batch
<1>3. acked' = acked \/ (Flush /\ Batch)
  BY DEF Next, Open, Batch, FlushFails, Drain, Close, Crash, Record, Buffer, Spill,
         WriteThrough, SpillFails, WriteThroughFails, vars
<1> QED
  BY <1>1, <1>2, <1>3

LEMMA InitInv ==
  ASSUME Init
  PROVE  IInv
<1>1. TypeOK
  <2>1. FlagsOK
    BY DEF Init, FlagsOK
  <2>2. OpsOK
    BY DEF Init, OpsOK
  <2>3. FileOK
    BY DEF Init, FileOK
  <2> QED
    BY <2>1, <2>2, <2>3 DEF FlagsOK, OpsOK, FileOK, TypeOK
<1>2. HandleInv
  BY DEF Init, HandleInv, Idle
<1>3. Len(file) = 0 /\ Len(acked) = 0 /\ synced = 0
  BY DEF Init
<1>4. GoodLines(file) /\ AckedIn(file) /\ Len(acked) <= synced
  BY <1>3 DEF GoodLines, AckedIn
<1> QED
  BY <1>1, <1>2, <1>4 DEF IInv

LEMMA InvStep ==
  ASSUME IInv, [Next]_vars
  PROVE  IInv'
<1>1. TypeOK'
  BY FlagsStep, OpsStep, FileStep DEF IInv, FlagsOK, OpsOK, FileOK, TypeOK
<1>2. GoodLines(file)'
  BY DiskStep DEF GoodLines
<1> QED
  BY <1>1, <1>2, HandleStep, AckedStep DEF IInv

\* Lines are complete, file, buffer and graph are in step, acknowledged lines
\* are fsynced: in every reachable state.
THEOREM InductiveInvariant == Spec => []IInv
<1>1. Init => IInv
  BY InitInv
<1>2. IInv /\ [Next]_vars => IInv'
  BY InvStep
<1> QED
  BY <1>1, <1>2, PTL DEF Spec

-----------------------------------------------------------------------------
(* What the log promises. *)

LEMMA AckedDurableHolds ==
  ASSUME IInv
  PROVE  AckedDurable
<1> DEFINE p == SubSeq(file, 1, synced)
<1>1. OpsOK /\ Len(acked) <= synced /\ AckedIn(file)
  BY DEF IInv, TypeOK, OpsOK
<1>2. p \in Seq(Line) /\ Len(p) = synced /\ \A i \in 1 .. synced : p[i] = file[i]
  BY DEF IInv, TypeOK
<1>3. synced \in Nat /\ Len(acked) \in Nat
  BY DEF IInv, TypeOK
<1>4. AckedIn(p)
  BY <1>1, <1>2, <1>3 DEF AckedIn
<1> HIDE DEF p
<1>5. Len(acked) <= Len(Repaired(p)) /\ AckedIn(Repaired(p)) /\ Repaired(p) \in Seq(Line)
  BY <1>1, <1>2, <1>4, AckedRepaired, RepairedType
<1>6. Survivors = [i \in 1 .. Len(Repaired(p)) |-> Repaired(p)[i].op]
  BY DEF Survivors, Replayed, p
<1>7. Len(Repaired(p)) \in Nat
  BY <1>5
<1>8. Len(Survivors) = Len(Repaired(p))
  BY <1>6, <1>7
<1>9. \A i \in 1 .. Len(acked) : Survivors[i] = acked[i]
  BY <1>3, <1>5, <1>6, <1>7 DEF AckedIn
<1> QED
  BY <1>5, <1>8, <1>9 DEF AckedDurable

\* An acknowledged flush means the data survived power loss: whatever fails,
\* dies or loses power, the fsynced part of the file replays to a sequence
\* that begins with everything acknowledged, in order.
THEOREM AckedSurvives == Spec => []AckedDurable
<1>1. IInv => AckedDurable
  BY AckedDurableHolds
<1> QED
  BY <1>1, InductiveInvariant, PTL

LEMMA OpenableHolds ==
  ASSUME IInv
  PROVE  Openable
<1> DEFINE f == IF EndsWithinCharacter(file) THEN SubSeq(file, 1, Len(file) - 1) ELSE file
<1>1. file \in Seq(Line) /\ GoodLines(file)
  BY DEF IInv, TypeOK
<1>2. CASE EndsWithinCharacter(file)
  <2>0. Len(file) \in Nat \ {0}
    BY <1>1, <1>2 DEF EndsWithinCharacter
  <2>1. Len(f) = Len(file) - 1 /\ \A i \in 1 .. Len(f) : f[i] = file[i]
    <3>1. f = SubSeq(file, 1, Len(file) - 1)
      BY <1>2
    <3> DEFINE n == Len(file) - 1
    <3>2. n \in Nat /\ n <= Len(file)
      BY <2>0
    <3>3. f = SubSeq(file, 1, n)
      BY <3>1
    <3> HIDE DEF f, n
    <3>4. Len(f) = n /\ \A i \in 1 .. n : f[i] = file[i]
      BY <1>1, <3>2, <3>3
    <3> QED
      BY <3>4 DEF n
  <2>2. \A i \in 1 .. Len(f) : f[i].op \in Ops
    BY <1>1, <2>0, <2>1 DEF GoodLines
  <2>3. Len(f) \in Nat /\ (f # <<>> => Len(f) \in 1 .. Len(f))
    BY <1>1, <1>2, <2>0, <2>1
  <2> HIDE DEF f
  <2> QED
    BY <2>2, <2>3, OpsAssumption DEF CanOpen, Corrupt, EndsWithinCharacter, Openable, f
<1>3. CASE ~EndsWithinCharacter(file)
  BY <1>1, <1>3 DEF GoodLines, Openable, CanOpen, Corrupt
<1> QED
  BY <1>2, <1>3

\* The last record is the only bad one there ever is: no failed write, kill,
\* power loss or restart leaves a log that open() refuses, but for a last line
\* that ends within a character.
THEOREM OpenableAgain == Spec => []Openable
<1>1. IInv => Openable
  BY OpenableHolds
<1> QED
  BY <1>1, InductiveInvariant, PTL

\* The operation whose direct write failed, as far as the file tells.
Doubt ==
  IF handle = "open" /\ Len(file) = Len(graph) + 1 /\ file[Len(file)].op \in Ops
  THEN file[Len(file)].op ELSE NoOp

\* A file that agrees with another up to its length, or up to a torn last line,
\* replays to a prefix.
LEMMA ReplayPrefix ==
  ASSUME NEW w \in Seq(Line), GoodLines(w), NEW f \in Seq(Line), GoodLines(f), Len(f) <= Len(w),
         \A i \in 1 .. Len(f) : f[i].op = w[i].op \/ (i = Len(f) /\ f[i].op \notin Ops)
  PROVE  /\ Replayed(w) \in Seq(Ops) /\ Replayed(f) \in Seq(Ops)
         /\ Len(Replayed(f)) = Len(Repaired(f))
         /\ Len(Replayed(f)) <= Len(Replayed(w))
         /\ Replayed(f) = SubSeq(Replayed(w), 1, Len(Replayed(f)))
<1> DEFINE p == Replayed(w)
           q == Replayed(f)
<1>1. ~Corrupt(w) /\ ~Corrupt(f)
  BY DEF GoodLines, Corrupt
<1>2. /\ p \in Seq(Ops) /\ Len(p) = Len(Repaired(w))
      /\ q \in Seq(Ops) /\ Len(q) = Len(Repaired(f))
  BY <1>1, ReplayedType
<1>3. Len(q) <= Len(p)
  <2>1. CASE Len(f) < Len(w)
    BY <1>2, <2>1, RepairedType
  <2>2. CASE Len(f) = Len(w) /\ f # <<>>
    <3>1. Len(f) \in 1 .. Len(f)
      BY <2>2
    <3>2. f[Len(f)].op \notin Ops \/ f[Len(f)].op = w[Len(w)].op
      BY <2>2, <3>1
    <3>3. CASE f[Len(f)].op \notin Ops
      <4>1. Len(Repaired(f)) = Len(f) - 1
        BY <2>2, <3>3 DEF Repaired
      <4> QED
        BY <1>2, <2>2, <4>1, RepairedType
    <3>4. CASE w[Len(w)].op \in Ops
      BY <1>2, <2>2, <3>4, RepairedType
    <3> QED
      BY <3>2, <3>3, <3>4
  <2>3. CASE f = <<>>
    <3>1. Len(f) = 0
      BY <2>3
    <3>2. Len(Repaired(f)) = 0
      BY <2>3, <3>1 DEF Repaired
    <3> HIDE DEF p, q
    <3> QED
      BY <1>2, <3>2
  <2> QED
    BY <2>1, <2>2, <2>3
<1>4. \A i \in 1 .. Len(q) : q[i] = p[i]
  <2> TAKE i \in 1 .. Len(q)
  <2>1. i \in 1 .. Len(Repaired(f)) /\ i \in 1 .. Len(Repaired(w)) /\ i \in 1 .. Len(f)
    BY <1>2, <1>3, RepairedType
  <2>2. q[i] = Repaired(f)[i].op /\ p[i] = Repaired(w)[i].op
    BY <2>1 DEF Replayed
  <2>3. q[i] = f[i].op /\ p[i] = w[i].op
    BY <2>1, <2>2, RepairedType
  <2>4. f[i].op \in Ops
    BY <1>2, <2>1, <2>3, OpsAssumption
  <2> QED
    BY <2>1, <2>3, <2>4
<1> HIDE DEF p, q
<1>5. q = SubSeq(p, 1, Len(q))
  <2>1. /\ SubSeq(p, 1, Len(q)) \in Seq(Ops) /\ Len(SubSeq(p, 1, Len(q))) = Len(q)
        /\ \A i \in 1 .. Len(q) : SubSeq(p, 1, Len(q))[i] = p[i]
    BY <1>2, <1>3
  <2> QED
    BY <1>2, <1>4, <2>1, SeqEqual
<1> QED
  BY <1>2, <1>3, <1>5 DEF p, q

\* With the buffer written out, a replay gives the graph in memory, and perhaps
\* the operation in doubt.
LEMMA OpenReplay ==
  ASSUME IInv, handle = "open"
  PROVE  LET r == Replayed(Written(Len(buf))) IN
           \/ r = graph
           \/ failed /\ Doubt \in Ops /\ r = Append(graph, Doubt)
<1> DEFINE w == Written(Len(buf))
           r == Replayed(w)
<1>1. TypeOK /\ GoodLines(file) /\ (InStep \/ HalfWritten)
  BY DEF IInv, HandleInv
<1>2. w \in Seq(Line) /\ ~Corrupt(w) /\ Len(graph) \in Nat /\ graph \in Seq(Ops)
  BY <1>1, WrittenSound DEF TypeOK, GoodLines, Corrupt
<1>3. /\ r \in Seq(Ops) /\ Len(r) = Len(Repaired(w)) /\ \A i \in 1 .. Len(r) : r[i] = w[i].op
  <2>1. r \in Seq(Ops) /\ Len(r) = Len(Repaired(w))
    BY <1>2, ReplayedType
  <2>2. \A i \in 1 .. Len(Repaired(w)) : r[i] = Repaired(w)[i].op
    BY DEF Replayed
  <2> QED
    BY <1>2, <2>1, <2>2, RepairedType
<1>4. CASE InStep
  <2>1. Len(w) = Len(graph) /\ \A i \in 1 .. Len(graph) : w[i].op = graph[i]
    <3>1. Len(w) = Len(graph)
      BY <1>1, <1>4, WrittenInStep DEF InStep, TypeOK
    <3>2. \A i \in 1 .. Len(w) : w[i].op = graph[i]
      BY <1>1, <1>4, WrittenInStep DEF TypeOK
    <3> QED
      BY <3>1, <3>2
  <2> HIDE DEF w, r
  <2>2. \A i \in 1 .. Len(w) : w[i].op \in Ops
    BY <1>2, <2>1, OpsAssumption
  <2>3. Repaired(w) = w
    BY <1>2, <2>2 DEF Repaired
  <2>4. r = graph
    BY <1>2, <1>3, <2>1, <2>3, SeqEqual
  <2> QED
    BY <2>4 DEF r, w
<1>5. CASE HalfWritten
  <2>1. /\ w = file /\ Len(w) = Len(graph) + 1 /\ \A i \in 1 .. Len(graph) : w[i].op = graph[i]
        /\ failed /\ Doubt = IF w[Len(w)].op \in Ops THEN w[Len(w)].op ELSE NoOp
    BY <1>1, <1>5, WrittenIdle DEF HalfWritten, Doubt
  <2> HIDE DEF w, r
  <2>2. CASE w[Len(w)].op \notin Ops
    <3>1. Len(Repaired(w)) = Len(graph)
      BY <1>2, <2>1, <2>2 DEF Repaired
    <3>2. r = graph
      BY <1>2, <1>3, <2>1, <3>1, SeqEqual
    <3> QED
      BY <3>2 DEF r, w
  <2>3. CASE w[Len(w)].op \in Ops
    <3>1. Repaired(w) = w /\ w[Len(w)] \in Line
      BY <1>2, <2>1, <2>3 DEF Repaired
    <3>2. Doubt \in Ops
      BY <2>1, <2>3, <3>1 DEF Line
    <3>3. /\ Append(graph, Doubt) \in Seq(Ops) /\ Len(Append(graph, Doubt)) = Len(graph) + 1
          /\ Append(graph, Doubt)[Len(graph) + 1] = Doubt
          /\ \A i \in 1 .. Len(graph) : Append(graph, Doubt)[i] = graph[i]
      BY <1>2, <3>2
    <3>4. \A i \in 1 .. Len(r) : r[i] = Append(graph, Doubt)[i]
      <4> TAKE i \in 1 .. Len(r)
      <4>1. r[i] = w[i].op /\ i \in 1 .. Len(graph) + 1
        BY <1>2, <1>3, <2>1, <3>1
      <4>2. Doubt = w[Len(w)].op /\ Len(w) = Len(graph) + 1
        BY <2>1, <2>3
      <4>3. CASE i \in 1 .. Len(graph)
        BY <2>1, <3>3, <4>1, <4>3
      <4>4. CASE i = Len(graph) + 1
        BY <3>3, <4>1, <4>2, <4>4
      <4> QED
        BY <1>2, <4>1, <4>3, <4>4
    <3>5. r = Append(graph, Doubt)
      BY <1>2, <1>3, <2>1, <3>1, <3>3, <3>4, SeqEqual
    <3> QED
      BY <2>1, <3>2, <3>5 DEF r, w
  <2> QED
    BY <2>2, <2>3
<1> QED
  BY <1>1, <1>4, <1>5

\* The WAL is the database: a replay of the log with the buffer written out is
\* the graph in memory, or that and the one operation whose direct write
\* failed after the whole of its content.
THEOREM ReplayGivesGraph == Spec => []ReplayIsGraph
<1>1. IInv => ReplayIsGraph
  <2> SUFFICES ASSUME IInv, handle = "open", Doubt \in Ops
               PROVE  /\ Len(Append(graph, Doubt)) = Len(graph) + 1
                      /\ SubSeq(Append(graph, Doubt), 1, Len(graph)) = graph
    BY OpenReplay DEF ReplayIsGraph
  <2> DEFINE q == SubSeq(Append(graph, Doubt), 1, Len(graph))
  <2>1. graph \in Seq(Ops)
    BY DEF IInv, TypeOK
  <2>2. q \in Seq(Ops) /\ Len(q) = Len(graph) /\ \A i \in 1 .. Len(graph) : q[i] = graph[i]
    BY <2>1
  <2>3. q = graph
    BY <2>1, <2>2, SeqEqual
  <2> QED
    BY <2>1, <2>3
<1> QED
  BY <1>1, InductiveInvariant, PTL

-----------------------------------------------------------------------------
(* The log implements DurableLog. *)

\* The end of a process is a loss of operations behind those acknowledged, or
\* the discovery of the one in doubt.
LEMMA LossStep ==
  ASSUME IInv, [Next]_vars, Close \/ Crash
  PROVE  DL!Next
<1> DEFINE w == Written(Len(buf))
           p == Replayed(w)
           q == Replayed(file')
           m == Len(q)
<1>1. /\ TypeOK /\ GoodLines(file) /\ HandleInv /\ Len(acked) <= synced /\ synced <= Len(file)
      /\ w \in Seq(Line) /\ Len(file) <= Len(w) /\ GoodLines(w)
  BY WrittenSound DEF IInv, TypeOK
<1>2. IInv' /\ file' \in Seq(Line) /\ GoodLines(file') /\ acked' = acked /\ handle' = "closed" /\ AckedIn(file')
  <2>1. IInv' /\ file' \in Seq(Line)
    BY InvStep, FileStep DEF IInv, FileOK
  <2>2. acked' = acked /\ handle' = "closed"
    BY DEF Close, Crash
  <2> QED
    BY <2>1, <2>2, DiskStep
<1>3. /\ Len(acked) <= Len(file') /\ Len(file') <= Len(w)
      /\ \A i \in 1 .. Len(file') : file'[i].op = w[i].op \/ (i = Len(file') /\ file'[i].op \notin Ops)
  <2> HIDE DEF w, p, q, m
  <2>1. CASE file' = file /\ (handle = "closed" \/ HalfWritten)
    <3>1. w = file
      BY <1>1, <2>1, WrittenIdle DEF HandleInv, HalfWritten, w
    <3> QED
      BY <1>1, <2>1, <3>1 DEF TypeOK
  <2>2. ASSUME InStep, NEW k \in 0 .. Len(buf), file' = Written(k)
        PROVE  /\ Len(acked) <= Len(file') /\ Len(file') <= Len(w)
               /\ \A i \in 1 .. Len(file') : file'[i].op = w[i].op
    <3>1. Len(w) = Len(graph) /\ \A i \in 1 .. Len(w) : w[i].op = graph[i]
      BY <1>1, <2>2, WrittenInStep DEF InStep, TypeOK, w
    <3>2. Len(file') = Len(file) + k /\ \A i \in 1 .. Len(file') : file'[i].op = graph[i]
      BY <1>1, <2>2, WrittenInStep
    <3>3. Len(file) \in Nat /\ Len(buf) \in Nat /\ Len(acked) \in Nat /\ synced \in Nat
          /\ Len(graph) = Len(file) + Len(buf)
      BY <1>1, <2>2 DEF TypeOK, InStep
    <3> QED
      BY <1>1, <3>1, <3>2, <3>3
  <2>3. CASE file' = file /\ InStep
    <3>1. Len(w) = Len(graph) /\ \A i \in 1 .. Len(w) : w[i].op = graph[i]
      BY <1>1, <2>3, WrittenInStep DEF InStep, TypeOK, w
    <3> QED
      BY <1>1, <2>3, <3>1 DEF InStep, TypeOK
  <2>4. ASSUME NEW n \in synced .. Len(w), file' = SubSeq(w, 1, n)
        PROVE  /\ Len(acked) <= Len(file') /\ Len(file') <= Len(w)
               /\ \A i \in 1 .. Len(file') : file'[i].op = w[i].op
    <3>1. n \in Nat /\ n <= Len(w) /\ Len(acked) <= n
      BY <1>1, <2>4 DEF TypeOK
    <3> QED
      BY <1>1, <2>4, <3>1
  <2>5. ASSUME NEW n \in synced .. Len(w) - 1, NEW ln \in Line, ln.op \notin Ops \/ ln.op = w[n + 1].op,
               file' = Append(SubSeq(w, 1, n), ln)
        PROVE  /\ Len(acked) <= Len(file') /\ Len(file') <= Len(w)
               /\ \A i \in 1 .. Len(file') : file'[i].op = w[i].op \/ (i = Len(file') /\ file'[i].op \notin Ops)
    <3>1. n \in Nat /\ n < Len(w) /\ Len(acked) <= n
      BY <1>1, <2>5 DEF TypeOK
    <3>2. SubSeq(w, 1, n) \in Seq(Line) /\ Len(SubSeq(w, 1, n)) = n
          /\ \A i \in 1 .. n : SubSeq(w, 1, n)[i] = w[i]
      BY <1>1, <3>1
    <3>3. /\ Len(file') = n + 1 /\ file'[n + 1] = ln
          /\ \A i \in 1 .. n : file'[i] = w[i]
      BY <2>5, <3>1, <3>2
    <3>4. Len(acked) <= Len(file') /\ Len(file') <= Len(w)
      BY <1>1, <3>1, <3>3 DEF TypeOK
    <3> QED
      BY <2>5, <3>1, <3>3, <3>4
  <2>6. CASE Close
    <3>1. CASE InStep
      BY <2>2, <2>3, <2>6, <3>1 DEF Close
    <3>2. CASE HalfWritten
      <4>1. Len(buf) = 0 /\ Written(0) = file
        BY <1>1, <3>2, WrittenIdle DEF HalfWritten
      <4>2. file' = file
        BY <1>1, <2>6, <4>1 DEF Close
      <4> QED
        BY <2>1, <3>2, <4>2
    <3> QED
      BY <1>1, <2>6, <3>1, <3>2 DEF Close, HandleInv
  <2>7. CASE Crash
    <3>1. CASE \E n \in synced .. Len(w) : file' = SubSeq(w, 1, n)
      BY <2>4, <3>1
    <3>2. ASSUME NEW n \in synced .. Len(w) - 1,
                 file' \in {Append(SubSeq(w, 1, n), ln) : ln \in Parts(w[n + 1].op)}
          PROVE  /\ Len(acked) <= Len(file') /\ Len(file') <= Len(w)
                 /\ \A i \in 1 .. Len(file') : file'[i].op = w[i].op \/ (i = Len(file') /\ file'[i].op \notin Ops)
      <4>1. Torn.op \notin Ops /\ Split.op \notin Ops /\ Cut(w[n + 1].op).op = w[n + 1].op
        BY OpsAssumption DEF Torn, Split, Cut
      <4>2. w[n + 1] \in Line
        BY <1>1 DEF TypeOK
      <4>3. Parts(w[n + 1].op) \subseteq Line
        BY <4>2, LineTypes DEF Line
      <4>4. PICK ln \in Parts(w[n + 1].op) : file' = Append(SubSeq(w, 1, n), ln)
        BY <3>2
      <4>5. ln \in Line /\ (ln.op \notin Ops \/ ln.op = w[n + 1].op)
        BY <4>1, <4>3, <4>4 DEF Parts
      <4> QED
        BY <2>5, <4>4, <4>5
    <3> QED
      BY <2>7, <3>1, <3>2 DEF Crash, w
  <2> QED
    BY <2>6, <2>7
<1>4. /\ p \in Seq(Ops) /\ q \in Seq(Ops) /\ m <= Len(p) /\ q = SubSeq(p, 1, m)
      /\ m = Len(Repaired(file'))
  BY <1>1, <1>2, <1>3, ReplayPrefix
<1>5. Len(acked) \in Nat /\ Len(acked) <= m
  BY <1>1, <1>2, <1>3, <1>4, AckedRepaired DEF TypeOK, OpsOK
<1>6. View \in Seq(Ops) /\ (p = View \/ (Doubt \in Ops /\ p = Append(View, Doubt)))
  <2>1. CASE handle = "open"
    BY <1>1, <2>1, OpenReplay DEF View, TypeOK
  <2>2. CASE handle = "closed"
    <3>1. w = file
      BY <1>1, <2>2, WrittenIdle DEF HandleInv
    <3> QED
      BY <1>4, <2>2, <3>1 DEF View
  <2> QED
    BY <1>1, <2>1, <2>2 DEF TypeOK
<1>7. View' = q /\ Doubt' = NoOp
  BY <1>2 DEF View, Doubt
<1> HIDE DEF w, p, q, m
<1>8. CASE m <= Len(View)
  <2>1. m \in Len(acked) .. Len(View)
    BY <1>4, <1>5, <1>6, <1>8 DEF m
  <2>2. q = SubSeq(View, 1, m)
    <3>1. /\ SubSeq(View, 1, m) \in Seq(Ops) /\ Len(SubSeq(View, 1, m)) = m
          /\ \A i \in 1 .. m : SubSeq(View, 1, m)[i] = View[i]
      BY <1>5, <1>6, <1>8, <2>1
    <3>2. Len(q) = m /\ \A i \in 1 .. m : q[i] = p[i]
      BY <1>4, <1>5, <2>1 DEF m
    <3>3. \A i \in 1 .. m : p[i] = View[i]
      BY <1>6, <1>8, <2>1
    <3> QED
      BY <1>4, <3>1, <3>2, <3>3, SeqEqual
  <2>3. DL!Lose(m)
    BY <1>2, <1>7, <2>1, <2>2 DEF DL!Lose, Doubt
  <2> QED
    BY <2>1, <2>3 DEF DL!Next
<1>9. CASE ~(m <= Len(View))
  <2>1. Doubt \in Ops /\ p = Append(View, Doubt) /\ Len(p) = Len(View) + 1 /\ m = Len(p)
    BY <1>4, <1>6, <1>9 DEF m
  <2>2. q = p
    BY <1>4, <2>1
  <2>3. DL!AdoptDoubt
    BY <1>2, <1>7, <2>1, <2>2, OpsAssumption DEF DL!AdoptDoubt, Doubt
  <2> QED
    BY <2>3 DEF DL!Next
<1> QED
  BY <1>8, <1>9

\* A write of an open handle that has not failed.
LEMMA RecordStep ==
  ASSUME IInv, [Next]_vars, NEW op \in Ops, Record(op)
  PROVE  [DL!Next]_(DL!vars)
<1>1. TypeOK /\ GoodLines(file) /\ InStep /\ HandleInv' /\ handle = "open" /\ handle' = "open"
  BY HandleStep
  DEF IInv, HandleInv, HalfWritten, Record, Buffer, Spill, WriteThrough, SpillFails, WriteThroughFails
<1>2. acked' = acked /\ Doubt = NoOp /\ View = graph /\ View' = graph'
  BY <1>1 DEF Record, Buffer, Spill, WriteThrough, SpillFails, WriteThroughFails, View, Doubt, InStep, TypeOK
<1>3. ASSUME InStep' PROVE Doubt' = NoOp
  <2>1. IInv'
    BY InvStep
  <2> QED
    BY <1>3, <2>1 DEF IInv, InStep, Doubt, TypeOK
<1>4. CASE graph' = Append(graph, op) /\ failed' = FALSE
  <2>1. InStep'
    BY <1>1, <1>4 DEF HandleInv, HalfWritten
  <2>2. DL!AppendOp(op)
    BY <1>2, <1>3, <1>4, <2>1 DEF DL!AppendOp, Doubt
  <2> QED
    BY <2>2 DEF DL!Next
<1>5. CASE graph' = graph /\ Doubt' = NoOp
  BY <1>2, <1>5 DEF DL!vars, Doubt
<1>6. CASE SpillFails(op)
  <2>1. PICK k \in 0 .. Len(buf) - 1 : Partly(k)
    BY <1>6 DEF SpillFails
  <2>2. k \in 0 .. Len(buf) /\ graph' = graph
    BY <1>1, <1>6 DEF SpillFails, TypeOK
  <2>3. InStep'
    BY <1>1, <2>1, <2>2, PartlyInStep
  <2> QED
    BY <1>3, <1>5, <2>2, <2>3
<1>7. CASE WriteThroughFails(op)
  <2> DEFINE w == Written(Len(buf))
  <2>1. w \in Seq(Line) /\ Len(w) = Len(graph) /\ ~Ragged(w) /\ Len(graph) \in Nat
    BY <1>1, WrittenInStep DEF InStep, TypeOK
  <2>2. file' \in {w} \cup {Put(w, ln) : ln \in Parts(op)} /\ graph' = graph
    BY <1>7 DEF WriteThroughFails
  <2> HIDE DEF w
  <2>3. CASE file' = w
    <3>1. Doubt' = NoOp
      BY <2>1, <2>2, <2>3 DEF Doubt
    <3> QED
      BY <1>5, <2>2, <3>1
  <2>4. ASSUME NEW ln \in Line, file' = Put(w, ln)
        PROVE  Doubt' = IF ln.op \in Ops THEN ln.op ELSE NoOp
    <3>1. file' = Append(w, ln)
      BY <2>1, <2>4, PutType
    <3>2. Len(file') = Len(graph') + 1 /\ file'[Len(file')] = ln
      BY <2>1, <2>2, <3>1
    <3> QED
      BY <1>1, <3>2 DEF Doubt
  <2>5. CASE file' = Put(w, Torn) \/ file' = Put(w, Split)
    <3>1. Doubt' = NoOp
      BY <2>4, <2>5, LineTypes, OpsAssumption DEF Torn, Split
    <3> QED
      BY <1>5, <2>2, <3>1
  <2>6. CASE file' = Put(w, Cut(op))
    <3>1. Doubt' = op
      BY <2>4, <2>6, LineTypes DEF Cut
    <3>2. DL!FailOp(op)
      BY <1>2, <2>2, <3>1 DEF DL!FailOp, Doubt
    <3> QED
      BY <3>2 DEF DL!Next
  <2> QED
    BY <2>2, <2>3, <2>5, <2>6 DEF Parts
<1>8. CASE Buffer(op) \/ Spill(op) \/ WriteThrough(op)
  <2>1. graph' = Append(graph, op) /\ failed' = failed
    BY <1>8 DEF Buffer, Spill, WriteThrough, Apply
  <2>2. failed = FALSE
    BY <1>1 DEF Record, TypeOK
  <2> QED
    BY <1>4, <2>1, <2>2
<1> QED
  BY <1>6, <1>7, <1>8 DEF Record

\* flush(), on behalf of a caller or of nobody.
LEMMA FlushStep ==
  ASSUME IInv, [Next]_vars, Batch \/ Drain
  PROVE  [DL!Next]_(DL!vars)
<1>1. /\ TypeOK /\ GoodLines(file) /\ (InStep \/ HalfWritten)
      /\ handle = "open" /\ handle' = "open" /\ graph' = graph
      /\ View = graph /\ View' = graph'
  BY DEF IInv, HandleInv, Batch, Drain, Flush, FlushFails, View
<1>2. ASSUME InStep PROVE Doubt = NoOp
  BY <1>1, <1>2 DEF InStep, Doubt, TypeOK
<1>3. ASSUME InStep' PROVE Doubt' = NoOp
  <2>1. IInv'
    BY InvStep
  <2> QED
    BY <1>3, <2>1 DEF IInv, InStep, Doubt, TypeOK
<1>4. CASE Drained
  <2>1. Doubt' = Doubt
    <3>1. CASE InStep
      <4>1. Len(file') = Len(graph')
        BY <1>1, <1>4, <3>1, WrittenInStep DEF Drained, InStep, TypeOK
      <4> QED
        BY <1>1, <1>2, <3>1, <4>1 DEF Doubt, TypeOK
    <3>2. CASE HalfWritten
      <4>1. file' = file
        BY <1>1, <1>4, <3>2, WrittenIdle DEF Drained, HalfWritten
      <4> QED
        BY <1>1, <4>1 DEF Doubt
    <3> QED
      BY <1>1, <3>1, <3>2
  <2>2. CASE acked' = graph
    <3>1. DL!Acknowledge
      BY <1>1, <2>1, <2>2 DEF DL!Acknowledge, Doubt
    <3> QED
      BY <3>1 DEF DL!Next
  <2>3. CASE acked' = acked
    BY <1>1, <2>1, <2>3 DEF DL!vars, Doubt
  <2>4. acked' = graph \/ acked' = acked
    BY DEF Batch, Drain, Flush, FlushFails
  <2> QED
    BY <2>2, <2>3, <2>4
<1>5. CASE Batch /\ FlushFails
  <2>1. InStep /\ acked' = acked
    BY <1>1, <1>5 DEF Batch, HalfWritten, FlushFails
  <2>2. InStep'
    BY <1>1, <1>5, <2>1, PartlyInStep DEF FlushFails
  <2> QED
    BY <1>1, <1>2, <1>3, <2>1, <2>2 DEF DL!vars, Doubt
<1> QED
  BY <1>4, <1>5 DEF Batch, Drain, Flush

LEMMA OpenStep ==
  ASSUME IInv, [Next]_vars, Open
  PROVE  UNCHANGED DL!vars
<1>1. View' = View /\ Doubt = NoOp /\ acked' = acked
  BY DEF Open, View, Doubt
<1>2. Len(graph') = Len(file') /\ Len(file') \in Nat
  BY ReplayedType, RepairedType DEF Open, CanOpen, IInv, TypeOK
<1>3. Doubt' = NoOp
  BY <1>2 DEF Doubt
<1> QED
  BY <1>1, <1>3 DEF DL!vars, Doubt

LEMMA AbstractInit ==
  ASSUME Init
  PROVE  DL!Init
<1>1. file = <<>> /\ handle = "closed" /\ acked = <<>>
  BY DEF Init
<1>2. Repaired(file) = <<>> /\ Len(Repaired(file)) = 0
  BY <1>1 DEF Repaired
<1>3. Replayed(file) = <<>>
  BY <1>2 DEF Replayed
<1> QED
  BY <1>1, <1>3 DEF DL!Init, View

\* A step of the log is one of the abstract log, or changes nothing of it.
LEMMA AbstractStep ==
  ASSUME IInv, [Next]_vars
  PROVE  [DL!Next]_(DL!vars)
<1>1. CASE Open
  BY <1>1, OpenStep
<1>2. ASSUME NEW op \in Ops, Record(op) PROVE [DL!Next]_(DL!vars)
  BY <1>2, RecordStep
<1>3. CASE Batch \/ Drain
  BY <1>3, FlushStep
<1>4. CASE Close \/ Crash
  BY <1>4, LossStep
<1>5. CASE UNCHANGED vars
  BY <1>5 DEF vars, DL!vars, View
<1> QED
  BY <1>1, <1>2, <1>3, <1>4, <1>5 DEF Next

\* The log implements the abstract one: whatever the file, the buffer and the
\* handle go through, a reader sees a sequence that only grows at its end,
\* loses at most what no flush() has acknowledged, and may find the one
\* operation whose write was reported as failed.
THEOREM LogImplementsAbstract == Spec => Abstract
<1>1. Init => DL!Init
  BY AbstractInit
<1>2. IInv /\ [Next]_vars => [DL!Next]_(DL!vars)
  BY AbstractStep
<1> QED
  BY <1>1, <1>2, InductiveInvariant, PTL DEF Spec, Abstract, DL!Spec

-----------------------------------------------------------------------------
(* The database: workers that pass the gate and hold the write lock, any   *)
(* number of them, on top of what is proved of the log.                    *)

DbTypeOK ==
  /\ passed \subseteq Workers /\ holder \in Workers \cup {NoWorker}
  /\ stragglers \in Nat /\ straggled \in BOOLEAN /\ failed \in BOOLEAN

\* Nobody is let in but by the gate, and a holder whose handle has failed was
\* let in after the failure: the one that fails lets go at once.
LetIn ==
  /\ passed # {} => handle = "open"
  /\ holder # NoWorker => holder \in passed /\ (failed => straggled)

\* The workers the gate let pass before the failure, but for the one that
\* failed, are all that can still come.
Counted ==
  IF failed
  THEN stragglers + Cardinality(passed \ {holder}) <= Cardinality(Workers) - 1
  ELSE stragglers = 0

DbInv ==
  /\ DbTypeOK /\ LetIn /\ Counted
  /\ ~straggled => IInv

-----------------------------------------------------------------------------
(* What the steps of the database are to its log. *)

\* But for the operations of a holder on a handle that has failed, every step
\* is one of a caller that stops at the first error.
LEMMA LogStep ==
  ASSUME DbTypeOK, LetIn, [DbNext]_dbVars, ~straggled'
  PROVE  ~straggled /\ [Next]_vars
<1> USE DEF DbTypeOK, LetIn
<1>1. ~straggled
  <2>1. straggled' = straggled \/ straggled' = (straggled \/ failed)
    BY DEF DbNext, dbVars, Gate, Acquire, RecordOp, RecordOpFails, EndBatch, DrainDb, Restart
  <2> QED
    BY <2>1, Zenon
<1>2. CASE \E w \in Workers : Gate(w) \/ Acquire(w)
  BY <1>2 DEF Gate, Acquire
<1>3. ASSUME NEW op \in Ops, RecordOp(op) \/ RecordOpFails(op) PROVE [Next]_vars
  <2>1. Record(op)
    BY <1>1, <1>3 DEF RecordOp, RecordOpFails, Record
  <2>2. \E o \in Ops : Record(o)
    BY <2>1
  <2>3. Next
    BY <2>2, Zenon DEF Next
  <2> QED
    BY <2>3
<1>4. CASE EndBatch
  <2>1. Batch
    BY <1>1, <1>4 DEF EndBatch, Batch
  <2>2. Next
    BY <2>1, Zenon DEF Next
  <2> QED
    BY <1>1, <2>2
<1>5. CASE DrainDb
  BY <1>5 DEF DrainDb, Next
<1>6. CASE Restart
  BY <1>6 DEF Restart, Next
<1>7. CASE UNCHANGED dbVars
  BY <1>7 DEF dbVars
<1> QED
  BY <1>1, <1>2, <1>3, <1>4, <1>5, <1>6, <1>7 DEF DbNext

\* What an operation of the holder may do to the handle and its flag.
LEMMA HolderStep ==
  /\ \A op \in Ops : RecordOp(op) => UNCHANGED <<handle, failed, passed, holder, stragglers, straggled>>
  /\ \A op \in Ops : RecordOpFails(op) =>
       holder # NoWorker /\ failed' = TRUE /\ Release /\ UNCHANGED <<handle, stragglers, straggled>>
  /\ EndBatch =>
       holder # NoWorker /\ failed' \in {failed, TRUE} /\ Release /\ UNCHANGED <<handle, stragglers, straggled>>
BY DEF RecordOp, RecordOpFails, EndBatch, Buffer, Spill, WriteThrough, SpillFails, WriteThroughFails,
       Flush, FlushFails

LEMMA LetInStep ==
  ASSUME DbTypeOK, LetIn, [DbNext]_dbVars
  PROVE  DbTypeOK' /\ LetIn'
<1> DEFINE Goal == DbTypeOK' /\ LetIn'
<1> USE WorkersAssumption DEF DbTypeOK, LetIn
<1>1. ASSUME NEW w \in Workers, Gate(w) PROVE Goal
  BY <1>1 DEF Gate, vars
<1>2. ASSUME NEW w \in Workers, Acquire(w) PROVE Goal
  <2>1. straggled' = (straggled \/ failed) /\ stragglers' \in Nat
    BY <1>2 DEF Acquire
  <2>2. straggled' \in BOOLEAN /\ (failed => straggled')
    BY <2>1, Zenon
  <2>3. w \in passed /\ holder' = w /\ UNCHANGED <<passed, handle, failed>>
    BY <1>2 DEF Acquire, vars
  <2> QED
    BY <2>1, <2>2, <2>3
<1>3. ASSUME NEW op \in Ops, RecordOp(op) PROVE Goal
  BY <1>3, HolderStep
<1>4. ASSUME NEW op \in Ops, RecordOpFails(op) PROVE Goal
  BY <1>4, HolderStep DEF Release
<1>5. CASE EndBatch
  BY <1>5, HolderStep DEF Release
<1>6. CASE DrainDb
  BY <1>6 DEF DrainDb, Drain
<1>7. CASE Restart
  BY <1>7 DEF Restart, Open, Crash, Close
<1>8. CASE UNCHANGED dbVars
  BY <1>8 DEF dbVars, vars
<1> QED
  BY <1>1, <1>2, <1>3, <1>4, <1>5, <1>6, <1>7, <1>8 DEF DbNext

\* A worker fewer waits behind the gate for each straggler that gets through.
LEMMA CountedStep ==
  ASSUME DbTypeOK, LetIn, Counted, [DbNext]_dbVars
  PROVE  Counted'
<1> USE WorkersAssumption DEF DbTypeOK, LetIn
<1>0. /\ Cardinality(Workers) \in Nat /\ Cardinality(Workers) >= 1
      /\ IsFiniteSet(passed) /\ Cardinality(passed) \in Nat
      /\ Cardinality(passed) <= Cardinality(Workers)
  BY FS_Subset, FS_CardinalityType, FS_EmptySet
<1>h. \A w \in passed : /\ Cardinality(passed \ {w}) = Cardinality(passed) - 1
                        /\ Cardinality(passed \ {w}) <= Cardinality(Workers) - 1
  <2> TAKE w \in passed
  <2>1. Cardinality(passed \ {w}) = Cardinality(passed) - 1
    BY <1>0, FS_RemoveElement
  <2> QED
    BY <1>0, <2>1
<1>n. holder = NoWorker => passed \ {holder} = passed
  OBVIOUS
<1>r. Release /\ holder # NoWorker => passed' \ {holder'} = passed \ {holder}
  BY DEF Release
<1>1. ASSUME NEW w \in Workers, Gate(w) PROVE Counted'
  BY <1>1 DEF Gate, vars, Counted
<1>2. ASSUME NEW w \in Workers, Acquire(w) PROVE Counted'
  <2>1. /\ w \in passed /\ holder = NoWorker /\ holder' = w
        /\ passed' = passed /\ failed' = failed
        /\ stragglers' = IF failed THEN stragglers + 1 ELSE stragglers
    BY <1>2 DEF Acquire, vars
  <2>2. passed' \ {holder'} = passed \ {w} /\ passed \ {holder} = passed
    BY <1>n, <2>1
  <2>3. Cardinality(passed \ {w}) = Cardinality(passed) - 1
    BY <1>h, <2>1
  <2> QED
    BY <1>0, <2>1, <2>2, <2>3 DEF Counted
<1>3. ASSUME NEW op \in Ops, RecordOp(op) PROVE Counted'
  BY <1>3, HolderStep DEF Counted
<1>4. CASE \/ EndBatch \/ \E op \in Ops : RecordOpFails(op)
  <2>1. /\ holder # NoWorker /\ failed' \in {failed, TRUE} /\ stragglers' = stragglers
        /\ passed' \ {holder'} = passed \ {holder}
    BY <1>4, <1>r, HolderStep
  <2>2. /\ Cardinality(passed \ {holder}) = Cardinality(passed) - 1
        /\ Cardinality(passed \ {holder}) <= Cardinality(Workers) - 1
    BY <1>h, <2>1
  <2>3. CASE failed
    BY <2>1, <2>3 DEF Counted
  <2>4. CASE ~failed
    BY <1>0, <2>1, <2>2, <2>4 DEF Counted
  <2> QED
    BY <2>3, <2>4
<1>5. CASE DrainDb
  BY <1>5 DEF DrainDb, Drain, Counted
<1>6. CASE Restart
  <2>1. passed' \ {holder'} = {} /\ stragglers' = 0
    BY <1>6 DEF Restart
  <2> QED
    BY <1>0, <2>1, FS_EmptySet DEF Counted
<1>7. CASE UNCHANGED dbVars
  BY <1>7 DEF dbVars, vars, Counted
<1> QED
  BY <1>1, <1>2, <1>3, <1>4, <1>5, <1>6, <1>7 DEF DbNext

\* In every reachable state of every number of workers.
LEMMA DbInvariant == DbSpec => []DbInv
<1>1. DbInit => DbInv
  <2> SUFFICES ASSUME DbInit PROVE DbInv
    OBVIOUS
  <2>1. IInv
    BY InitInv DEF DbInit
  <2> QED
    BY <2>1 DEF DbInit, Init, DbInv, DbTypeOK, LetIn, Counted
<1>2. DbInv /\ [DbNext]_dbVars => DbInv'
  BY LogStep, InvStep, LetInStep, CountedStep DEF DbInv
<1> QED
  BY <1>1, <1>2, PTL DEF DbSpec

\* The wedge holds: after the write that failed at most one batch of each other
\* worker reaches the log, and as long as none does, nothing acknowledged is
\* lost and the log can be opened again, through restarts, kills and power
\* losses (handle_db and its handlers, serve.rs).
THEOREM WedgeHoldsAlways == DbSpec => []WedgeHolds
<1>1. DbInv => WedgeHolds
  <2> SUFFICES ASSUME DbInv PROVE WedgeHolds
    OBVIOUS
  <2>1. IsFiniteSet(passed \ {holder}) /\ Cardinality(passed \ {holder}) \in Nat
    <3>1. passed \ {holder} \subseteq Workers
      BY DEF DbInv, DbTypeOK
    <3> QED
      BY <3>1, WorkersAssumption, FS_Subset, FS_CardinalityType
  <2>2. Cardinality(Workers) \in Nat /\ Cardinality(Workers) >= 1
    BY WorkersAssumption, FS_CardinalityType, FS_EmptySet
  <2>3. FewStragglers
    BY <2>1, <2>2 DEF DbInv, DbTypeOK, Counted, FewStragglers
  <2>4. SafeUnlessStraggler
    BY AckedDurableHolds, OpenableHolds DEF DbInv, SafeUnlessStraggler
  <2> QED
    BY <2>3, <2>4 DEF WedgeHolds
<1> QED
  BY <1>1, DbInvariant, PTL
=============================================================================
