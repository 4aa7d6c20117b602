----------------------------- MODULE IdemProofs ----------------------------
(***************************************************************************)
(* Theorems about the idempotent write path (IdemWrites), for every set of *)
(* workers and of requests and any number of attempts, whether or not the  *)
(* disk fails, the process dies or a handler outlives its marker; and, in  *)
(* the second half, about the store of responses on disk (IdemStore), for  *)
(* every set of keys, bound, window and length of the log, whether or not  *)
(* writes fail.                                                            *)
(*                                                                         *)
(* The store's invariant says of a call whose response must be found where *)
(* its record stands: in the log, behind only lines that can be read, with *)
(* none but keys that were put later behind it (StoredIn), and so in the   *)
(* map (HeldIn) - which is why fewer than Cap keys can have pushed it out, *)
(* and why reading the log again, or writing it anew, brings it back.      *)
(***************************************************************************)
EXTENDS IdemWrites, IdemStore, FiniteSetTheorems, SequenceTheorems, WellFoundedInduction, TLAPS

Marked == {"handle", "record", "release"}

\* What the disk holds is in memory: every save writes memory out.
DiskInMemory == \A r \in Requests : disk[r] <= mem[r]

\* A handler that returned 200 has its effect on disk, or straggled.
SucceededOnDisk ==
  \A w \in Workers : pc[w] \in {"record", "release"} /\ code[w] = 200
    => disk[req[w]] >= 1 \/ req[w] \in straggled

\* The key of a worker in the handler has a fresh marker, until it is outlived.
MarkerHeld ==
  /\ stale \subseteq outlived
  /\ \A w \in Workers :
       pc[w] \in Marked /\ req[w] \notin outlived => req[w] \in inflight \ stale

\* An effect in memory is of an attempt that was answered with 200, with an
\* error or not at all, or of one that is about to be.
EffectShown ==
  \A r \in Requests : mem[r] > 0 =>
    \/ answers[r] \cap {200, 500, NoCode} # {}
    \/ \E w \in Workers :
         req[w] = r /\ pc[w] \in {"record", "release"} /\ code[w] \in {200, 500}

\* A request whose effect never went astray has none before its handler ran,
\* and one afterwards that is recorded, or is about to be.
EffectRecorded ==
  \A r \in Requests \ excused :
    /\ mem[r] <= 1
    /\ mem[r] = 1 => \/ idem[r] = 200
                     \/ \E w \in Workers : req[w] = r /\ pc[w] = "record" /\ code[w] = 200
    /\ \A w \in Workers : req[w] = r /\ pc[w] \in {"handle", "record"} => idem[r] = NoCode

IInv ==
  /\ TypeOK
  /\ DiskInMemory /\ SucceededOnDisk /\ AckedOnDisk
  /\ MarkerHeld /\ OneHandlerPerKey
  /\ EffectShown
  /\ EffectRecorded

-----------------------------------------------------------------------------
(* Type correctness. *)

\* Every variable keeps its type, whatever the workers, the disk and the
\* clients do.
LEMMA TypeStep ==
  ASSUME TypeOK, [Next]_vars
  PROVE  TypeOK'
<1> USE RequestsAssumption, SwitchesAssumption DEF TypeOK, Codes, NoCode
<1>1. ASSUME NEW w \in Workers, NEW r \in Requests, Receive(w, r) PROVE TypeOK'
  BY <1>1 DEF Receive, Goto
<1>2. ASSUME NEW w \in Workers, Gate(w) PROVE TypeOK'
  BY <1>2 DEF Gate, Answer, Goto
<1>3. ASSUME NEW w \in Workers, Lookup(w) PROVE TypeOK'
  BY <1>3 DEF Lookup, Answer, Goto
<1>4. ASSUME NEW w \in Workers, Claim(w) PROVE TypeOK'
  BY <1>4 DEF Claim, Answer, Goto, Excuse
<1>5. ASSUME NEW w \in Workers, Ingest(w) PROVE TypeOK'
  <2>1. mem' \in [Requests -> Nat] /\ UNCHANGED <<req, idem, inflight, stale, outlived, attempts, answers>>
    BY <1>5 DEF Ingest
  <2>2. disk' \in [Requests -> Nat]
    BY <1>5, <2>1 DEF Ingest, WalSynced, WalPartly
  <2>3. pc' = [pc EXCEPT ![w] = "record"] /\ code' \in [Workers -> Codes \cup {NoCode}]
    BY <1>5 DEF Ingest, Handled, Goto
  <2>4. pc[w] = "handle"
    BY <1>5 DEF Ingest
  <2>5. wedged' \in BOOLEAN
    BY <1>5, ZenonT(40) DEF Ingest
  <2>6. excused \subseteq excused' /\ excused' \subseteq Requests /\ straggled' \subseteq Requests
    BY <1>5 DEF Ingest, Excuse
  <2> QED
    BY <2>1, <2>2, <2>3, <2>4, <2>5, <2>6
<1>6. ASSUME NEW w \in Workers, Feedback(w) PROVE TypeOK'
  BY <1>6, SMTT(20) DEF Feedback, Handled, Goto, Excuse, SidecarSaved
<1>7. ASSUME NEW w \in Workers, RecordResponse(w) PROVE TypeOK'
  BY <1>7 DEF RecordResponse, Goto, Excuse
<1>8. ASSUME NEW w \in Workers, ReleaseMarker(w) PROVE TypeOK'
  BY <1>8 DEF ReleaseMarker, Answer, Goto
<1>9. ASSUME NEW r \in Requests, Outlive(r) PROVE TypeOK'
  BY <1>9 DEF Outlive, Excuse
<1>10. CASE Restart
  <2>1. answers' \in [Requests -> SUBSET (Codes \cup {NoCode, 409, 503})]
    BY <1>10 DEF Restart
  <2>2. excused' \subseteq Requests /\ excused \subseteq excused'
    BY <1>10 DEF Restart, Excuse
  <2>3. /\ pc' \in [Workers -> {"idle", "gate", "lookup", "claim", "handle", "record", "release"}]
        /\ req' \in [Workers -> Requests \cup {None}]
        /\ \A w \in Workers : pc'[w] = "idle" /\ req'[w] = None
        /\ code' \in [Workers -> Codes \cup {NoCode}]
    BY <1>10 DEF Restart
  <2>4. /\ inflight' = {} /\ stale' = {} /\ wedged' = FALSE /\ mem' = disk
        /\ UNCHANGED <<idem, outlived, straggled, disk, attempts>>
    BY <1>10 DEF Restart
  <2> HIDE DEF Codes
  <2> QED
    BY <2>1, <2>2, <2>3, <2>4
<1>11. CASE UNCHANGED vars
  BY <1>11 DEF vars
<1> QED
  BY <1>1, <1>2, <1>3, <1>4, <1>5, <1>6, <1>7, <1>8, <1>9, <1>10, <1>11 DEF Next, Serve

\* The database starts empty, every worker idle.
LEMMA InitType ==
  ASSUME Init
  PROVE  TypeOK
<1> USE DEF Codes, NoCode
<1>1. /\ \A w \in Workers : pc[w] = "idle" /\ req[w] = None
      /\ pc \in [Workers -> {"idle", "gate", "lookup", "claim", "handle", "record", "release"}]
      /\ req \in [Workers -> Requests \cup {None}]
      /\ code \in [Workers -> Codes \cup {NoCode}] /\ idem \in [Requests -> {NoCode, 200, 429}]
  BY DEF Init
<1>2. /\ inflight = {} /\ stale = {} /\ outlived = {} /\ excused = {} /\ wedged = FALSE
      /\ straggled = {}
  BY DEF Init
<1>3. 0 \in 0 .. MaxAttempts
  BY SwitchesAssumption
<1>4. /\ mem \in [Requests -> Nat] /\ disk \in [Requests -> Nat]
      /\ attempts \in [Requests -> 0 .. MaxAttempts]
      /\ answers \in [Requests -> SUBSET (Codes \cup {NoCode, 409, 503})]
  BY <1>3 DEF Init
<1> HIDE DEF Codes
<1> QED
  BY <1>1, <1>2, <1>3, <1>4 DEF TypeOK

\* Worker positions, markers, counters and answers keep their types.
THEOREM TypeCorrect == Spec => []TypeOK
<1>1. Init => TypeOK
  BY InitType
<1>2. TypeOK /\ [Next]_vars => TypeOK'
  BY TypeStep
<1> QED
  BY <1>1, <1>2, PTL DEF Spec

-----------------------------------------------------------------------------
(* Acknowledged writes. *)

\* The counts of the disk only grow, and never past those of memory.
LEMMA CountsStep ==
  ASSUME TypeOK, DiskInMemory, [Next]_vars
  PROVE  DiskInMemory' /\ \A r \in Requests : disk[r] <= disk'[r]
<1> DEFINE Goal == DiskInMemory' /\ \A r \in Requests : disk[r] <= disk'[r]
<1> USE DEF TypeOK, DiskInMemory
<1>1. ASSUME NEW w \in Workers, NEW r \in Requests, Receive(w, r) PROVE Goal
  BY <1>1 DEF Receive, Goto
<1>2. ASSUME NEW w \in Workers, Gate(w) PROVE Goal
  BY <1>2 DEF Gate, Answer, Goto
<1>3. ASSUME NEW w \in Workers, Lookup(w) PROVE Goal
  BY <1>3 DEF Lookup, Answer, Goto
<1>4. ASSUME NEW w \in Workers, Claim(w) PROVE Goal
  BY <1>4 DEF Claim, Answer, Goto, Excuse
<1>5. ASSUME NEW w \in Workers, Ingest(w) PROVE Goal
  BY <1>5, SMTT(20) DEF Ingest, Handled, Goto, Excuse, WalSynced, WalPartly
<1>6. ASSUME NEW w \in Workers, Feedback(w) PROVE Goal
  BY <1>6, SMTT(20) DEF Feedback, Handled, Goto, Excuse, SidecarSaved
<1>7. ASSUME NEW w \in Workers, RecordResponse(w) PROVE Goal
  BY <1>7 DEF RecordResponse, Goto, Excuse
<1>8. ASSUME NEW w \in Workers, ReleaseMarker(w) PROVE Goal
  BY <1>8 DEF ReleaseMarker, Answer, Goto
<1>9. ASSUME NEW r \in Requests, Outlive(r) PROVE Goal
  BY <1>9 DEF Outlive, Excuse
<1>10. CASE Restart
  BY <1>10 DEF Restart, Excuse
<1>11. CASE UNCHANGED vars
  BY <1>11 DEF vars
<1> QED
  BY <1>1, <1>2, <1>3, <1>4, <1>5, <1>6, <1>7, <1>8, <1>9, <1>10, <1>11 DEF Next, Serve

\* What is answered, or stored to be answered, with 200 is on disk, or straggled.
LEMMA AckedStep ==
  ASSUME TypeOK, DiskInMemory, SucceededOnDisk, AckedOnDisk, [Next]_vars
  PROVE  SucceededOnDisk' /\ AckedOnDisk'
<1> DEFINE Goal == SucceededOnDisk' /\ AckedOnDisk'
<1>0. \A r \in Requests : disk[r] <= disk'[r]
  BY CountsStep
<1> USE <1>0, RequestsAssumption DEF TypeOK, DiskInMemory, SucceededOnDisk, AckedOnDisk, Codes, NoCode
<1>1. ASSUME NEW w \in Workers, NEW r \in Requests, Receive(w, r) PROVE Goal
  BY <1>1 DEF Receive, Goto
<1>2. ASSUME NEW w \in Workers, Gate(w) PROVE Goal
  BY <1>2 DEF Gate, Answer, Goto
<1>3. ASSUME NEW w \in Workers, Lookup(w) PROVE Goal
  BY <1>3 DEF Lookup, Answer, Goto
<1>4. ASSUME NEW w \in Workers, Claim(w) PROVE Goal
  BY <1>4 DEF Claim, Answer, Goto, Excuse
<1>5. ASSUME NEW w \in Workers, Ingest(w) PROVE Goal
  BY <1>5, SMTT(20) DEF Ingest, Handled, Goto, Excuse, WalSynced, WalPartly
<1>6. ASSUME NEW w \in Workers, Feedback(w) PROVE Goal
  BY <1>6, SMTT(20) DEF Feedback, Handled, Goto, Excuse, SidecarSaved
<1>7. ASSUME NEW w \in Workers, RecordResponse(w) PROVE Goal
  BY <1>7 DEF RecordResponse, Goto, Excuse
<1>8. ASSUME NEW w \in Workers, ReleaseMarker(w) PROVE Goal
  BY <1>8 DEF ReleaseMarker, Answer, Goto
<1>9. ASSUME NEW r \in Requests, Outlive(r) PROVE Goal
  BY <1>9 DEF Outlive, Excuse
<1>10. CASE Restart
  BY <1>10 DEF Restart, Excuse
<1>11. CASE UNCHANGED vars
  BY <1>11 DEF vars
<1> QED
  BY <1>1, <1>2, <1>3, <1>4, <1>5, <1>6, <1>7, <1>8, <1>9, <1>10, <1>11 DEF Next, Serve

-----------------------------------------------------------------------------
(* In-flight markers. *)

\* A marker is dropped by the worker that set it, or after it was outlived.
LEMMA MarkerStep ==
  ASSUME TypeOK, MarkerHeld, OneHandlerPerKey, [Next]_vars
  PROVE  MarkerHeld' /\ OneHandlerPerKey'
<1> DEFINE Goal == MarkerHeld' /\ OneHandlerPerKey'
<1> USE RequestsAssumption DEF TypeOK, MarkerHeld, OneHandlerPerKey, Marked
<1>1. ASSUME NEW w \in Workers, NEW r \in Requests, Receive(w, r) PROVE Goal
  BY <1>1 DEF Receive, Goto
<1>2. ASSUME NEW w \in Workers, Gate(w) PROVE Goal
  BY <1>2 DEF Gate, Answer, Goto
<1>3. ASSUME NEW w \in Workers, Lookup(w) PROVE Goal
  BY <1>3 DEF Lookup, Answer, Goto
<1>4. ASSUME NEW w \in Workers, Claim(w) PROVE Goal
  BY <1>4 DEF Claim, Answer, Goto, Excuse
<1>5. ASSUME NEW w \in Workers, Ingest(w) PROVE Goal
  BY <1>5, SMTT(20) DEF Ingest, Handled, Goto, Excuse, WalSynced, WalPartly
<1>6. ASSUME NEW w \in Workers, Feedback(w) PROVE Goal
  BY <1>6, SMTT(20) DEF Feedback, Handled, Goto, Excuse, SidecarSaved
<1>7. ASSUME NEW w \in Workers, RecordResponse(w) PROVE Goal
  BY <1>7 DEF RecordResponse, Goto, Excuse
<1>8. ASSUME NEW w \in Workers, ReleaseMarker(w) PROVE Goal
  BY <1>8 DEF ReleaseMarker, Answer, Goto
<1>9. ASSUME NEW r \in Requests, Outlive(r) PROVE Goal
  BY <1>9 DEF Outlive, Excuse
<1>10. CASE Restart
  BY <1>10 DEF Restart, Excuse
<1>11. CASE UNCHANGED vars
  BY <1>11 DEF vars
<1> QED
  BY <1>1, <1>2, <1>3, <1>4, <1>5, <1>6, <1>7, <1>8, <1>9, <1>10, <1>11 DEF Next, Serve

-----------------------------------------------------------------------------
(* Effects. *)

\* An effect stays accounted for: the handler answers, or is cut off.
LEMMA ShownStep ==
  ASSUME TypeOK, DiskInMemory, EffectShown, [Next]_vars
  PROVE  EffectShown'
<1> USE RequestsAssumption DEF TypeOK, DiskInMemory, EffectShown, Codes, NoCode
<1>1. ASSUME NEW w \in Workers, NEW r \in Requests, Receive(w, r) PROVE EffectShown'
  BY <1>1 DEF Receive, Goto
<1>2. ASSUME NEW w \in Workers, Gate(w) PROVE EffectShown'
  BY <1>2 DEF Gate, Answer, Goto
<1>3. ASSUME NEW w \in Workers, Lookup(w) PROVE EffectShown'
  BY <1>3 DEF Lookup, Answer, Goto
<1>4. ASSUME NEW w \in Workers, Claim(w) PROVE EffectShown'
  BY <1>4 DEF Claim, Answer, Goto, Excuse
<1>5. ASSUME NEW w \in Workers, Ingest(w) PROVE EffectShown'
  BY <1>5, SMTT(20) DEF Ingest, Handled, Goto, Excuse, WalSynced, WalPartly
<1>6. ASSUME NEW w \in Workers, Feedback(w) PROVE EffectShown'
  BY <1>6, SMTT(20) DEF Feedback, Handled, Goto, Excuse, SidecarSaved
<1>7. ASSUME NEW w \in Workers, RecordResponse(w) PROVE EffectShown'
  BY <1>7 DEF RecordResponse, Goto, Excuse
<1>8. ASSUME NEW w \in Workers, ReleaseMarker(w) PROVE EffectShown'
  <2>1. /\ pc' = [pc EXCEPT ![w] = "idle"] /\ req' = [req EXCEPT ![w] = None]
        /\ code' = [code EXCEPT ![w] = NoCode] /\ mem' = mem
        /\ answers' = [answers EXCEPT ![req[w]] = @ \cup {code[w]}]
    BY <1>8 DEF ReleaseMarker, Answer, Goto
  <2> SUFFICES ASSUME NEW r \in Requests, mem'[r] > 0
                 PROVE  \/ answers'[r] \cap {200, 500, NoCode} # {}
                        \/ \E v \in Workers : /\ req'[v] = r /\ pc'[v] \in {"record", "release"}
                                              /\ code'[v] \in {200, 500}
    OBVIOUS
  <2>2. mem[r] > 0
    BY <2>1
  <2>3. CASE answers[r] \cap {200, 500, NoCode} # {}
    BY <2>1, <2>3
  <2>4. ASSUME NEW v \in Workers, req[v] = r, pc[v] \in {"record", "release"}, code[v] \in {200, 500}
        PROVE  \/ answers'[r] \cap {200, 500, NoCode} # {}
               \/ req'[v] = r /\ pc'[v] \in {"record", "release"} /\ code'[v] \in {200, 500}
    <3>1. CASE v = w
      <4>1. code[w] \in answers'[r]
        BY <2>1, <2>4, <3>1
      <4> QED
        BY <2>4, <3>1, <4>1
    <3>2. CASE v # w
      BY <2>1, <2>4, <3>2
    <3> QED
      BY <3>1, <3>2
  <2>5. \/ answers[r] \cap {200, 500, NoCode} # {}
        \/ \E v \in Workers : req[v] = r /\ pc[v] \in {"record", "release"} /\ code[v] \in {200, 500}
    BY <2>2
  <2> HIDE DEF TypeOK, EffectShown
  <2> QED
    BY <2>3, <2>4, <2>5
<1>9. ASSUME NEW r \in Requests, Outlive(r) PROVE EffectShown'
  BY <1>9 DEF Outlive, Excuse
<1>10. CASE Restart
  <2> SUFFICES ASSUME NEW r \in Requests, mem'[r] > 0
               PROVE  answers'[r] \cap {200, 500, NoCode} # {}
    OBVIOUS
  <2>1. mem[r] > 0
    BY <1>10 DEF Restart
  <2>2. answers'[r] = answers[r] \cup IF r \in {req[w] : w \in Workers} THEN {NoCode} ELSE {}
    BY <1>10 DEF Restart
  <2>3. CASE answers[r] \cap {200, 500, NoCode} # {}
    BY <2>2, <2>3
  <2>4. ASSUME NEW w \in Workers, req[w] = r PROVE NoCode \in answers'[r]
    BY <2>2, <2>4
  <2> QED
    BY <2>1, <2>3, <2>4
<1>11. CASE UNCHANGED vars
  BY <1>11 DEF vars
<1> QED
  BY <1>1, <1>2, <1>3, <1>4, <1>5, <1>6, <1>7, <1>8, <1>9, <1>10, <1>11 DEF Next, Serve

\* The effect of an unexcused request is recorded before its marker goes.
LEMMA RecordedStep ==
  ASSUME TypeOK, DiskInMemory, OneHandlerPerKey, EffectRecorded, [Next]_vars
  PROVE  EffectRecorded'
<1> USE RequestsAssumption DEF TypeOK, DiskInMemory, OneHandlerPerKey, EffectRecorded, Codes, NoCode
<1>1. ASSUME NEW w \in Workers, NEW r \in Requests, Receive(w, r) PROVE EffectRecorded'
  BY <1>1 DEF Receive, Goto
<1>2. ASSUME NEW w \in Workers, Gate(w) PROVE EffectRecorded'
  BY <1>2 DEF Gate, Answer, Goto
<1>3. ASSUME NEW w \in Workers, Lookup(w) PROVE EffectRecorded'
  BY <1>3 DEF Lookup, Answer, Goto
<1>4. ASSUME NEW w \in Workers, Claim(w) PROVE EffectRecorded'
  BY <1>4 DEF Claim, Answer, Goto, Excuse
<1>5. ASSUME NEW w \in Workers, Ingest(w) PROVE EffectRecorded'
  BY <1>5, SMTT(20) DEF Ingest, Handled, Goto, Excuse, WalSynced, WalPartly
<1>6. ASSUME NEW w \in Workers, Feedback(w) PROVE EffectRecorded'
  BY <1>6, SMTT(20) DEF Feedback, Handled, Goto, Excuse, SidecarSaved
<1>7. ASSUME NEW w \in Workers, RecordResponse(w) PROVE EffectRecorded'
  BY <1>7 DEF RecordResponse, Goto, Excuse
<1>8. ASSUME NEW w \in Workers, ReleaseMarker(w) PROVE EffectRecorded'
  BY <1>8 DEF ReleaseMarker, Answer, Goto
<1>9. ASSUME NEW r \in Requests, Outlive(r) PROVE EffectRecorded'
  BY <1>9 DEF Outlive, Excuse
<1>10. CASE Restart
  BY <1>10 DEF Restart, Excuse
<1>11. CASE UNCHANGED vars
  BY <1>11 DEF vars
<1> QED
  BY <1>1, <1>2, <1>3, <1>4, <1>5, <1>6, <1>7, <1>8, <1>9, <1>10, <1>11 DEF Next, Serve

-----------------------------------------------------------------------------
(* The theorems. *)

\* All of it together is inductive.
LEMMA InductiveInvariant == Spec => []IInv
<1>1. Init => IInv
  <2> SUFFICES ASSUME Init PROVE IInv
    OBVIOUS
  <2>1. TypeOK
    BY InitType
  <2> QED
    BY <2>1 DEF Init, IInv, DiskInMemory, SucceededOnDisk, AckedOnDisk, MarkerHeld, Marked,
                OneHandlerPerKey, EffectShown, EffectRecorded, NoCode
<1>2. IInv /\ [Next]_vars => IInv'
  BY TypeStep, CountsStep, AckedStep, MarkerStep, ShownStep, RecordedStep DEF IInv
<1> QED
  BY <1>1, <1>2, PTL DEF Spec

\* A 2xx, sent or replayed, is of a change that a restart recovers: through
\* crashes, refused saves, retries and overtaken markers (handle_db and the
\* handlers, serve.rs); but for a batch that was served on a wedged database.
THEOREM AckedStaysOnDisk == Spec => []AckedOnDisk
<1>1. IInv => AckedOnDisk
  BY DEF IInv
<1> QED
  BY <1>1, InductiveInvariant, PTL

\* The in-flight markers keep duplicates of a key apart: only a handler that
\* outlives its marker shares its key (handle_db, serve.rs).
THEOREM DuplicatesSerialized == Spec => []OneHandlerPerKey
<1>1. IInv => OneHandlerPerKey
  BY DEF IInv
<1> QED
  BY <1>1, InductiveInvariant, PTL

\* A client that was only refused, and waits for no answer, has changed
\* nothing: a handler that had an effect answers with 200 or 500, or was cut
\* off (check_feedback_rate before the credit; 409 and 503 before the handler).
THEOREM RefusalsAreClean == Spec => []RefusedMeansUntouched
<1>1. IInv => RefusedMeansUntouched
  <2> SUFFICES ASSUME IInv, NEW r \in Requests, answers[r] \cap {200, 500, NoCode} = {},
                      \A w \in Workers : req[w] # r
               PROVE  mem[r] = 0
    BY DEF RefusedMeansUntouched
  <2>1. ~ mem[r] > 0
    BY DEF IInv, EffectShown
  <2> QED
    BY <2>1 DEF IInv, TypeOK
<1> QED
  BY <1>1, InductiveInvariant, PTL

\* Exactly the listed ways lead to a write applied twice; every other retry or
\* duplicate leaves one effect on disk (handle_db, serve.rs).
THEOREM DoubledOnlyIfExcused == Spec => []OnceUnlessExcused
<1>1. IInv => OnceUnlessExcused
  <2> SUFFICES ASSUME IInv, NEW r \in Requests, r \notin excused
               PROVE  disk[r] <= 1
    BY DEF OnceUnlessExcused
  <2>1. disk[r] \in Nat /\ mem[r] \in Nat /\ disk[r] <= mem[r] /\ mem[r] <= 1
    BY DEF IInv, TypeOK, DiskInMemory, EffectRecorded
  <2> QED
    BY <2>1
<1> QED
  BY <1>1, InductiveInvariant, PTL

-----------------------------------------------------------------------------
(* The store of responses (IdemStore).  First: induction, and sequences.   *)

LEMMA Least ==
  ASSUME NEW S \in SUBSET Nat, S # {}
  PROVE \E n \in S : \A m \in S : n <= m
<1>1. \E n \in S : \A m \in S : <<m, n>> \notin {ss \in Nat \X Nat : ss[1] < ss[2]}
  <2> DEFINE R == {ss \in Nat \X Nat : ss[1] < ss[2]}
  <2>1. IsWellFoundedOn(R, Nat)
    BY NatLessThanWellFounded, Zenon DEF OpToRel
  <2> HIDE DEF R
  <2>2. \E n \in S : \A m \in S : <<m, n>> \notin R
    BY <2>1, WFMin, Zenon
  <2> QED
    BY <2>2 DEF R
<1>2. PICK n \in S : \A m \in S : <<m, n>> \notin {ss \in Nat \X Nat : ss[1] < ss[2]}
  BY <1>1
<1>3. ASSUME NEW m \in S PROVE n <= m
  <2>1. m \in Nat /\ n \in Nat
    OBVIOUS
  <2>2. ~(m < n)
    <3>1. SUFFICES ASSUME m < n PROVE <<m, n>> \in {ss \in Nat \X Nat : ss[1] < ss[2]}
      BY <1>2
    <3> DEFINE p == <<m, n>>
    <3>2. p \in Nat \X Nat /\ p[1] = m /\ p[2] = n
      BY <2>1
    <3> QED
      BY <3>1, <3>2
  <2> QED
    BY <2>1, <2>2
<1> QED
  BY <1>3

LEMMA Induction ==
  ASSUME NEW S \in SUBSET Nat, 0 \in S, \A n \in S : n + 1 \in S
  PROVE S = Nat
<1>1. SUFFICES ASSUME Nat \ S # {} PROVE FALSE
  OBVIOUS
<1>2. PICK n \in Nat \ S : \A m \in Nat \ S : n <= m
  BY <1>1, Least
<1>3. n - 1 \in S
  BY <1>2
<1> QED
  BY <1>2, <1>3

LEMMA MadeSeq ==
  ASSUME NEW S, NEW n \in Nat, NEW f \in [1 .. n -> S]
  PROVE f \in Seq(S) /\ Len(f) = n
<1>1. f \in Seq(S)
  BY SeqDef, Zenon
<1>2. Len(f) \in Nat /\ DOMAIN f = 1 .. Len(f)
  BY <1>1, LenProperties
<1>3. 1 .. Len(f) = 1 .. n
  BY <1>2
<1> QED
  BY <1>1, <1>2, <1>3

-----------------------------------------------------------------------------
(* The types.  A store is a map and the order of its keys.                 *)

RecordType == [key : Keys, code : 1 .. MaxPuts, at : Nat]
LineType == [recs : {<<>>} \cup {<<r>> : r \in RecordType}, text : BOOLEAN, nl : BOOLEAN]
PutType == [key : Keys, at : Nat, ok : BOOLEAN]
ValueType == [code : 1 .. MaxPuts, at : Nat]

Shaped(s) ==
  /\ s.map = [k \in DOMAIN s.map |-> s.map[k]]
  /\ \A k \in DOMAIN s.map : k \in Keys /\ s.map[k] \in ValueType
  /\ s.order \in Seq(Keys)
  /\ \A k : k \in DOMAIN s.map <=> \E p \in 1 .. Len(s.order) : s.order[p] = k
  /\ \A p, q \in 1 .. Len(s.order) : s.order[p] = s.order[q] => p = q

\* Line q of f can be read.
Readably(f, q) == \A p \in 1 .. q : f[p].text
Holds(f, q) == f[q].recs # <<>>
RecordIn(f, q) == Head(f[q].recs)

LEMMA LineFacts ==
  ASSUME NEW f \in Seq(LineType), NEW q \in 1 .. Len(f)
  PROVE /\ f[q] \in LineType /\ f[q].text \in BOOLEAN /\ f[q].nl \in BOOLEAN
        /\ Holds(f, q) => RecordIn(f, q) \in RecordType /\ f[q].recs = <<RecordIn(f, q)>>
<1> DEFINE ln == f[q]
<1>1. ln \in LineType
  BY ElementOfSeq
<1>2. ln.text \in BOOLEAN /\ ln.nl \in BOOLEAN /\ ln.recs \in {<<>>} \cup {<<r>> : r \in RecordType}
  <2> HIDE DEF ln
  <2> QED
    BY <1>1 DEF LineType
<1>3. ASSUME Holds(f, q) PROVE RecordIn(f, q) \in RecordType /\ f[q].recs = <<RecordIn(f, q)>>
  <2>1. PICK r \in RecordType : ln.recs = <<r>>
    BY <1>2, <1>3 DEF Holds
  <2>2. Head(<<r>>) = r
    OBVIOUS
  <2> QED
    BY <2>1, <2>2 DEF RecordIn
<1> QED
  BY <1>1, <1>2, <1>3

\* What is read of a log is what stands before the first line that is not UTF-8.
LEMMA ReadableFacts ==
  ASSUME NEW f \in Seq(LineType), NEW seen, seen = Readable(f)
  PROVE /\ seen \in Seq(LineType) /\ Len(seen) \in 0 .. Len(f)
        /\ \A q \in 1 .. Len(seen) : seen[q] = f[q]
        /\ \A q \in 1 .. Len(f) : q <= Len(seen) <=> Readably(f, q)
<1> DEFINE bad == {i \in 1 .. Len(f) : ~f[i].text}
<1>1. Len(f) \in Nat
  OBVIOUS
<1>2. CASE bad = {}
  <2>1. seen = f
    BY <1>2 DEF Readable
  <2>2. \A i \in 1 .. Len(f) : f[i].text
    BY <1>2
  <2>3. \A q \in 1 .. Len(f) : Readably(f, q)
    BY <1>1, <2>2 DEF Readably
  <2> QED
    BY <1>1, <2>1, <2>3
<1>3. CASE bad # {}
  <2>1. \E i \in bad : \A j \in bad : i <= j
    <3>1. bad \in SUBSET Nat
      OBVIOUS
    <3> HIDE DEF bad
    <3> QED
      BY <1>3, <3>1, Least
  <2> DEFINE m == CHOOSE i \in bad : \A j \in bad : i <= j
  <2>2. m \in bad /\ \A j \in bad : m <= j
    <3> HIDE DEF bad
    <3> QED
      BY <2>1
  <2>3. seen = SubSeq(f, 1, m - 1)
    BY <1>3 DEF Readable
  <2> HIDE DEF m
  <2>4. m \in 1 .. Len(f) /\ ~f[m].text /\ \A j \in 1 .. m - 1 : f[j].text
    BY <1>1, <2>2
  <2> HIDE DEF bad
  <2>5. seen \in Seq(LineType) /\ Len(seen) = m - 1 /\ \A q \in 1 .. m - 1 : seen[q] = f[q]
    <3> DEFINE n == m - 1
    <3>1. n \in Int /\ 1 \in Int /\ n >= 0 /\ \A q \in 1 .. n : f[q] \in LineType
      BY <1>1, <2>4, ElementOfSeq
    <3> HIDE DEF n
    <3>2. /\ SubSeq(f, 1, n) \in Seq(LineType)
          /\ Len(SubSeq(f, 1, n)) = IF 1 <= n THEN n - 1 + 1 ELSE 0
          /\ \A q \in 1 .. n - 1 + 1 : SubSeq(f, 1, n)[q] = f[1 + q - 1]
      BY <3>1, SubSeqProperties
    <3>3. Len(SubSeq(f, 1, n)) = n /\ \A q \in 1 .. n : SubSeq(f, 1, n)[q] = f[q]
      <4>1. n - 1 + 1 = n /\ \A q \in 1 .. n : 1 + q - 1 = q
        BY <3>1
      <4> QED
        BY <3>1, <3>2, <4>1
    <3> QED
      BY <2>3, <3>2, <3>3 DEF n
  <2>6. ASSUME NEW q \in 1 .. Len(f) PROVE q <= m - 1 <=> Readably(f, q)
    <3>1. CASE q <= m - 1
      BY <1>1, <2>4, <3>1 DEF Readably
    <3>2. CASE ~(q <= m - 1)
      <4>1. m \in 1 .. q
        BY <1>1, <2>4, <3>2
      <4> QED
        BY <2>4, <3>2, <4>1 DEF Readably
    <3> QED
      BY <3>1, <3>2
  <2> QED
    BY <1>1, <2>4, <2>5, <2>6
<1> QED
  BY <1>2, <1>3

-----------------------------------------------------------------------------
(* A record is added; the oldest key gives way.                            *)

WithRecord(s, r, u) ==
  /\ DOMAIN u.map = DOMAIN s.map \cup {r.key}
  /\ u.map[r.key] = [code |-> r.code, at |-> r.at]
  /\ \A k \in DOMAIN s.map : k # r.key => u.map[k] = s.map[k]
  /\ r.key \in DOMAIN s.map => u.order = s.order
  /\ r.key \notin DOMAIN s.map => u.order = Append(s.order, r.key)

LEMMA InsertFacts ==
  ASSUME NEW s, Shaped(s), NEW r \in RecordType, NEW u, u = Insert(s, r)
  PROVE Shaped(u) /\ WithRecord(s, r, u)
<1> DEFINE v == [code |-> r.code, at |-> r.at]
           m == [k \in DOMAIN s.map \cup {r.key} |-> IF k = r.key THEN v ELSE s.map[k]]
           o == IF r.key \in DOMAIN s.map THEN s.order ELSE Append(s.order, r.key)
<1>1. u.map = m /\ u.order = o
  BY DEF Insert
<1>2. r.key \in Keys /\ v \in ValueType
  BY DEF RecordType, ValueType
<1> HIDE DEF v
<1>3. DOMAIN m = DOMAIN s.map \cup {r.key} /\ m = [k \in DOMAIN m |-> m[k]]
  OBVIOUS
<1>4. \A k \in DOMAIN m : m[k] = IF k = r.key THEN v ELSE s.map[k]
  OBVIOUS
<1> HIDE DEF m
<1>5. \A k \in DOMAIN m : k \in Keys /\ m[k] \in ValueType
  BY <1>2, <1>3, <1>4 DEF Shaped
<1>6. /\ o \in Seq(Keys)
      /\ \A k : k \in DOMAIN m <=> \E p \in 1 .. Len(o) : o[p] = k
      /\ \A p, q \in 1 .. Len(o) : o[p] = o[q] => p = q
  <2>1. CASE r.key \in DOMAIN s.map
    <3>1. o = s.order /\ DOMAIN m = DOMAIN s.map
      BY <1>3, <2>1
    <3> HIDE DEF o
    <3> QED
      BY <3>1 DEF Shaped
  <2>2. CASE r.key \notin DOMAIN s.map
    <3> DEFINE k0 == r.key
               so == s.order
               n == Len(so)
    <3>1. o = Append(so, k0) /\ k0 \in Keys /\ so \in Seq(Keys) /\ n \in Nat
      BY <1>2, <2>2 DEF Shaped
    <3> HIDE DEF o, k0, so
    <3>2. o \in Seq(Keys) /\ Len(o) = n + 1 /\ o[n + 1] = k0 /\ \A p \in 1 .. n : o[p] = so[p]
      BY <3>1
    <3>3. \A k : k \in DOMAIN s.map <=> \E p \in 1 .. n : so[p] = k
      BY DEF Shaped, so
    <3>4. \A p \in 1 .. n : so[p] # k0
      BY <2>2, <3>3 DEF k0
    <3>5. \A p, q \in 1 .. n : so[p] = so[q] => p = q
      BY DEF Shaped, so
    <3> HIDE DEF n
    <3>6. 1 .. Len(o) = (1 .. n) \cup {n + 1}
      BY <3>1, <3>2
    <3>7. ASSUME NEW k PROVE k \in DOMAIN m <=> \E p \in 1 .. Len(o) : o[p] = k
      <4>1. k \in DOMAIN m <=> k \in DOMAIN s.map \/ k = k0
        BY <1>3 DEF k0
      <4>2. (\E p \in 1 .. Len(o) : o[p] = k) <=> (\E p \in 1 .. n : so[p] = k) \/ k = k0
        BY <3>2, <3>6
      <4> QED
        BY <3>3, <4>1, <4>2
    <3>8. \A p, q \in 1 .. Len(o) : o[p] = o[q] => p = q
      BY <3>2, <3>4, <3>5, <3>6
    <3> QED
      BY <3>2, <3>7, <3>8
  <2> QED
    BY <2>1, <2>2
<1> HIDE DEF o
<1>7. Shaped(u)
  BY <1>1, <1>3, <1>5, <1>6 DEF Shaped
<1> QED
  BY <1>1, <1>3, <1>4, <1>7 DEF v, o, WithRecord

\* u is the newest of o: all of them, or Cap.
Newest(o, u) ==
  \E d \in Nat :
    /\ Len(o) = d + Len(u) /\ (d > 0 => Len(u) = Cap)
    /\ \A p \in 1 .. Len(u) : u[p] = o[d + p]

LEMMA BoundedFacts ==
  ASSUME NEW s, Shaped(s), NEW b, b = Bounded(s)
  PROVE /\ Shaped(b) /\ Len(b.order) <= Cap /\ DOMAIN b.map \subseteq DOMAIN s.map
        /\ \A k \in DOMAIN b.map : b.map[k] = s.map[k]
        /\ Newest(s.order, b.order)
<1> DEFINE so == s.order
           n == Len(so)
           d == IF n > Cap THEN n - Cap ELSE 0
           kept == SubSeq(so, d + 1, n)
<1>1. so \in Seq(Keys) /\ n \in Nat /\ Cap \in Nat
  BY IdemStoreAssumption DEF Shaped
<1>2. b.order = kept /\ b.map = [k \in ToSet(kept) |-> s.map[k]]
  <2>1. d + 1 = IF n > Cap THEN n - Cap + 1 ELSE 1
    BY <1>1
  <2> HIDE DEF d
  <2>2. kept = SubSeq(s.order, IF Len(s.order) > Cap THEN Len(s.order) - Cap + 1 ELSE 1, Len(s.order))
    BY <2>1
  <2> HIDE DEF kept, so, n
  <2> QED
    BY <2>2 DEF Bounded, Restrict
<1>3. d \in Nat /\ d <= n /\ n - d <= Cap /\ (d > 0 => n - d = Cap)
  BY <1>1
<1> HIDE DEF d
<1>4. kept \in Seq(Keys) /\ Len(kept) = n - d /\ \A p \in 1 .. n - d : kept[p] = so[d + p]
  <2> DEFINE m == d + 1
  <2> HIDE DEF n
  <2>1. m \in Int /\ n \in Int /\ \A i \in m .. n : so[i] \in Keys
    <3>1. \A i \in 1 .. n : so[i] \in Keys
      BY <1>1, ElementOfSeq DEF n
    <3> QED
      BY <1>1, <1>3, <3>1
  <2> HIDE DEF m, so
  <2>2. /\ SubSeq(so, m, n) \in Seq(Keys)
        /\ Len(SubSeq(so, m, n)) = IF m <= n THEN n - m + 1 ELSE 0
        /\ \A p \in 1 .. n - m + 1 : SubSeq(so, m, n)[p] = so[m + p - 1]
    BY <2>1, SubSeqProperties
  <2>3. n - m + 1 = n - d /\ (m <= n \/ n - d = 0) /\ \A p \in 1 .. n - d : m + p - 1 = d + p
    BY <1>1, <1>3 DEF m
  <2>4. Len(SubSeq(so, m, n)) = n - d
    BY <2>1, <2>2, <2>3
  <2>5. \A p \in 1 .. n - d : SubSeq(so, m, n)[p] = so[d + p]
    BY <2>2, <2>3
  <2>6. kept = SubSeq(so, m, n)
    BY DEF m
  <2> HIDE DEF kept
  <2> QED
    BY <2>2, <2>4, <2>5, <2>6
<1> HIDE DEF kept
<1> DEFINE c == n - d
<1>5. c \in Nat /\ Len(kept) = c /\ n = d + c /\ c <= Cap /\ (d > 0 => c = Cap)
      /\ \A p \in 1 .. c : kept[p] = so[d + p] /\ d + p \in 1 .. n
  BY <1>1, <1>3, <1>4
<1> HIDE DEF c, n
<1>6. \A k : k \in ToSet(kept) <=> \E p \in 1 .. c : kept[p] = k
  <2>1. DOMAIN kept = 1 .. c
    BY <1>4, <1>5
  <2> QED
    BY <2>1 DEF ToSet
<1>7. \A k : k \in DOMAIN s.map <=> \E p \in 1 .. n : so[p] = k
  BY DEF Shaped, n
<1>8. ToSet(kept) \subseteq DOMAIN s.map
  BY <1>5, <1>6, <1>7
<1>9. DOMAIN b.map = ToSet(kept) /\ b.map = [k \in DOMAIN b.map |-> b.map[k]]
      /\ \A k \in DOMAIN b.map : b.map[k] = s.map[k]
  BY <1>2
<1>10. \A k \in DOMAIN b.map : k \in Keys /\ b.map[k] \in ValueType
  BY <1>8, <1>9 DEF Shaped
<1>11. \A p, q \in 1 .. c : kept[p] = kept[q] => p = q
  <2>1. \A p, q \in 1 .. n : so[p] = so[q] => p = q
    BY DEF Shaped, n
  <2>2. ASSUME NEW p \in 1 .. c, NEW q \in 1 .. c, kept[p] = kept[q] PROVE p = q
    <3>1. d + p \in 1 .. n /\ d + q \in 1 .. n /\ so[d + p] = so[d + q]
      BY <1>5, <2>2
    <3>2. d + p = d + q
      BY <2>1, <3>1
    <3> QED
      BY <1>3, <1>5, <3>2
  <2> QED
    BY <2>2
<1>12. Shaped(b)
  BY <1>2, <1>4, <1>5, <1>6, <1>9, <1>10, <1>11 DEF Shaped
<1>13. Newest(s.order, b.order)
  <2>1. /\ Len(s.order) = d + Len(b.order) /\ (d > 0 => Len(b.order) = Cap)
        /\ \A p \in 1 .. Len(b.order) : b.order[p] = s.order[d + p]
    BY <1>2, <1>5 DEF n
  <2> QED
    BY <1>3, <2>1 DEF Newest
<1> QED
  BY <1>2, <1>3, <1>5, <1>8, <1>9, <1>12, <1>13

-----------------------------------------------------------------------------
(* Calls, and what is kept of them.                                        *)

LatestOf(P, i) == \A j \in i + 1 .. Len(P) : P[j].key # P[i].key
AfterOf(P, i) == {P[j].key : j \in i + 1 .. Len(P)}
FromOf(P, i) == {P[j].key : j \in i .. Len(P)}

\* The response of call i is kept, at time t, if its key is not in x.
KeptOf(P, t, x, i) ==
  /\ P[i].ok /\ LatestOf(P, i) /\ ~(t - P[i].at > Window)
  /\ Cardinality(FromOf(P, i)) <= Cap /\ P[i].key \notin x

\* The log has it, and behind it what came after it.
StoredIn(P, f, i) ==
  \E p \in 1 .. Len(f) :
    /\ Readably(f, p) /\ f[p].nl /\ f[p].recs = <<Record(P[i].key, i, P[i].at)>>
    /\ \A q \in 1 .. Len(f) : Holds(f, q) =>
         (RecordIn(f, q).key = P[i].key => q = p) /\ (q > p => RecordIn(f, q).key \in AfterOf(P, i))

\* A store has it, and behind it what came after it.
HeldIn(P, s, i) ==
  /\ P[i].key \in DOMAIN s.map /\ s.map[P[i].key] = [code |-> i, at |-> P[i].at]
  /\ \E p \in 1 .. Len(s.order) :
       s.order[p] = P[i].key /\ \A q \in p + 1 .. Len(s.order) : s.order[q] \in AfterOf(P, i)

Logged(P, t, x, f) == \A i \in 1 .. Len(P) : KeptOf(P, t, x, i) => StoredIn(P, f, i)
Mapped(P, t, x, s) == \A i \in 1 .. Len(P) : KeptOf(P, t, x, i) => HeldIn(P, s, i)

LEMMA KeysFinite ==
  ASSUME NEW P \in Seq(PutType), NEW i \in Nat
  PROVE IsFiniteSet(FromOf(P, i)) /\ IsFiniteSet(AfterOf(P, i))
<1>1. ASSUME NEW j \in Nat PROVE IsFiniteSet({P[m].key : m \in j .. Len(P)})
  <2> DEFINE S == j .. Len(P)
             T == {P[m].key : m \in S}
             f == [m \in S |-> P[m].key]
  <2>1. IsFiniteSet(S)
    BY FS_Interval
  <2>2. f \in Surjection(S, T)
    BY DEF Surjection
  <2> HIDE DEF S, T, f
  <2>3. IsFiniteSet(T)
    BY <2>1, <2>2, FS_Surjection
  <2> QED
    BY <2>3 DEF T, S
<1>2. IsFiniteSet({P[m].key : m \in i .. Len(P)}) /\ IsFiniteSet({P[m].key : m \in i + 1 .. Len(P)})
  <2>1. i \in Nat /\ i + 1 \in Nat
    OBVIOUS
  <2> DEFINE n == i + 1
  <2>2. n \in Nat
    BY <2>1
  <2> HIDE DEF n
  <2>3. IsFiniteSet({P[m].key : m \in i .. Len(P)}) /\ IsFiniteSet({P[m].key : m \in n .. Len(P)})
    BY <1>1, <2>1, <2>2
  <2> QED
    BY <2>3 DEF n
<1> QED
  BY <1>2 DEF FromOf, AfterOf

\* No more than Cap keys: so many cannot have come behind it in a store.
LEMMA RoomBehind ==
  ASSUME NEW P \in Seq(PutType), NEW i \in 1 .. Len(P), LatestOf(P, i), Cardinality(FromOf(P, i)) <= Cap,
         NEW o \in Seq(Keys), \A p, q \in 1 .. Len(o) : o[p] = o[q] => p = q,
         NEW m \in 1 .. Len(o), \A q \in m + 1 .. Len(o) : o[q] \in AfterOf(P, i)
  PROVE Len(o) - m < Cap
<1> DEFINE A == AfterOf(P, i)
           k == P[i].key
           S == m + 1 .. Len(o)
           f == [q \in S |-> o[q]]
<1>1. Len(o) \in Nat /\ Len(P) \in Nat /\ i \in Nat /\ Cap \in Nat
  BY IdemStoreAssumption
<1>2. IsFiniteSet(A) /\ IsFiniteSet(FromOf(P, i))
  BY <1>1, KeysFinite
<1>3. FromOf(P, i) = A \cup {k} /\ k \notin A
  <2>1. i .. Len(P) = (i + 1 .. Len(P)) \cup {i}
    BY <1>1
  <2>2. FromOf(P, i) = A \cup {k}
    BY <2>1 DEF FromOf, AfterOf
  <2>3. k \notin A
    BY DEF LatestOf, AfterOf
  <2> QED
    BY <2>2, <2>3
<1>4. f \in Injection(S, A)
  <2>1. \A q \in S : q \in 1 .. Len(o) /\ o[q] \in A
    BY <1>1
  <2>2. DOMAIN f = S /\ f = [q \in S |-> f[q]] /\ \A q \in S : f[q] = o[q]
    OBVIOUS
  <2> HIDE DEF S, A, f
  <2>3. f \in [S -> A]
    BY <2>1, <2>2
  <2>4. \A a, b \in DOMAIN f : f[a] = f[b] => a = b
    BY <2>1, <2>2
  <2> QED
    BY <2>3, <2>4 DEF Injection, IsInjective
<1> HIDE DEF A, k, f
<1>5. Cardinality(S) <= Cardinality(A)
  <2> HIDE DEF S
  <2> QED
    BY <1>2, <1>4, FS_Injection
<1>6. Cardinality(A \cup {k}) = Cardinality(A) + 1 /\ Cardinality(A) \in Nat
  BY <1>2, <1>3, FS_AddElement, FS_CardinalityType
<1>7. Cardinality(S) = Len(o) - m
  <2>1. Cardinality(m + 1 .. Len(o)) = IF m + 1 > Len(o) THEN 0 ELSE Len(o) - (m + 1) + 1
    <3> DEFINE a == m + 1
               b == Len(o)
    <3>1. a \in Int /\ b \in Int
      BY <1>1
    <3> HIDE DEF a, b
    <3>2. Cardinality(a .. b) = IF a > b THEN 0 ELSE b - a + 1
      BY <3>1, FS_Interval
    <3> QED
      BY <3>2 DEF a, b
  <2> QED
    BY <1>1, <2>1
<1> QED
  BY <1>1, <1>3, <1>5, <1>6, <1>7

LEMMA BoundedHolds ==
  ASSUME NEW P \in Seq(PutType), NEW i \in 1 .. Len(P), LatestOf(P, i), Cardinality(FromOf(P, i)) <= Cap,
         NEW s, Shaped(s), HeldIn(P, s, i), NEW b, b = Bounded(s)
  PROVE HeldIn(P, b, i)
<1> DEFINE k == P[i].key
<1>1. PICK p \in 1 .. Len(s.order) : s.order[p] = k /\ \A q \in p + 1 .. Len(s.order) : s.order[q] \in AfterOf(P, i)
  BY DEF HeldIn
<1>2. s.order \in Seq(Keys) /\ \A q, r \in 1 .. Len(s.order) : s.order[q] = s.order[r] => q = r
  BY DEF Shaped
<1>3. Len(s.order) - p < Cap
  BY <1>1, <1>2, RoomBehind
<1>4. /\ Shaped(b) /\ Len(b.order) <= Cap /\ DOMAIN b.map \subseteq DOMAIN s.map
      /\ \A x \in DOMAIN b.map : b.map[x] = s.map[x]
      /\ Newest(s.order, b.order)
  BY BoundedFacts
<1>5. PICK d \in Nat :
           /\ Len(s.order) = d + Len(b.order) /\ (d > 0 => Len(b.order) = Cap)
           /\ \A q \in 1 .. Len(b.order) : b.order[q] = s.order[d + q]
  BY <1>4 DEF Newest
<1> DEFINE n == Len(b.order)
           m == p - d
<1>6. n \in Nat /\ Len(s.order) = d + n /\ Len(s.order) \in Nat /\ Cap \in Nat
  BY <1>2, <1>4, <1>5, IdemStoreAssumption, SMTT(30) DEF Shaped
<1> HIDE DEF n, k
<1>7. m \in 1 .. n /\ d + m = p /\ \A q \in m + 1 .. n : d + q \in p + 1 .. Len(s.order)
  BY <1>3, <1>5, <1>6 DEF n
<1> HIDE DEF m
<1>8. b.order[m] = k /\ \A q \in m + 1 .. n : b.order[q] \in AfterOf(P, i)
  <2>1. \A q \in 1 .. n : b.order[q] = s.order[d + q]
    BY <1>5 DEF n
  <2>2. m + 1 .. n \subseteq 1 .. n
    BY <1>6, <1>7
  <2> QED
    BY <1>1, <1>7, <2>1, <2>2
<1>9. k \in DOMAIN b.map
  BY <1>4, <1>7, <1>8 DEF Shaped, n
<1> QED
  BY <1>4, <1>7, <1>8, <1>9 DEF HeldIn, k, n

FollowedBy(P, i, e, Q) ==
  /\ AfterOf(P, i) \subseteq AfterOf(Q, i) /\ e.key \in AfterOf(Q, i)
  /\ FromOf(P, i) \subseteq FromOf(Q, i)
  /\ LatestOf(Q, i) => LatestOf(P, i) /\ P[i].key # e.key

LEMMA CallFacts ==
  ASSUME NEW P \in Seq(PutType), NEW e \in PutType, NEW P2, P2 = Append(P, e)
  PROVE /\ P2 \in Seq(PutType) /\ Len(P2) = Len(P) + 1 /\ Len(P) \in Nat /\ P2[Len(P) + 1] = e
        /\ \A j \in 1 .. Len(P) : P2[j] = P[j]
        /\ \A i \in 1 .. Len(P) : FollowedBy(P, i, e, P2)
<1> DEFINE n == Len(P)
<1>1. P2 \in Seq(PutType) /\ Len(P2) = n + 1 /\ n \in Nat /\ P2[n + 1] = e /\ \A j \in 1 .. n : P2[j] = P[j]
  OBVIOUS
<1> HIDE DEF n
<1>2. ASSUME NEW i \in 1 .. n
      PROVE FollowedBy(P, i, e, P2)
  <2>1. Len(P) = n
    BY DEF n
  <2>2. n + 1 \in i + 1 .. n + 1 /\ \A j \in i + 1 .. n : j \in i + 1 .. n + 1 /\ P2[j] = P[j]
    BY <1>1
  <2>3. \A j \in i .. n : j \in i .. n + 1 /\ P2[j] = P[j]
    BY <1>1
  <2>4. AfterOf(P, i) \subseteq AfterOf(P2, i)
    BY <1>1, <2>1, <2>2 DEF AfterOf
  <2>5. e.key \in AfterOf(P2, i)
    BY <1>1, <2>2 DEF AfterOf
  <2>6. FromOf(P, i) \subseteq FromOf(P2, i)
    BY <1>1, <2>1, <2>3 DEF FromOf
  <2>7. ASSUME LatestOf(P2, i) PROVE LatestOf(P, i) /\ P[i].key # e.key
    <3>1. P2[i] = P[i] /\ \A j \in i + 1 .. n + 1 : P2[j].key # P2[i].key
      BY <1>1, <2>7 DEF LatestOf
    <3>2. P[i].key # e.key
      BY <1>1, <2>2, <3>1
    <3>3. \A j \in i + 1 .. n : P[j].key # P[i].key
      BY <2>2, <3>1
    <3> QED
      BY <2>1, <3>2, <3>3 DEF LatestOf
  <2> QED
    BY <2>4, <2>5, <2>6, <2>7 DEF FollowedBy
<1> QED
  BY <1>1, <1>2 DEF n

\* What is kept after a call was kept before it, unless the call is of its key.
LEMMA KeptBefore ==
  ASSUME NEW P \in Seq(PutType), NEW e \in PutType, NEW P2, P2 = Append(P, e), NEW t, NEW x, NEW y,
         x \subseteq y \cup {e.key}, NEW i \in 1 .. Len(P), KeptOf(P2, t, y, i)
  PROVE KeptOf(P, t, x, i) /\ P[i].key # e.key /\ LatestOf(P, i) /\ P2[i] = P[i]
<1>1. /\ P2 \in Seq(PutType) /\ P2[i] = P[i] /\ i \in Nat
      /\ FromOf(P, i) \subseteq FromOf(P2, i) /\ LatestOf(P, i) /\ P[i].key # e.key
  <2>1. LatestOf(P2, i) /\ i \in Nat
    BY DEF KeptOf
  <2>2. P2 \in Seq(PutType) /\ P2[i] = P[i]
    BY CallFacts
  <2>3. FromOf(P, i) \subseteq FromOf(P2, i) /\ (LatestOf(P2, i) => LatestOf(P, i) /\ P[i].key # e.key)
    <3>1. FollowedBy(P, i, e, P2)
      BY CallFacts
    <3> QED
      BY <3>1 DEF FollowedBy
  <2> QED
    BY <2>1, <2>2, <2>3
<1>2. IsFiniteSet(FromOf(P2, i))
  BY <1>1, KeysFinite
<1>3. Cardinality(FromOf(P, i)) <= Cardinality(FromOf(P2, i)) /\ Cardinality(FromOf(P2, i)) \in Nat
      /\ Cardinality(FromOf(P, i)) \in Nat
  BY <1>1, <1>2, FS_Subset, FS_CardinalityType
<1>4. Cardinality(FromOf(P, i)) <= Cap
  <2>1. Cap \in Nat /\ Cardinality(FromOf(P2, i)) <= Cap
    BY IdemStoreAssumption DEF KeptOf
  <2> QED
    BY <1>3, <2>1
<1> QED
  BY <1>1, <1>4 DEF KeptOf

\* A record of another key leaves it in the store, and comes behind it.
LEMMA InsertHolds ==
  ASSUME NEW P, NEW Q, NEW i, Q[i] = P[i], NEW r \in RecordType, r.key # P[i].key,
         AfterOf(P, i) \subseteq AfterOf(Q, i), r.key \in AfterOf(Q, i),
         NEW s, Shaped(s), HeldIn(P, s, i), NEW u, u = Insert(s, r)
  PROVE HeldIn(Q, u, i)
<1> DEFINE k == P[i].key
           o == s.order
           n == Len(o)
<1>1. PICK p \in 1 .. n : o[p] = k /\ \A q \in p + 1 .. n : o[q] \in AfterOf(P, i)
  BY DEF HeldIn
<1>2. /\ DOMAIN u.map = DOMAIN s.map \cup {r.key}
      /\ \A x \in DOMAIN s.map : x # r.key => u.map[x] = s.map[x]
      /\ r.key \in DOMAIN s.map => u.order = s.order
      /\ r.key \notin DOMAIN s.map => u.order = Append(s.order, r.key)
  <2>1. WithRecord(s, r, u)
    BY InsertFacts
  <2> QED
    BY <2>1 DEF WithRecord
<1>3. k \in DOMAIN u.map /\ u.map[k] = [code |-> i, at |-> P[i].at]
  BY <1>2 DEF HeldIn
<1>4. o \in Seq(Keys) /\ n \in Nat
  BY DEF Shaped
<1> DEFINE w == u.order
<1>5. p \in 1 .. Len(w) /\ w[p] = k /\ \A q \in p + 1 .. Len(w) : w[q] \in AfterOf(Q, i)
  <2>1. CASE r.key \in DOMAIN s.map
    <3>1. w = o
      BY <1>2, <2>1
    <3> QED
      BY <1>1, <3>1
  <2>2. CASE r.key \notin DOMAIN s.map
    <3>1. w = Append(o, r.key)
      BY <1>2, <2>2
    <3> HIDE DEF w, o, k
    <3>2. Len(w) = n + 1 /\ w[n + 1] = r.key /\ \A q \in 1 .. n : w[q] = o[q]
      BY <1>4, <3>1
    <3> HIDE DEF n
    <3>3. p + 1 .. n + 1 = (p + 1 .. n) \cup {n + 1} /\ p + 1 .. n \subseteq 1 .. n
      BY <1>1, <1>4
    <3> QED
      BY <1>1, <1>4, <3>2, <3>3
  <2> QED
    BY <2>1, <2>2
<1> HIDE DEF w, k
<1> QED
  BY <1>3, <1>5 DEF HeldIn, w, k

\* A record of a key that the store does not have comes last.
LEMMA InsertedHolds ==
  ASSUME NEW P, NEW i, NEW r \in RecordType, r = Record(P[i].key, i, P[i].at),
         NEW s, Shaped(s), r.key \notin DOMAIN s.map, NEW u, u = Insert(s, r)
  PROVE HeldIn(P, u, i)
<1> DEFINE k == P[i].key
           o == s.order
           n == Len(o)
<1>1. r.key = k /\ r.code = i /\ r.at = P[i].at
  BY DEF Record
<1>2. /\ DOMAIN u.map = DOMAIN s.map \cup {r.key} /\ u.map[r.key] = [code |-> r.code, at |-> r.at]
      /\ r.key \notin DOMAIN s.map => u.order = Append(s.order, r.key)
  BY InsertFacts DEF WithRecord
<1>3. k \in DOMAIN u.map /\ u.map[k] = [code |-> i, at |-> P[i].at] /\ u.order = Append(o, r.key)
  BY <1>1, <1>2
<1>4. o \in Seq(Keys) /\ n \in Nat
  BY DEF Shaped
<1> DEFINE w == u.order
<1>5. Len(w) = n + 1 /\ w[n + 1] = k
  <2>1. w = Append(o, r.key)
    BY <1>3
  <2> HIDE DEF w, o, k
  <2> QED
    BY <1>1, <1>4, <2>1
<1> HIDE DEF n, o
<1>6. n + 1 \in 1 .. Len(w) /\ \A q \in n + 1 + 1 .. Len(w) : FALSE
  BY <1>4, <1>5
<1> HIDE DEF w, k
<1> QED
  BY <1>3, <1>5, <1>6 DEF HeldIn, w, k

-----------------------------------------------------------------------------
(* The log: what an append leaves, and what a rewrite.                     *)

\* g is f with at most a line of recs behind it; the last line of f, if it has
\* no newline, may have become one that holds no record.
Extends(f, g, recs) ==
  /\ g \in Seq(LineType)
  /\ \A p \in 1 .. Len(f) : f[p].nl => p \in 1 .. Len(g) /\ \A q \in 1 .. p : g[q] = f[q]
  /\ \A q \in 1 .. Len(g) :
       \/ q \in 1 .. Len(f) /\ \A p \in 1 .. q : g[p] = f[p]
       \/ ~Holds(g, q)
       \/ q = Len(f) + 1 /\ g[q].recs = recs

LEMMA ExtendsSelf ==
  ASSUME NEW f \in Seq(LineType), NEW recs
  PROVE Extends(f, f, recs)
<1>1. Len(f) \in Nat
  OBVIOUS
<1> QED
  BY <1>1 DEF Extends

LEMMA PutExtends ==
  ASSUME file \in Seq(LineType), NEW ln \in LineType, NEW g, g = Put(ln)
  PROVE /\ Extends(file, g, ln.recs)
        /\ ~Ragged => Len(g) = Len(file) + 1 /\ g[Len(file) + 1] = ln /\ \A q \in 1 .. Len(file) : g[q] = file[q]
<1> DEFINE n == Len(file)
<1>1. n \in Nat
  OBVIOUS
<1>2. CASE Ragged
  <2>1. n \in 1 .. n /\ ~file[n].nl
    BY <1>1, <1>2 DEF Ragged
  <2> DEFINE m == Line(<<>>, file[n].text /\ ln.text, ln.nl)
  <2>2. g = [file EXCEPT ![n] = m]
    BY <1>2 DEF Put
  <2>3. m \in LineType /\ m.recs = <<>>
    <3>1. ln.text \in BOOLEAN /\ ln.nl \in BOOLEAN
      BY DEF LineType
    <3>2. (file[n].text /\ ln.text) \in BOOLEAN
      OBVIOUS
    <3> QED
      BY <3>1, <3>2 DEF LineType, Line
  <2> HIDE DEF m
  <2>4. g \in Seq(LineType) /\ Len(g) = n /\ g[n] = m /\ \A q \in 1 .. n : q # n => g[q] = file[q]
    BY <1>1, <2>1, <2>2, <2>3
  <2> HIDE DEF n
  <2>5. ASSUME NEW p \in 1 .. n, file[p].nl PROVE p \in 1 .. Len(g) /\ \A q \in 1 .. p : g[q] = file[q]
    <3>1. p # n
      BY <2>1, <2>5
    <3>2. \A q \in 1 .. p : q \in 1 .. n /\ q # n
      BY <1>1, <3>1
    <3> QED
      BY <2>4, <3>2
  <2>6. ASSUME NEW q \in 1 .. Len(g)
        PROVE (q \in 1 .. n /\ \A p \in 1 .. q : g[p] = file[p]) \/ ~Holds(g, q)
    <3>1. CASE q = n
      BY <2>3, <2>4, <3>1 DEF Holds
    <3>2. CASE q # n
      <4>1. q \in 1 .. n /\ \A p \in 1 .. q : p \in 1 .. n /\ p # n
        BY <1>1, <2>4, <3>2
      <4> QED
        BY <2>4, <4>1
    <3> QED
      BY <3>1, <3>2
  <2> QED
    BY <1>2, <2>4, <2>5, <2>6 DEF Extends, n
<1>3. CASE ~Ragged
  <2>1. g = Append(file, ln)
    BY <1>3 DEF Put
  <2>2. g \in Seq(LineType) /\ Len(g) = n + 1 /\ g[n + 1] = ln /\ \A q \in 1 .. n : g[q] = file[q]
    BY <1>1, <2>1
  <2> HIDE DEF n
  <2>3. ASSUME NEW p \in 1 .. n PROVE p \in 1 .. Len(g) /\ \A q \in 1 .. p : g[q] = file[q]
    BY <1>1, <2>2
  <2>4. ASSUME NEW q \in 1 .. Len(g)
        PROVE (q \in 1 .. n /\ \A p \in 1 .. q : g[p] = file[p]) \/ (q = n + 1 /\ g[q].recs = ln.recs)
    <3>1. q \in 1 .. n \/ q = n + 1
      BY <1>1, <2>2
    <3> QED
      BY <2>2, <2>3, <3>1
  <2> QED
    BY <2>2, <2>3, <2>4 DEF Extends, n
<1> QED
  BY <1>2, <1>3

\* What an append leaves, whole or not: a line of its record, or none.
LEMMA InterruptedExtends ==
  ASSUME file \in Seq(LineType), NEW k, Record(k, This, now) \in RecordType, NEW g \in Interrupted(k)
  PROVE Extends(file, g, <<Record(k, This, now)>>)
<1> DEFINE r == Record(k, This, now)
<1>1. ASSUME NEW ln \in LineType, ln.recs \in {<<>>, <<r>>} PROVE Extends(file, Put(ln), <<r>>)
  <2> DEFINE h == Put(ln)
             rr == <<r>>
  <2>1. Extends(file, h, ln.recs)
    BY <1>1, PutExtends
  <2>2. ln.recs = <<>> \/ ln.recs = rr
    BY <1>1
  <2>3. CASE ln.recs = rr
    <3> HIDE DEF h, r
    <3> QED
      BY <2>1, <2>3 DEF h
  <2>4. CASE ln.recs = <<>>
    <3>1. /\ h \in Seq(LineType)
          /\ \A p \in 1 .. Len(file) : file[p].nl => p \in 1 .. Len(h) /\ \A q \in 1 .. p : h[q] = file[q]
      BY <2>1 DEF Extends
    <3>2. ASSUME NEW q \in 1 .. Len(h)
          PROVE (q \in 1 .. Len(file) /\ \A p \in 1 .. q : h[p] = file[p]) \/ ~Holds(h, q)
      BY <2>1, <2>4 DEF Extends, Holds
    <3> HIDE DEF h, r
    <3> QED
      BY <3>1, <3>2 DEF Extends, h
  <2> QED
    BY <2>2, <2>3, <2>4
<1>2. <<r>> \in {<<x>> : x \in RecordType}
  OBVIOUS
<1> HIDE DEF r
<1>3. ASSUME NEW ln, ln \in {Line(<<>>, TRUE, FALSE), Line(<<>>, FALSE, FALSE),
                             Line(<<r>>, TRUE, FALSE), Line(<<r>>, TRUE, TRUE)}
      PROVE ln \in LineType /\ ln.recs \in {<<>>, <<r>>}
  <2> DEFINE rr == <<r>>
             R == {<<>>} \cup {<<x>> : x \in RecordType}
  <2>1. rr \in R /\ <<>> \in R
    BY <1>2
  <2>2. LineType = [recs : R, text : BOOLEAN, nl : BOOLEAN]
    BY DEF LineType
  <2>3. \A recs \in R, a \in BOOLEAN, b \in BOOLEAN : Line(recs, a, b) \in LineType /\ Line(recs, a, b).recs = recs
    <3> HIDE DEF R
    <3> QED
      BY <2>2 DEF Line
  <2>4. \/ ln = Line(<<>>, TRUE, FALSE) \/ ln = Line(<<>>, FALSE, FALSE)
        \/ ln = Line(rr, TRUE, FALSE) \/ ln = Line(rr, TRUE, TRUE)
    BY <1>3
  <2> HIDE DEF rr, R
  <2> QED
    BY <2>1, <2>3, <2>4 DEF rr
<1>4. Whole(k) = Line(<<r>>, TRUE, TRUE) /\ Whole(k).recs = <<r>>
  BY DEF Whole, Line, r
<1>5. CASE g = file
  BY <1>5, ExtendsSelf
<1>6. CASE g # file
  <2>1. PICK ln \in {Line(<<>>, TRUE, FALSE), Line(<<>>, FALSE, FALSE),
                     Line(<<r>>, TRUE, FALSE), Line(<<r>>, TRUE, TRUE)} : g = Put(ln)
    BY <1>4, <1>6 DEF Interrupted
  <2>2. ln \in LineType /\ ln.recs \in {<<>>, <<r>>}
    BY <1>3
  <2> QED
    BY <1>1, <2>1, <2>2 DEF r
<1> QED
  BY <1>5, <1>6

\* A line that ends in a newline is left alone by what comes behind it.
LEMMA ExtendsKeeps ==
  ASSUME NEW f \in Seq(LineType), NEW g, NEW recs, Extends(f, g, recs),
         NEW p \in 1 .. Len(f), f[p].nl, Readably(f, p)
  PROVE p \in 1 .. Len(g) /\ Readably(g, p) /\ g[p] = f[p]
<1>1. p \in 1 .. Len(g) /\ \A q \in 1 .. p : g[q] = f[q]
  BY DEF Extends
<1>2. p \in 1 .. p
  BY <1>1
<1> QED
  BY <1>1, <1>2 DEF Readably

\* A record of the log stood in it before, or is the one appended.
LEMMA ExtendsHolds ==
  ASSUME NEW f \in Seq(LineType), NEW g, NEW r, Extends(f, g, <<r>>),
         NEW q \in 1 .. Len(g), Holds(g, q)
  PROVE \/ /\ q \in 1 .. Len(f) /\ Holds(f, q) /\ RecordIn(g, q) = RecordIn(f, q)
           /\ Readably(g, q) => Readably(f, q)
        \/ q = Len(f) + 1 /\ RecordIn(g, q) = r
<1>1. CASE q \in 1 .. Len(f) /\ \A p \in 1 .. q : g[p] = f[p]
  <2>1. q \in 1 .. q
    BY <1>1
  <2> QED
    BY <1>1, <2>1 DEF Holds, RecordIn, Readably
<1>2. CASE q = Len(f) + 1 /\ g[q].recs = <<r>>
  <2>1. Head(<<r>>) = r
    OBVIOUS
  <2> QED
    BY <1>2, <2>1 DEF RecordIn
<1> QED
  BY <1>1, <1>2 DEF Extends

-----------------------------------------------------------------------------
(* Records are of calls, and a later call that succeeded replaces them.    *)

Told(P, r) == r.code \in 1 .. Len(P) /\ P[r.code].key = r.key /\ P[r.code].at = r.at

FileTold(P, f) == \A q \in 1 .. Len(f) : Holds(f, q) => Told(P, RecordIn(f, q))
MapTold(P, s) == \A k \in DOMAIN s.map : Told(P, Record(k, s.map[k].code, s.map[k].at))

\* The record of a call that comes after those of P.
ItsRecord(P, e, r) == r = Record(e.key, Len(P) + 1, e.at)

\* A later call of key k succeeded.
Replaced(P, k, c) == \E j \in c + 1 .. Len(P) : P[j].key = k /\ P[j].ok

\* Line q is read before a newer one of its key.
Superseded(f, q) ==
  \E p \in q + 1 .. Len(f) :
    /\ Readably(f, p) /\ f[p].nl /\ Holds(f, p)
    /\ RecordIn(f, p).key = RecordIn(f, q).key /\ RecordIn(f, p).code > RecordIn(f, q).code

LogLatest(P, u, f) ==
  \A q \in 1 .. Len(f) :
    /\ Readably(f, q) /\ Holds(f, q) /\ RecordIn(f, q).key \notin u
    /\ Replaced(P, RecordIn(f, q).key, RecordIn(f, q).code)
    => Superseded(f, q)

MapLatest(P, u, s) == \A k \in DOMAIN s.map \ u : ~Replaced(P, k, s.map[k].code)

LEMMA ToldBefore ==
  ASSUME NEW P \in Seq(PutType), NEW e \in PutType, NEW P2, P2 = Append(P, e), NEW r, Told(P, r)
  PROVE Told(P2, r)
<1>1. Len(P2) = Len(P) + 1 /\ Len(P) \in Nat /\ \A j \in 1 .. Len(P) : P2[j] = P[j]
  BY CallFacts
<1>2. r.code \in 1 .. Len(P) /\ P2[r.code] = P[r.code]
  BY <1>1 DEF Told
<1>3. r.code \in 1 .. Len(P2)
  BY <1>1, <1>2
<1> QED
  BY <1>2, <1>3 DEF Told

LEMMA ReplacedBefore ==
  ASSUME NEW P \in Seq(PutType), NEW e \in PutType, NEW P2, P2 = Append(P, e), NEW k, NEW c \in Nat,
         Replaced(P2, k, c), ~(e.key = k /\ e.ok)
  PROVE Replaced(P, k, c)
<1>1. Len(P2) = Len(P) + 1 /\ Len(P) \in Nat /\ P2[Len(P) + 1] = e /\ \A j \in 1 .. Len(P) : P2[j] = P[j]
  BY CallFacts
<1>2. PICK j \in c + 1 .. Len(P2) : P2[j].key = k /\ P2[j].ok
  BY DEF Replaced
<1>3. j # Len(P) + 1
  BY <1>1, <1>2
<1>4. j \in c + 1 .. Len(P) /\ P2[j] = P[j]
  BY <1>1, <1>2, <1>3
<1> QED
  BY <1>2, <1>4 DEF Replaced

LEMMA ToldNew ==
  ASSUME NEW P \in Seq(PutType), NEW e \in PutType, NEW P2, P2 = Append(P, e),
         NEW r, ItsRecord(P, e, r)
  PROVE Told(P2, r) /\ ~Replaced(P2, r.key, r.code) /\ r.code = Len(P) + 1 /\ r.key = e.key
<1>1. Len(P2) = Len(P) + 1 /\ Len(P) \in Nat /\ P2[Len(P) + 1] = e
  BY CallFacts
<1>2. r.code = Len(P) + 1 /\ r.key = e.key /\ r.at = e.at
  BY DEF Record, ItsRecord
<1> QED
  BY <1>1, <1>2 DEF Told, Replaced

-----------------------------------------------------------------------------
(* A call appends to the log.                                              *)

LEMMA FileToldAppend ==
  ASSUME NEW P \in Seq(PutType), NEW e \in PutType, NEW P2, P2 = Append(P, e),
         NEW r, ItsRecord(P, e, r),
         NEW f \in Seq(LineType), NEW g, Extends(f, g, <<r>>), FileTold(P, f)
  PROVE FileTold(P2, g)
<1>1. ASSUME NEW q \in 1 .. Len(g), Holds(g, q) PROVE Told(P2, RecordIn(g, q))
  <2>1. CASE q \in 1 .. Len(f) /\ Holds(f, q) /\ RecordIn(g, q) = RecordIn(f, q)
    <3>1. Told(P, RecordIn(f, q))
      BY <2>1 DEF FileTold
    <3> QED
      BY <2>1, <3>1, ToldBefore
  <2>2. CASE RecordIn(g, q) = r
    BY <2>2, ToldNew
  <2> QED
    BY <1>1, <2>1, <2>2, ExtendsHolds
<1> QED
  BY <1>1 DEF FileTold

LEMMA LoggedAppend ==
  ASSUME NEW P \in Seq(PutType), NEW e \in PutType, NEW P2, P2 = Append(P, e), NEW t, NEW x, NEW y,
         x \subseteq y \cup {e.key},
         NEW r, ItsRecord(P, e, r),
         NEW f \in Seq(LineType), NEW g, Extends(f, g, <<r>>), Logged(P, t, x, f),
         \A i \in 1 .. Len(P2) : i > Len(P) /\ KeptOf(P2, t, y, i) => StoredIn(P2, g, i)
  PROVE Logged(P2, t, y, g)
<1>1. Len(P2) = Len(P) + 1 /\ Len(P) \in Nat
  BY CallFacts
<1>2. r.key = e.key
  BY DEF Record, ItsRecord
<1>3. ASSUME NEW i \in 1 .. Len(P), KeptOf(P2, t, y, i) PROVE StoredIn(P2, g, i)
  <2>1. KeptOf(P, t, x, i) /\ P[i].key # e.key /\ P2[i] = P[i]
    BY <1>3, KeptBefore, ZenonT(40)
  <2>2. FollowedBy(P, i, e, P2)
    BY CallFacts
  <2>3. PICK p \in 1 .. Len(f) :
              /\ Readably(f, p) /\ f[p].nl /\ f[p].recs = <<Record(P[i].key, i, P[i].at)>>
              /\ \A q \in 1 .. Len(f) : Holds(f, q) =>
                   (RecordIn(f, q).key = P[i].key => q = p) /\ (q > p => RecordIn(f, q).key \in AfterOf(P, i))
    BY <2>1 DEF Logged, StoredIn
  <2>4. p \in 1 .. Len(g) /\ Readably(g, p) /\ g[p] = f[p]
    BY <2>3, ExtendsKeeps
  <2>5. ASSUME NEW q \in 1 .. Len(g), Holds(g, q)
        PROVE (RecordIn(g, q).key = P[i].key => q = p) /\ (q > p => RecordIn(g, q).key \in AfterOf(P2, i))
    <3>1. CASE q \in 1 .. Len(f) /\ Holds(f, q) /\ RecordIn(g, q) = RecordIn(f, q)
      BY <2>2, <2>3, <3>1 DEF FollowedBy
    <3>2. CASE RecordIn(g, q) = r
      BY <1>2, <2>1, <2>2, <3>2 DEF FollowedBy
    <3> QED
      BY <2>5, <3>1, <3>2, ExtendsHolds
  <2> QED
    <3>1. Readably(g, p) /\ g[p].nl /\ g[p].recs = <<Record(P2[i].key, i, P2[i].at)>>
      BY <2>1, <2>3, <2>4
    <3>2. \A q \in 1 .. Len(g) : Holds(g, q) =>
            (RecordIn(g, q).key = P2[i].key => q = p) /\ (q > p => RecordIn(g, q).key \in AfterOf(P2, i))
      BY <2>1, <2>5
    <3> QED
      BY <2>4, <3>1, <3>2 DEF StoredIn
<1>4. ASSUME NEW i \in 1 .. Len(P2), KeptOf(P2, t, y, i) PROVE StoredIn(P2, g, i)
  <2>1. i \in 1 .. Len(P) \/ i > Len(P)
    BY <1>1
  <2> QED
    BY <1>3, <1>4, <2>1
<1> QED
  BY <1>4 DEF Logged

\* The line that is appended can be read.
Safely(f, g, r) ==
  /\ Len(f) + 1 \in 1 .. Len(g) /\ Readably(g, Len(f) + 1)
  /\ g[Len(f) + 1].nl /\ g[Len(f) + 1].recs = <<r>>

LEMMA LogLatestAppend ==
  ASSUME NEW P \in Seq(PutType), NEW e \in PutType, NEW P2, P2 = Append(P, e), NEW u, NEW u2,
         u \subseteq u2 \cup {e.key},
         NEW r, ItsRecord(P, e, r),
         NEW f \in Seq(LineType), NEW g, Extends(f, g, <<r>>), FileTold(P, f), LogLatest(P, u, f),
         e.key \in u2 \/ Safely(f, g, r) \/ (~e.ok /\ e.key \notin u)
  PROVE LogLatest(P2, u2, g)
<1>1. Len(P2) = Len(P) + 1 /\ Len(P) \in Nat /\ Len(f) \in Nat
  BY CallFacts
<1>2. r.key = e.key /\ r.code = Len(P) + 1 /\ ~Replaced(P2, r.key, r.code)
  BY ToldNew
<1>3. ASSUME NEW q \in 1 .. Len(f), RecordIn(g, q) = RecordIn(f, q), Superseded(f, q)
      PROVE Superseded(g, q)
  <2>1. PICK p \in q + 1 .. Len(f) :
              /\ Readably(f, p) /\ f[p].nl /\ Holds(f, p)
              /\ RecordIn(f, p).key = RecordIn(f, q).key /\ RecordIn(f, p).code > RecordIn(f, q).code
    BY <1>3 DEF Superseded
  <2>2. p \in 1 .. Len(f)
    BY <1>1
  <2>3. p \in 1 .. Len(g) /\ Readably(g, p) /\ g[p] = f[p]
    BY <2>1, <2>2, ExtendsKeeps
  <2>4. p \in q + 1 .. Len(g)
    BY <1>1, <2>3
  <2> QED
    BY <1>3, <2>1, <2>3, <2>4 DEF Superseded, Holds, RecordIn
<1>4. ASSUME NEW q \in 1 .. Len(g), Readably(g, q), Holds(g, q), RecordIn(g, q).key \notin u2,
             Replaced(P2, RecordIn(g, q).key, RecordIn(g, q).code)
      PROVE Superseded(g, q)
  <2> DEFINE k == RecordIn(g, q).key
             c == RecordIn(g, q).code
  <2>1. /\ q \in 1 .. Len(f) /\ Holds(f, q) /\ RecordIn(g, q) = RecordIn(f, q) /\ Readably(f, q)
    BY <1>2, <1>4, ExtendsHolds
  <2>2. c \in 1 .. Len(P)
    BY <2>1 DEF FileTold, Told
  <2>3. ASSUME k \notin u, Replaced(P, k, c) PROVE Superseded(g, q)
    <3>1. Superseded(f, q)
      BY <2>1, <2>3 DEF LogLatest
    <3> QED
      BY <1>3, <2>1, <3>1
  <2>4. CASE k # e.key \/ (~e.ok /\ e.key \notin u)
    <3>1. k \notin u
      BY <1>4, <2>4
    <3>2. Replaced(P2, k, c) /\ c \in Nat /\ ~(e.key = k /\ e.ok)
      BY <1>4, <2>2, <2>4
    <3> HIDE DEF k, c
    <3>3. Replaced(P, k, c)
      BY <3>2, ReplacedBefore
    <3> QED
      BY <2>3, <3>1, <3>3
  <2>5. CASE k = e.key /\ Safely(f, g, r)
    <3> DEFINE p == Len(f) + 1
    <3>1. p \in 1 .. Len(g) /\ Readably(g, p) /\ g[p].nl /\ g[p].recs = <<r>> /\ p \in q + 1 .. Len(g)
      BY <1>1, <2>1, <2>5 DEF Safely
    <3> HIDE DEF p
    <3>2. Head(<<r>>) = r /\ <<r>> # <<>>
      OBVIOUS
    <3>3. RecordIn(g, p) = r /\ Holds(g, p)
      BY <3>1, <3>2 DEF RecordIn, Holds
    <3>4. r.code > c
      BY <1>1, <1>2, <2>2
    <3> QED
      BY <1>2, <2>5, <3>1, <3>3, <3>4 DEF Superseded
  <2> QED
    BY <1>4, <2>4, <2>5
<1> QED
  BY <1>4 DEF LogLatest

-----------------------------------------------------------------------------
(* What is known of a store and of the log, at time t: u holds the keys    *)
(* whose record a restart may not find, x also those of which an older     *)
(* record was still held.                                                  *)

Stores(P, t, u, x, s) == Shaped(s) /\ MapTold(P, s) /\ Mapped(P, t, x, s) /\ MapLatest(P, u, s)
Logs(P, t, u, x, f) == f \in Seq(LineType) /\ FileTold(P, f) /\ Logged(P, t, x, f) /\ LogLatest(P, u, f)

\* The oldest keys give way: what is said of each key still is.
LEMMA BoundedStores ==
  ASSUME NEW P \in Seq(PutType), NEW t, NEW u, NEW x, NEW s, Stores(P, t, u, x, s), NEW b, b = Bounded(s)
  PROVE Stores(P, t, u, x, b) /\ Len(b.order) <= Cap
<1>1. Shaped(s) /\ MapTold(P, s) /\ Mapped(P, t, x, s) /\ MapLatest(P, u, s)
  BY DEF Stores
<1>2. /\ Shaped(b) /\ Len(b.order) <= Cap /\ DOMAIN b.map \subseteq DOMAIN s.map
      /\ \A k \in DOMAIN b.map : b.map[k] = s.map[k]
  BY <1>1, BoundedFacts
<1>3. MapTold(P, b)
  BY <1>1, <1>2 DEF MapTold
<1>4. MapLatest(P, u, b)
  BY <1>1, <1>2 DEF MapLatest
<1>5. Mapped(P, t, x, b)
  <2>1. ASSUME NEW i \in 1 .. Len(P), KeptOf(P, t, x, i) PROVE HeldIn(P, b, i)
    <3>1. HeldIn(P, s, i) /\ LatestOf(P, i) /\ Cardinality(FromOf(P, i)) <= Cap
      BY <1>1, <2>1 DEF KeptOf, Mapped
    <3> QED
      BY <1>1, <3>1, BoundedHolds
  <2> QED
    BY <2>1 DEF Mapped
<1> QED
  BY <1>2, <1>3, <1>4, <1>5 DEF Stores

\* put() of a key: its record is remembered.
LEMMA StoresWith ==
  ASSUME NEW P \in Seq(PutType), NEW e \in PutType, NEW P2, P2 = Append(P, e), NEW t, NEW u, NEW x, NEW u2, NEW y,
         x \subseteq y \cup {e.key}, u \subseteq u2 \cup {e.key},
         NEW r \in RecordType, ItsRecord(P, e, r),
         NEW s, e.key \in DOMAIN s.map => e.key \in y, Stores(P, t, u, x, s),
         NEW b, b = Bounded(Insert(s, r))
  PROVE Stores(P2, t, u2, y, b) /\ Len(b.order) <= Cap
<1> DEFINE w == Insert(s, r)
           n == Len(P)
<1>1. Shaped(s) /\ MapTold(P, s) /\ Mapped(P, t, x, s) /\ MapLatest(P, u, s)
  BY DEF Stores
<1>2. Shaped(w) /\ WithRecord(s, r, w)
  BY <1>1, InsertFacts
<1>3. b = Bounded(w)
  OBVIOUS
<1>4. /\ DOMAIN w.map = DOMAIN s.map \cup {r.key} /\ w.map[r.key] = [code |-> r.code, at |-> r.at]
      /\ \A k \in DOMAIN s.map : k # r.key => w.map[k] = s.map[k]
  <2> HIDE DEF w
  <2> QED
    BY <1>2 DEF WithRecord
<1>5. r.key = e.key /\ r.at = e.at /\ Told(P2, r) /\ ~Replaced(P2, r.key, r.code)
  <2>1. Told(P2, r) /\ ~Replaced(P2, r.key, r.code)
    BY ToldNew
  <2> QED
    BY <2>1 DEF Record, ItsRecord
<1>6. P2 \in Seq(PutType) /\ Len(P2) = n + 1 /\ n \in Nat /\ P2[n + 1] = e
  BY CallFacts
<1>7. ASSUME NEW i \in 1 .. Len(P2), KeptOf(P2, t, y, i) PROVE HeldIn(P2, w, i)
  <2>1. CASE i = n + 1
    <3>1. r.key \notin DOMAIN s.map /\ r = Record(P2[i].key, i, P2[i].at)
      BY <1>5, <1>6, <1>7, <2>1 DEF KeptOf, ItsRecord
    <3> QED
      BY <1>1, <3>1, InsertedHolds
  <2>2. CASE i # n + 1
    <3>1. i \in 1 .. Len(P)
      BY <1>6, <2>2
    <3>2. KeptOf(P, t, x, i) /\ P[i].key # e.key /\ P2[i] = P[i]
      BY <1>7, <3>1, KeptBefore, ZenonT(40)
    <3>3. HeldIn(P, s, i) /\ AfterOf(P, i) \subseteq AfterOf(P2, i) /\ e.key \in AfterOf(P2, i)
      <4>1. FollowedBy(P, i, e, P2)
        BY <3>1, CallFacts
      <4> QED
        BY <1>1, <3>1, <3>2, <4>1 DEF Mapped, FollowedBy
    <3> QED
      BY <1>1, <1>5, <3>2, <3>3, InsertHolds
  <2> QED
    BY <2>1, <2>2
<1> HIDE DEF w
<1>8. ASSUME NEW k \in DOMAIN w.map PROVE Told(P2, Record(k, w.map[k].code, w.map[k].at))
  <2>1. CASE k = r.key
    <3>1. w.map[k].code = r.code /\ w.map[k].at = r.at
      BY <1>4, <2>1
    <3>2. Record(k, w.map[k].code, w.map[k].at) = r
      BY <1>5, <2>1, <3>1 DEF Record, RecordType
    <3> QED
      BY <1>5, <3>2
  <2>2. CASE k # r.key
    <3> DEFINE m == Record(k, s.map[k].code, s.map[k].at)
    <3>1. k \in DOMAIN s.map /\ w.map[k] = s.map[k]
      BY <1>4, <2>2
    <3>2. Told(P, m)
      BY <1>1, <3>1 DEF MapTold
    <3>3. Record(k, w.map[k].code, w.map[k].at) = m
      BY <3>1
    <3> HIDE DEF m
    <3>4. Told(P2, m)
      BY <3>2, ToldBefore
    <3> QED
      BY <3>3, <3>4
  <2> QED
    BY <2>1, <2>2
<1>9. ASSUME NEW k \in DOMAIN w.map, k \notin u2 PROVE ~Replaced(P2, k, w.map[k].code)
  <2>1. CASE k = r.key
    <3>1. w.map[k].code = r.code
      BY <1>4, <2>1
    <3> QED
      BY <1>5, <2>1, <3>1
  <2>2. CASE k # r.key
    <3> DEFINE c == s.map[k].code
    <3>1. k \in DOMAIN s.map /\ w.map[k] = s.map[k]
      BY <1>4, <2>2
    <3>2. c \in Nat
      BY <1>1, <3>1 DEF Shaped, ValueType
    <3>3. ~Replaced(P, k, c)
      BY <1>1, <1>5, <1>9, <2>2, <3>1 DEF MapLatest
    <3> HIDE DEF c
    <3>4. ~Replaced(P2, k, c)
      BY <1>5, <2>2, <3>2, <3>3, ReplacedBefore
    <3> QED
      BY <3>1, <3>4 DEF c
  <2> QED
    BY <2>1, <2>2
<1>10. Stores(P2, t, u2, y, w)
  BY <1>2, <1>7, <1>8, <1>9 DEF Stores, MapTold, Mapped, MapLatest
<1> QED
  BY <1>3, <1>6, <1>10, BoundedStores

\* put() that fails remembers nothing.
LEMMA StoresFailed ==
  ASSUME NEW P \in Seq(PutType), NEW e \in PutType, ~e.ok, NEW P2, P2 = Append(P, e), NEW t, NEW u, NEW x, NEW y,
         x \subseteq y \cup {e.key}, NEW s, Stores(P, t, u, x, s)
  PROVE Stores(P2, t, u, y, s)
<1>1. Shaped(s) /\ MapTold(P, s) /\ Mapped(P, t, x, s) /\ MapLatest(P, u, s)
  BY DEF Stores
<1>2. MapTold(P2, s)
  <2>1. ASSUME NEW k \in DOMAIN s.map PROVE Told(P2, Record(k, s.map[k].code, s.map[k].at))
    <3> DEFINE m == Record(k, s.map[k].code, s.map[k].at)
    <3>1. Told(P, m)
      BY <1>1 DEF MapTold
    <3> HIDE DEF m
    <3>2. Told(P2, m)
      BY <3>1, ToldBefore
    <3> QED
      BY <3>2 DEF m
  <2> QED
    BY <2>1 DEF MapTold
<1>3. ASSUME NEW k \in DOMAIN s.map, k \notin u PROVE ~Replaced(P2, k, s.map[k].code)
  <2> DEFINE c == s.map[k].code
  <2>1. c \in Nat
    BY <1>1 DEF Shaped, ValueType
  <2>2. ~Replaced(P, k, c)
    BY <1>1, <1>3 DEF MapLatest
  <2> HIDE DEF c
  <2>3. ~Replaced(P2, k, c)
    BY <2>1, <2>2, ReplacedBefore
  <2> QED
    BY <2>3 DEF c
<1>4. ASSUME NEW i \in 1 .. Len(P2), KeptOf(P2, t, y, i) PROVE HeldIn(P2, s, i)
  <2>1. Len(P2) = Len(P) + 1 /\ Len(P) \in Nat /\ P2[Len(P) + 1] = e
    BY CallFacts
  <2>2. i \in 1 .. Len(P)
    BY <1>4, <2>1 DEF KeptOf
  <2>3. KeptOf(P, t, x, i) /\ P2[i] = P[i]
    BY <1>4, <2>2, KeptBefore, ZenonT(40)
  <2>4. FollowedBy(P, i, e, P2)
    BY <2>2, CallFacts
  <2>5. HeldIn(P, s, i) /\ AfterOf(P, i) \subseteq AfterOf(P2, i)
    BY <1>1, <2>2, <2>3, <2>4 DEF Mapped, FollowedBy
  <2> QED
    BY <2>3, <2>5 DEF HeldIn
<1> QED
  BY <1>1, <1>2, <1>3, <1>4 DEF Stores, MapLatest, Mapped

-----------------------------------------------------------------------------
(* The log is written anew from the store.                                 *)

LEMMA RewrittenFacts ==
  ASSUME NEW s, Shaped(s), NEW g, g = Rewritten(s)
  PROVE /\ g \in Seq(LineType) /\ Len(g) = Len(s.order) /\ Len(g) \in Nat
        /\ \A q \in 1 .. Len(g) :
             /\ Readably(g, q) /\ g[q].nl /\ Holds(g, q) /\ s.order[q] \in DOMAIN s.map
             /\ RecordIn(g, q) = RecordOf(s, s.order[q]) /\ g[q].recs = <<RecordOf(s, s.order[q])>>
<1> DEFINE o == s.order
           n == Len(o)
           L(q) == Line(<<RecordOf(s, o[q])>>, TRUE, TRUE)
<1>1. n \in Nat /\ \A q \in 1 .. n : o[q] \in DOMAIN s.map
  BY DEF Shaped
<1>2. ASSUME NEW k \in DOMAIN s.map PROVE RecordOf(s, k) \in RecordType
  <2>1. k \in Keys /\ s.map[k] \in ValueType
    BY DEF Shaped
  <2> DEFINE v == s.map[k]
  <2>2. v.code \in 1 .. MaxPuts /\ v.at \in Nat
    BY <2>1 DEF ValueType
  <2> HIDE DEF v
  <2>3. Record(k, v.code, v.at) \in RecordType
    BY <2>1, <2>2 DEF Record, RecordType
  <2> QED
    BY <2>3 DEF RecordOf, v
<1>3. ASSUME NEW q \in 1 .. n
      PROVE L(q) \in LineType /\ L(q).recs = <<RecordOf(s, o[q])>> /\ L(q).text = TRUE /\ L(q).nl = TRUE
  <2> DEFINE r == RecordOf(s, o[q])
             rr == <<r>>
             R == {<<>>} \cup {<<x>> : x \in RecordType}
  <2>1. r \in RecordType
    BY <1>1, <1>2
  <2> HIDE DEF r
  <2>2. rr \in R
    BY <2>1
  <2> HIDE DEF rr, R
  <2>3. Line(rr, TRUE, TRUE) \in [recs : R, text : BOOLEAN, nl : BOOLEAN]
    BY <2>2 DEF Line
  <2>4. Line(rr, TRUE, TRUE).recs = rr /\ Line(rr, TRUE, TRUE).text = TRUE /\ Line(rr, TRUE, TRUE).nl = TRUE
    BY DEF Line
  <2> QED
    BY <2>3, <2>4 DEF LineType, R, rr, r
<1>4. g = [q \in 1 .. n |-> L(q)]
  BY DEF Rewritten
<1> HIDE DEF n, L
<1>5. g \in [1 .. n -> LineType]
  BY <1>3, <1>4
<1>6. g \in Seq(LineType) /\ Len(g) = n
  BY <1>1, <1>5, MadeSeq
<1>7. \A q \in 1 .. n : g[q] = L(q)
  BY <1>4
<1>8. ASSUME NEW q \in 1 .. n
      PROVE /\ Readably(g, q) /\ g[q].nl /\ Holds(g, q) /\ o[q] \in DOMAIN s.map
            /\ RecordIn(g, q) = RecordOf(s, o[q]) /\ g[q].recs = <<RecordOf(s, o[q])>>
  <2>1. \A p \in 1 .. q : p \in 1 .. n
    BY <1>1
  <2>2. Readably(g, q)
    BY <1>3, <1>7, <2>1 DEF Readably
  <2> DEFINE r == RecordOf(s, o[q])
  <2>3. g[q].recs = <<r>> /\ g[q].nl = TRUE
    BY <1>3, <1>7
  <2> HIDE DEF r
  <2>4. Head(<<r>>) = r /\ <<r>> # <<>>
    OBVIOUS
  <2>5. Holds(g, q) /\ RecordIn(g, q) = r
    BY <2>3, <2>4 DEF Holds, RecordIn
  <2> QED
    BY <1>1, <2>2, <2>3, <2>5 DEF r
<1> QED
  BY <1>1, <1>6, <1>8 DEF n

LEMMA RewrittenLogs ==
  ASSUME NEW P \in Seq(PutType), NEW t, NEW u, NEW x, NEW s, Stores(P, t, u, x, s), NEW g, g = Rewritten(s)
  PROVE Logs(P, t, u, x, g)
<1>1. Shaped(s) /\ MapTold(P, s) /\ Mapped(P, t, x, s) /\ MapLatest(P, u, s)
  BY DEF Stores
<1>2. /\ g \in Seq(LineType) /\ Len(g) = Len(s.order) /\ Len(g) \in Nat
      /\ \A q \in 1 .. Len(g) :
           /\ Readably(g, q) /\ g[q].nl /\ Holds(g, q) /\ s.order[q] \in DOMAIN s.map
           /\ RecordIn(g, q) = RecordOf(s, s.order[q]) /\ g[q].recs = <<RecordOf(s, s.order[q])>>
  BY <1>1, RewrittenFacts
<1>3. \A k : RecordOf(s, k).key = k /\ RecordOf(s, k).code = s.map[k].code
  BY DEF RecordOf, Record
<1>4. FileTold(P, g)
  <2>1. \A k \in DOMAIN s.map : Told(P, RecordOf(s, k))
    BY <1>1 DEF MapTold, RecordOf
  <2> QED
    BY <1>2, <2>1 DEF FileTold
<1>5. LogLatest(P, u, g)
  <2>1. ASSUME NEW q \in 1 .. Len(g), RecordIn(g, q).key \notin u
        PROVE ~Replaced(P, RecordIn(g, q).key, RecordIn(g, q).code)
    <3> DEFINE k == s.order[q]
    <3>1. k \in DOMAIN s.map /\ RecordIn(g, q) = RecordOf(s, k)
      BY <1>2
    <3> HIDE DEF k
    <3>2. RecordIn(g, q).key = k /\ RecordIn(g, q).code = s.map[k].code
      BY <1>3, <3>1
    <3> QED
      BY <1>1, <2>1, <3>1, <3>2 DEF MapLatest
  <2> QED
    BY <2>1 DEF LogLatest
<1>6. ASSUME NEW i \in 1 .. Len(P), KeptOf(P, t, x, i) PROVE StoredIn(P, g, i)
  <2> DEFINE k == P[i].key
  <2>1. HeldIn(P, s, i)
    BY <1>1, <1>6 DEF Mapped
  <2>2. /\ k \in DOMAIN s.map /\ s.map[k] = [code |-> i, at |-> P[i].at]
        /\ \E p \in 1 .. Len(s.order) :
             s.order[p] = k /\ \A q \in p + 1 .. Len(s.order) : s.order[q] \in AfterOf(P, i)
    BY <2>1 DEF HeldIn
  <2>3. PICK p \in 1 .. Len(g) : s.order[p] = k /\ \A q \in p + 1 .. Len(g) : s.order[q] \in AfterOf(P, i)
    BY <1>2, <2>2
  <2>4. RecordOf(s, k) = Record(k, i, P[i].at)
    BY <2>2 DEF RecordOf
  <2> HIDE DEF k
  <2>5. g[p].recs = <<Record(k, i, P[i].at)>>
    BY <1>2, <2>3, <2>4
  <2>6. ASSUME NEW q \in 1 .. Len(g)
        PROVE (RecordIn(g, q).key = k => q = p) /\ (q > p => RecordIn(g, q).key \in AfterOf(P, i))
    <3>1. RecordIn(g, q).key = s.order[q]
      BY <1>2, <1>3
    <3>2. \A a, b \in 1 .. Len(s.order) : s.order[a] = s.order[b] => a = b
      BY <1>1 DEF Shaped
    <3>3. q > p => q \in p + 1 .. Len(g)
      BY <1>2
    <3> QED
      BY <1>2, <2>3, <3>1, <3>2, <3>3
  <2> QED
    BY <1>2, <2>5, <2>6 DEF StoredIn, k
<1> QED
  BY <1>2, <1>4, <1>5, <1>6 DEF Logs, Logged

-----------------------------------------------------------------------------
(* A restart: the lines that can be read are read one after another.       *)

Loading(seen, m, f) == f = [n \in 0 .. m |-> IF n = 0 THEN Empty ELSE Read(f[n - 1], seen[n])]

LEMMA LoadingExists ==
  ASSUME NEW seen, NEW m \in Nat
  PROVE \E f : Loading(seen, m, f)
<1> DEFINE S == {k \in Nat : \E f : Loading(seen, k, f)}
<1>1. 0 \in S
  <2> DEFINE f == [n \in 0 .. 0 |-> Empty]
             d == [n \in 0 .. 0 |-> IF n = 0 THEN Empty ELSE Read(f[n - 1], seen[n])]
  <2>1. \A n \in 0 .. 0 : n = 0
    OBVIOUS
  <2>2. \A n \in 0 .. 0 : f[n] = Empty /\ d[n] = Empty
    BY <2>1
  <2>3. f = [n \in 0 .. 0 |-> f[n]] /\ d = [n \in 0 .. 0 |-> d[n]]
    OBVIOUS
  <2>4. f = d
    <3> HIDE DEF f, d
    <3> QED
      BY <2>2, <2>3
  <2>5. Loading(seen, 0, f)
    <3> HIDE DEF f
    <3> QED
      BY <2>4 DEF Loading
  <2> HIDE DEF f
  <2> QED
    BY <2>5
<1>2. ASSUME NEW k \in S PROVE k + 1 \in S
  <2>1. PICK f : Loading(seen, k, f)
    OBVIOUS
  <2>2. k \in Nat
    OBVIOUS
  <2> DEFINE e == [n \in 0 .. k + 1 |-> IF n = k + 1 THEN Read(f[k], seen[n]) ELSE f[n]]
             d == [n \in 0 .. k + 1 |-> IF n = 0 THEN Empty ELSE Read(e[n - 1], seen[n])]
  <2>3. ASSUME NEW n \in 0 .. k PROVE e[n] = f[n] /\ f[n] = IF n = 0 THEN Empty ELSE Read(f[n - 1], seen[n])
    <3>1. e[n] = f[n]
      BY <2>2
    <3>2. f[n] = IF n = 0 THEN Empty ELSE Read(f[n - 1], seen[n])
      BY <2>1 DEF Loading
    <3> QED
      BY <3>1, <3>2
  <2>4. ASSUME NEW n \in 0 .. k + 1 PROVE e[n] = d[n]
    <3>1. d[n] = IF n = 0 THEN Empty ELSE Read(e[n - 1], seen[n])
      <4> HIDE DEF e
      <4> QED
        OBVIOUS
    <3>2. CASE n = k + 1
      <4>1. e[n] = Read(f[k], seen[n])
        BY <3>2
      <4>2. n # 0 /\ n - 1 = k /\ k \in 0 .. k
        BY <2>2, <3>2
      <4> HIDE DEF e, d
      <4> QED
        BY <2>3, <3>1, <4>1, <4>2
    <3>3. CASE n # k + 1
      <4>1. n \in 0 .. k /\ (n # 0 => n - 1 \in 0 .. k)
        BY <2>2, <3>3
      <4> HIDE DEF e, d
      <4> QED
        BY <2>3, <3>1, <4>1
    <3> QED
      BY <3>2, <3>3
  <2>5. e = [n \in 0 .. k + 1 |-> e[n]] /\ d = [n \in 0 .. k + 1 |-> d[n]]
    OBVIOUS
  <2>6. e = d
    <3> HIDE DEF e, d
    <3> QED
      BY <2>4, <2>5
  <2>7. Loading(seen, k + 1, e)
    <3> HIDE DEF e
    <3> QED
      BY <2>6 DEF Loading
  <2> HIDE DEF e
  <2> QED
    BY <2>2, <2>7
<1> HIDE DEF S
<1>3. S = Nat
  BY <1>1, <1>2, Induction DEF S
<1> QED
  BY <1>3 DEF S

\* The store after n lines.
Loads(f, c) ==
  /\ c[0] = Empty /\ Loaded(f) = Bounded(c[Len(Readable(f))])
  /\ \A n \in 0 .. Len(Readable(f)) - 1 : c[n + 1] = Read(c[n], Readable(f)[n + 1])

LEMMA LoadFacts ==
  ASSUME NEW f \in Seq(LineType)
  PROVE \E c : Loads(f, c)
<1> DEFINE seen == Readable(f)
           m == Len(seen)
           c == CHOOSE load : load = [n \in 0 .. m |-> IF n = 0 THEN Empty ELSE Read(load[n - 1], seen[n])]
<1>1. m \in Nat
  BY ReadableFacts
<1>2. Loaded(f) = Bounded(c[m])
  BY DEF Loaded
<1>3. Loading(seen, m, c)
  <2> HIDE DEF seen, m
  <2>1. \E load : load = [n \in 0 .. m |-> IF n = 0 THEN Empty ELSE Read(load[n - 1], seen[n])]
    BY <1>1, LoadingExists DEF Loading
  <2> QED
    BY <2>1 DEF Loading
<1> HIDE DEF c
<1>4. \A n \in 0 .. m : c[n] = IF n = 0 THEN Empty ELSE Read(c[n - 1], seen[n])
  <2> HIDE DEF seen, m
  <2> QED
    BY <1>3 DEF Loading
<1> HIDE DEF seen, m
<1>5. c[0] = Empty
  BY <1>1, <1>4
<1>6. ASSUME NEW n \in 0 .. m - 1 PROVE c[n + 1] = Read(c[n], seen[n + 1])
  <2> DEFINE k == n + 1
  <2>1. k \in 0 .. m /\ k # 0 /\ k - 1 = n
    BY <1>1
  <2> HIDE DEF k
  <2>2. c[k] = Read(c[n], seen[k])
    BY <1>4, <2>1
  <2> QED
    BY <2>2 DEF k
<1> QED
  BY <1>2, <1>5, <1>6 DEF Loads, m, seen

\* Key k of a store read from n lines has the record of line q, the last of
\* them that has not expired.
FromLine(f, n, s, k, q) ==
  /\ Holds(f, q) /\ RecordIn(f, q) = Record(k, s.map[k].code, s.map[k].at) /\ ~Expired(s.map[k].at)
  /\ \A p \in q + 1 .. n : Holds(f, p) /\ RecordIn(f, p).key = k => Expired(RecordIn(f, p).at)

From(f, n, s) == Shaped(s) /\ \A k \in DOMAIN s.map : \E q \in 1 .. n : FromLine(f, n, s, k, q)

\* A line without a record, or with one that has expired, is passed over.
ReadsPast(f, q) == Holds(f, q) => Expired(RecordIn(f, q).at)

LEMMA ReadCases ==
  ASSUME NEW f, NEW q, NEW s, NEW w, w = Read(s, f[q])
  PROVE /\ ReadsPast(f, q) => w = s
        /\ ~ReadsPast(f, q) => Holds(f, q) /\ ~Expired(RecordIn(f, q).at) /\ w = Insert(s, RecordIn(f, q))
BY DEF Read, ReadsPast, Holds, RecordIn

LEMMA ReadFrom ==
  ASSUME NEW f \in Seq(LineType), NEW n \in Nat, n + 1 \in 1 .. Len(f), NEW s, From(f, n, s),
         NEW w, w = Read(s, f[n + 1])
  PROVE From(f, n + 1, w)
<1> DEFINE m == n + 1
           r == RecordIn(f, m)
<1>1. m \in 1 .. Len(f) /\ w = Read(s, f[m]) /\ m = n + 1 /\ m \in Nat
  OBVIOUS
<1> HIDE DEF m
<1>2. Shaped(s) /\ \A k \in DOMAIN s.map : \E q \in 1 .. n : FromLine(f, n, s, k, q)
  BY DEF From
<1>3. ASSUME NEW k \in DOMAIN s.map, k \in DOMAIN w.map, w.map[k] = s.map[k],
             Holds(f, m) /\ r.key = k => Expired(r.at)
      PROVE \E q \in 1 .. m : FromLine(f, m, w, k, q)
  <2>1. PICK q \in 1 .. n : FromLine(f, n, s, k, q)
    BY <1>2
  <2>2. q \in 1 .. m /\ \A p \in q + 1 .. m : p \in q + 1 .. n \/ p = m
    BY <1>1
  <2>3. FromLine(f, m, w, k, q)
    BY <1>3, <2>1, <2>2 DEF FromLine
  <2> QED
    BY <2>2, <2>3
<1>4. CASE ReadsPast(f, m)
  <2>1. w = s
    BY <1>1, <1>4, ReadCases
  <2>2. \A k \in DOMAIN w.map : \E q \in 1 .. m : FromLine(f, m, w, k, q)
    BY <1>3, <1>4, <2>1 DEF ReadsPast
  <2> QED
    BY <1>1, <1>2, <2>1, <2>2 DEF From
<1>5. CASE ~ReadsPast(f, m)
  <2>1. Holds(f, m) /\ ~Expired(r.at) /\ w = Insert(s, r)
    BY <1>1, <1>5, ReadCases
  <2>2. r \in RecordType
    BY <1>1, <2>1, LineFacts
  <2> HIDE DEF r
  <2>3. Shaped(w) /\ WithRecord(s, r, w)
    BY <1>2, <2>1, <2>2, InsertFacts
  <2>4. /\ DOMAIN w.map = DOMAIN s.map \cup {r.key} /\ w.map[r.key] = [code |-> r.code, at |-> r.at]
        /\ \A k \in DOMAIN s.map : k # r.key => w.map[k] = s.map[k]
    BY <2>3 DEF WithRecord
  <2>5. ASSUME NEW k \in DOMAIN w.map PROVE \E q \in 1 .. m : FromLine(f, m, w, k, q)
    <3>1. CASE k # r.key
      BY <1>3, <2>4, <3>1
    <3>2. CASE k = r.key
      <4>1. w.map[k].code = r.code /\ w.map[k].at = r.at
        BY <2>4, <3>2
      <4>2. Record(k, w.map[k].code, w.map[k].at) = r
        BY <2>2, <3>2, <4>1 DEF Record, RecordType
      <4>3. m \in 1 .. m /\ \A p \in m + 1 .. m : FALSE
        BY <1>1
      <4>4. FromLine(f, m, w, k, m)
        BY <2>1, <4>1, <4>2, <4>3 DEF FromLine, r
      <4> QED
        BY <4>3, <4>4
    <3> QED
      BY <3>1, <3>2
  <2> QED
    BY <1>1, <2>3, <2>5 DEF From
<1> QED
  BY <1>1, <1>4, <1>5 DEF m

\* Line p is the record of call i, and behind it stands what came after it.
StoredAt(P, f, i, p) ==
  /\ Readably(f, p) /\ f[p].nl /\ f[p].recs = <<Record(P[i].key, i, P[i].at)>>
  /\ \A q \in 1 .. Len(f) : Holds(f, q) =>
       (RecordIn(f, q).key = P[i].key => q = p) /\ (q > p => RecordIn(f, q).key \in AfterOf(P, i))

LEMMA ReadHeld ==
  ASSUME NEW P, NEW i, ~Expired(P[i].at), P[i].key \notin AfterOf(P, i),
         NEW f \in Seq(LineType), NEW p \in 1 .. Len(f), StoredAt(P, f, i, p),
         NEW n \in Nat, n + 1 \in 1 .. Len(f), NEW s, From(f, n, s), n >= p => HeldIn(P, s, i),
         NEW w, w = Read(s, f[n + 1]), n + 1 >= p
  PROVE HeldIn(P, w, i)
<1> DEFINE m == n + 1
           r == RecordIn(f, m)
           k == P[i].key
<1>1. m \in 1 .. Len(f) /\ w = Read(s, f[m]) /\ m = n + 1 /\ m >= p /\ Len(f) \in Nat
  OBVIOUS
<1> HIDE DEF m
<1>2. Shaped(s) /\ \A x \in DOMAIN s.map : \E q \in 1 .. n : FromLine(f, n, s, x, q)
  BY DEF From
<1>3. /\ f[p].recs = <<Record(k, i, P[i].at)>>
      /\ \A q \in 1 .. Len(f) : Holds(f, q) =>
           (RecordIn(f, q).key = k => q = p) /\ (q > p => RecordIn(f, q).key \in AfterOf(P, i))
  BY DEF StoredAt
<1>4. Holds(f, m) => r \in RecordType
  BY <1>1, LineFacts
<1>5. CASE m = p
  <2> DEFINE e == Record(k, i, P[i].at)
  <2>1. Head(<<e>>) = e /\ <<e>> # <<>> /\ e.at = P[i].at /\ e.key = k
    BY DEF Record
  <2>2. Holds(f, m) /\ r = e
    <3> HIDE DEF e
    <3> QED
      BY <1>3, <1>5, <2>1 DEF Holds, RecordIn, e
  <2>3. ~ReadsPast(f, m)
    BY <2>1, <2>2 DEF ReadsPast
  <2>4. w = Insert(s, r)
    BY <1>1, <2>3, ReadCases
  <2>5. k \notin DOMAIN s.map
    <3>1. SUFFICES ASSUME k \in DOMAIN s.map PROVE FALSE
      OBVIOUS
    <3>2. PICK q \in 1 .. n : FromLine(f, n, s, k, q)
      BY <1>2, <3>1
    <3>3. Holds(f, q) /\ RecordIn(f, q).key = k
      BY <3>2 DEF FromLine, Record
    <3>4. q \in 1 .. Len(f) /\ q # p
      BY <1>1, <1>5
    <3> QED
      BY <1>3, <3>3, <3>4
  <2> HIDE DEF r
  <2>6. r \in RecordType /\ r = Record(P[i].key, i, P[i].at) /\ r.key \notin DOMAIN s.map
    BY <1>4, <2>1, <2>2, <2>5
  <2> QED
    BY <1>2, <2>4, <2>6, InsertedHolds
<1>6. CASE m # p
  <2>1. m > p /\ HeldIn(P, s, i)
    BY <1>1, <1>6
  <2>2. CASE ReadsPast(f, m)
    <3>1. w = s
      BY <1>1, <2>2, ReadCases
    <3> QED
      BY <2>1, <3>1
  <2>3. CASE ~ReadsPast(f, m)
    <3>1. Holds(f, m) /\ w = Insert(s, r)
      BY <1>1, <2>3, ReadCases
    <3>2. r \in RecordType /\ r.key \in AfterOf(P, i)
      BY <1>1, <1>3, <1>4, <2>1, <3>1
    <3> HIDE DEF r
    <3>3. r.key # P[i].key
      BY <3>2
    <3> QED
      BY <1>2, <2>1, <3>1, <3>2, <3>3, InsertHolds
  <2> QED
    BY <2>2, <2>3
<1> QED
  BY <1>5, <1>6

\* The calls that were made.
CallsMade(P, t) ==
  /\ P \in Seq(PutType) /\ Len(P) <= MaxPuts
  /\ \A i \in 1 .. Len(P) : P[i].at <= t
  /\ \A i, j \in 1 .. Len(P) : i < j => P[i].at <= P[j].at

LEMMA LoadedStores ==
  ASSUME now \in Nat, NEW P, CallsMade(P, now), NEW u, NEW x, NEW f, Logs(P, now, u, x, f), NEW b, b = Loaded(f)
  PROVE Stores(P, now, u, x, b) /\ Len(b.order) <= Cap
<1> DEFINE seen == Readable(f)
           m == Len(seen)
<1>1. /\ f \in Seq(LineType) /\ FileTold(P, f) /\ Logged(P, now, x, f) /\ LogLatest(P, u, f)
      /\ P \in Seq(PutType) /\ \A i, j \in 1 .. Len(P) : i < j => P[i].at <= P[j].at
  BY DEF Logs, CallsMade
<1>2. /\ m \in 0 .. Len(f) /\ Len(f) \in Nat
      /\ \A q \in 1 .. m : seen[q] = f[q]
      /\ \A q \in 1 .. Len(f) : q <= m <=> Readably(f, q)
  BY <1>1, ReadableFacts
<1>3. PICK c : Loads(f, c)
  BY <1>1, LoadFacts
<1>4. c[0] = Empty /\ b = Bounded(c[m]) /\ \A n \in 0 .. m - 1 : c[n + 1] = Read(c[n], seen[n + 1])
  BY <1>3 DEF Loads
<1> HIDE DEF seen, m
<1>5. ASSUME NEW n \in Nat, n + 1 <= m PROVE n + 1 \in 1 .. Len(f) /\ c[n + 1] = Read(c[n], f[n + 1])
  <2> DEFINE k == n + 1
  <2>1. k \in 1 .. m /\ k \in 1 .. Len(f) /\ n \in 0 .. m - 1
    BY <1>2, <1>5
  <2>2. c[k] = Read(c[n], seen[k])
    BY <1>4, <2>1
  <2> HIDE DEF k
  <2>3. seen[k] = f[k]
    BY <1>2, <2>1
  <2> QED
    BY <2>1, <2>2, <2>3 DEF k
<1>6. \A n \in Nat : n <= m => From(f, n, c[n])
  <2> DEFINE T == {n \in Nat : n <= m => From(f, n, c[n])}
  <2>1. 0 \in T
    <3>1. Empty.map = [k \in {} |-> 0] /\ Empty.order = <<>>
      BY DEF Empty
    <3>2. DOMAIN Empty.map = {} /\ Empty.map = [k \in DOMAIN Empty.map |-> Empty.map[k]]
      BY <3>1
    <3>3. Empty.order \in Seq(Keys) /\ Len(Empty.order) = 0
      BY <3>1
    <3>4. Shaped(Empty)
      BY <3>2, <3>3 DEF Shaped
    <3>5. From(f, 0, c[0])
      BY <1>4, <3>2, <3>4 DEF From
    <3> QED
      BY <3>5
  <2>2. ASSUME NEW n \in T PROVE n + 1 \in T
    <3>1. n \in Nat /\ (n <= m => From(f, n, c[n]))
      OBVIOUS
    <3> DEFINE k == n + 1
    <3>2. ASSUME k <= m PROVE From(f, k, c[k])
      <4>1. n <= m /\ n + 1 <= m
        BY <1>2, <3>1, <3>2
      <4>2. k \in 1 .. Len(f) /\ c[k] = Read(c[n], f[k])
        BY <1>5, <3>1, <4>1
      <4>3. From(f, n, c[n])
        BY <3>1, <4>1
      <4> QED
        BY <1>1, <3>1, <4>2, <4>3, ReadFrom
    <3>3. k \in Nat
      BY <3>1
    <3> HIDE DEF k
    <3> QED
      BY <3>2, <3>3 DEF k
  <2> HIDE DEF T
  <2>3. T = Nat
    BY <2>1, <2>2, Induction DEF T
  <2> QED
    BY <2>3 DEF T
<1> DEFINE s == c[m]
<1>7. From(f, m, s)
  BY <1>2, <1>6
<1> HIDE DEF s
<1>8. Shaped(s) /\ \A k \in DOMAIN s.map : \E q \in 1 .. m : FromLine(f, m, s, k, q)
  BY <1>7 DEF From
<1>9. ASSUME NEW k \in DOMAIN s.map
      PROVE Told(P, Record(k, s.map[k].code, s.map[k].at)) /\ (k \notin u => ~Replaced(P, k, s.map[k].code))
  <2> DEFINE r == Record(k, s.map[k].code, s.map[k].at)
  <2>1. PICK q \in 1 .. m : FromLine(f, m, s, k, q)
    BY <1>8
  <2>2. q \in 1 .. Len(f) /\ Readably(f, q)
    BY <1>2
  <2>3. /\ Holds(f, q) /\ RecordIn(f, q) = r /\ ~Expired(r.at)
        /\ \A p \in q + 1 .. m : Holds(f, p) /\ RecordIn(f, p).key = k => Expired(RecordIn(f, p).at)
    BY <2>1 DEF FromLine, Record
  <2>4. r.key = k /\ r.code = s.map[k].code
    BY DEF Record
  <2> HIDE DEF r
  <2>5. Told(P, r)
    BY <1>1, <2>2, <2>3 DEF FileTold
  <2>6. ASSUME k \notin u, Replaced(P, k, r.code) PROVE FALSE
    <3>1. Superseded(f, q)
      BY <1>1, <2>2, <2>3, <2>4, <2>6 DEF LogLatest
    <3>2. PICK p \in q + 1 .. Len(f) :
               Readably(f, p) /\ Holds(f, p) /\ RecordIn(f, p).key = k /\ RecordIn(f, p).code > r.code
      BY <2>3, <2>4, <3>1 DEF Superseded
    <3>3. p \in 1 .. Len(f) /\ p \in q + 1 .. m
      BY <1>2, <2>2, <3>2
    <3> DEFINE v == RecordIn(f, p)
    <3>4. Expired(v.at) /\ Told(P, v)
      BY <1>1, <2>3, <3>2, <3>3 DEF FileTold
    <3>5. v.code > r.code
      BY <3>2
    <3> HIDE DEF v
    <3>6. /\ v.code \in 1 .. Len(P) /\ r.code \in 1 .. Len(P)
          /\ P[v.code].at = v.at /\ P[r.code].at = r.at
      BY <2>5, <3>4 DEF Told
    <3>7. P[r.code] \in PutType /\ P[v.code] \in PutType
      BY <1>1, <3>6, ElementOfSeq
    <3>8. r.at <= v.at /\ r.at \in Nat /\ v.at \in Nat
      <4>1. P[r.code].at <= P[v.code].at
        BY <1>1, <3>5, <3>6
      <4> QED
        BY <3>6, <3>7, <4>1 DEF PutType
    <3>9. Window \in Nat
      BY IdemStoreAssumption
    <3> QED
      BY <2>3, <3>4, <3>8, <3>9 DEF Expired
  <2> QED
    BY <2>4, <2>5, <2>6 DEF r
<1>10. ASSUME NEW i \in 1 .. Len(P), KeptOf(P, now, x, i) PROVE HeldIn(P, s, i)
  <2>1. LatestOf(P, i) /\ ~Expired(P[i].at)
    BY <1>10 DEF KeptOf, Expired
  <2>2. P[i].key \notin AfterOf(P, i)
    BY <2>1 DEF LatestOf, AfterOf
  <2>3. PICK p \in 1 .. Len(f) : StoredAt(P, f, i, p)
    BY <1>1, <1>10 DEF Logged, StoredIn, StoredAt
  <2>4. p <= m /\ p \in Nat
    BY <1>2, <2>3 DEF StoredAt
  <2> DEFINE T == {n \in Nat : n <= m /\ n >= p => HeldIn(P, c[n], i)}
  <2>5. 0 \in T
    BY <2>4
  <2>6. ASSUME NEW n \in T PROVE n + 1 \in T
    <3>1. n \in Nat /\ (n <= m /\ n >= p => HeldIn(P, c[n], i))
      OBVIOUS
    <3> DEFINE k == n + 1
    <3>2. ASSUME k <= m, k >= p PROVE HeldIn(P, c[k], i)
      <4>1. k \in 1 .. Len(f) /\ c[k] = Read(c[n], f[k]) /\ From(f, n, c[n]) /\ (n >= p => HeldIn(P, c[n], i))
        BY <1>2, <1>5, <1>6, <3>1, <3>2
      <4> QED
        BY <1>1, <2>1, <2>2, <2>3, <3>1, <3>2, <4>1, ReadHeld
    <3>3. k \in Nat
      BY <3>1
    <3> HIDE DEF k
    <3> QED
      BY <3>2, <3>3 DEF k
  <2> HIDE DEF T
  <2>7. T = Nat
    BY <2>5, <2>6, Induction DEF T
  <2> QED
    BY <1>2, <2>4, <2>7 DEF T, s
<1>11. Stores(P, now, u, x, s)
  BY <1>8, <1>9, <1>10 DEF Stores, MapTold, MapLatest, Mapped
<1> QED
  BY <1>1, <1>4, <1>11, BoundedStores DEF s

-----------------------------------------------------------------------------
(* The invariant: what the log and the store say of the calls so far.      *)

Store == [map |-> map, order |-> order]
Unsure == unsafe \cup again

StoreTyped ==
  /\ now \in 0 .. MaxTime /\ running \in BOOLEAN /\ lines \in Nat
  /\ unsafe \subseteq Keys /\ again \subseteq Keys /\ faults \in 0 .. MaxFaults
  /\ CallsMade(puts, now)

StoreInv ==
  /\ StoreTyped
  /\ Shaped(Store) /\ Len(order) <= Cap
  /\ Logs(puts, now, unsafe, Unsure, file)
  /\ running => Stores(puts, now, unsafe, Unsure, Store)

Call(k, ok) == [key |-> k, at |-> now, ok |-> ok]

LEMMA CallsMadeAppend ==
  ASSUME NEW P, NEW t \in Nat, CallsMade(P, t), NEW e \in PutType, e.at = t, Len(P) < MaxPuts
  PROVE CallsMade(Append(P, e), t)
<1> DEFINE P2 == Append(P, e)
           n == Len(P)
<1>1. /\ P \in Seq(PutType) /\ \A i \in 1 .. n : P[i].at <= t
      /\ \A i, j \in 1 .. n : i < j => P[i].at <= P[j].at
  BY DEF CallsMade
<1>2. P2 \in Seq(PutType) /\ Len(P2) = n + 1 /\ n \in Nat /\ P2[n + 1] = e /\ \A j \in 1 .. n : P2[j] = P[j]
  BY <1>1, CallFacts
<1> HIDE DEF P2
<1>3. Len(P2) <= MaxPuts
  <2>1. MaxPuts \in Nat
    BY IdemStoreAssumption
  <2>2. n < MaxPuts
    OBVIOUS
  <2> HIDE DEF n
  <2> QED
    BY <1>2, <2>1, <2>2
<1> HIDE DEF n
<1>4. 1 .. Len(P2) = (1 .. n) \cup {n + 1}
  BY <1>2
<1>5. \A i \in 1 .. Len(P2) : P2[i].at <= t
  BY <1>1, <1>2, <1>4
<1>6. ASSUME NEW i \in 1 .. Len(P2), NEW j \in 1 .. Len(P2), i < j PROVE P2[i].at <= P2[j].at
  <2>1. i \in 1 .. n
    BY <1>2, <1>6
  <2>2. CASE j \in 1 .. n
    BY <1>1, <1>2, <1>6, <2>1, <2>2
  <2>3. CASE j = n + 1
    BY <1>1, <1>2, <2>1, <2>3
  <2> QED
    BY <1>4, <2>2, <2>3
<1> QED
  BY <1>2, <1>3, <1>5, <1>6 DEF CallsMade, P2

\* A call of put(), and its record.
LEMMA CallMade ==
  ASSUME StoreInv, NEW k \in Keys, NEW ok \in BOOLEAN, Len(puts) < MaxPuts
  PROVE /\ Call(k, ok) \in PutType /\ Call(k, ok).key = k /\ Call(k, ok).at = now /\ Call(k, ok).ok = ok
        /\ CallsMade(Append(puts, Call(k, ok)), now)
        /\ Record(k, This, now) \in RecordType
        /\ ItsRecord(puts, Call(k, ok), Record(k, This, now))
        /\ puts \in Seq(PutType) /\ now \in Nat /\ file \in Seq(LineType)
<1> DEFINE e == Call(k, ok)
<1>1. now \in Nat /\ CallsMade(puts, now) /\ puts \in Seq(PutType) /\ file \in Seq(LineType)
  BY IdemStoreAssumption, SMTT(30) DEF StoreInv, StoreTyped, CallsMade, Logs
<1>2. e \in PutType /\ e.key = k /\ e.at = now /\ e.ok = ok
  BY <1>1 DEF Call, PutType
<1> HIDE DEF e
<1>3. CallsMade(Append(puts, e), now)
  BY <1>1, <1>2, CallsMadeAppend
<1>4. This = Len(puts) + 1 /\ This \in 1 .. MaxPuts
  BY <1>1, IdemStoreAssumption DEF This
<1>5. Record(k, This, now) \in RecordType
  BY <1>1, <1>4 DEF Record, RecordType
<1> QED
  BY <1>1, <1>2, <1>3, <1>4, <1>5 DEF e, ItsRecord

\* A whole line behind lines that can be read: a restart reads it.
LEMMA AppendedSafely ==
  ASSUME file \in Seq(LineType), NEW k, Record(k, This, now) \in RecordType,
         ~Ragged, Readable(file) = file, NEW g, g = Put(Whole(k))
  PROVE Safely(file, g, Record(k, This, now))
<1> DEFINE r == Record(k, This, now)
           n == Len(file)
<1>1. Whole(k).recs = <<r>> /\ Whole(k).text = TRUE /\ Whole(k).nl = TRUE
  BY DEF Whole, Line
<1>2. Whole(k) \in LineType
  <2> DEFINE rr == <<r>>
             R == {<<>>} \cup {<<x>> : x \in RecordType}
  <2>1. rr \in R
    OBVIOUS
  <2>2. Whole(k) = Line(rr, TRUE, TRUE) /\ LineType = [recs : R, text : BOOLEAN, nl : BOOLEAN]
    BY DEF Whole, LineType
  <2> HIDE DEF rr, R
  <2> QED
    BY <2>1, <2>2 DEF Line
<1> HIDE DEF r
<1>3. Len(g) = n + 1 /\ g[n + 1] = Whole(k) /\ \A q \in 1 .. n : g[q] = file[q]
  BY <1>2, PutExtends
<1>4. n \in Nat
  OBVIOUS
<1>5. \A q \in 1 .. n : Readably(file, q)
  BY ReadableFacts
<1>6. \A q \in 1 .. n : file[q].text
  <2>1. ASSUME NEW q \in 1 .. n PROVE file[q].text
    <3>1. q \in 1 .. q
      BY <1>4
    <3> QED
      BY <1>5, <3>1 DEF Readably
  <2> QED
    BY <2>1
<1> HIDE DEF n
<1>7. Readably(g, n + 1)
  <2>1. 1 .. n + 1 = (1 .. n) \cup {n + 1}
    BY <1>4
  <2> QED
    BY <1>1, <1>3, <1>6, <2>1 DEF Readably
<1>8. n + 1 \in 1 .. Len(g)
  BY <1>3, <1>4
<1> QED
  BY <1>1, <1>3, <1>7, <1>8 DEF Safely, n, r

\* It is the record of its call, if there was none of its key.
LEMMA SafelyStored ==
  ASSUME NEW P, NEW i, NEW r, r = Record(P[i].key, i, P[i].at),
         NEW f \in Seq(LineType), NEW g, Extends(f, g, <<r>>), Safely(f, g, r),
         \A q \in 1 .. Len(f) : Holds(f, q) => RecordIn(f, q).key # r.key
  PROVE StoredIn(P, g, i)
<1> DEFINE p == Len(f) + 1
<1>1. p \in 1 .. Len(g) /\ Readably(g, p) /\ g[p].nl /\ g[p].recs = <<r>> /\ Len(f) \in Nat
  BY DEF Safely
<1>2. r.key = P[i].key
  BY DEF Record
<1>3. ASSUME NEW q \in 1 .. Len(g), Holds(g, q)
      PROVE (RecordIn(g, q).key = P[i].key => q = p) /\ (q > p => RecordIn(g, q).key \in AfterOf(P, i))
  <2>1. CASE q \in 1 .. Len(f) /\ Holds(f, q) /\ RecordIn(g, q) = RecordIn(f, q)
    BY <1>1, <1>2, <2>1
  <2>2. CASE q = p
    BY <1>1, <2>2
  <2> QED
    BY <1>3, <2>1, <2>2, ExtendsHolds
<1> HIDE DEF p
<1> QED
  BY <1>1, <1>3 DEF StoredIn

-----------------------------------------------------------------------------
(* Every step keeps the invariant. *)

LEMMA StoreInitially == StoreInit => StoreInv
<1> SUFFICES ASSUME StoreInit PROVE StoreInv
  OBVIOUS
<1>1. /\ now = 0 /\ file = <<>> /\ running = TRUE /\ map = Empty.map /\ order = <<>> /\ lines = 0
      /\ puts = <<>> /\ unsafe = {} /\ again = {} /\ faults = 0
  BY DEF StoreInit
<1>2. Empty.map = [k \in {} |-> 0] /\ Len(<<>>) = 0 /\ \A q \in 1 .. 0 : FALSE
  BY DEF Empty
<1>3. Store.map = Empty.map /\ Store.order = <<>>
  BY <1>1 DEF Store
<1>4. DOMAIN Empty.map = {} /\ Empty.map = [k \in DOMAIN Empty.map |-> Empty.map[k]]
  BY <1>2
<1>5. Shaped(Store)
  BY <1>2, <1>3, <1>4 DEF Shaped
<1>6. StoreTyped
  <2>1. puts \in Seq(PutType) /\ Len(puts) = 0
    BY <1>1
  <2>2. CallsMade(puts, now)
    BY <1>2, <2>1, IdemStoreAssumption DEF CallsMade
  <2> QED
    BY <1>1, <2>2, IdemStoreAssumption DEF StoreTyped
<1>7. Logs(puts, now, unsafe, Unsure, file)
  <2>1. file \in Seq(LineType) /\ Len(file) = 0 /\ Len(puts) = 0
    BY <1>1
  <2> QED
    BY <1>2, <2>1 DEF Logs, FileTold, Logged, LogLatest
<1>8. Stores(puts, now, unsafe, Unsure, Store)
  <2>1. Len(puts) = 0 /\ DOMAIN Store.map = {}
    BY <1>1, <1>3, <1>4
  <2> QED
    BY <1>2, <1>5, <2>1 DEF Stores, MapTold, Mapped, MapLatest
<1>9. Len(order) <= Cap
  BY <1>1, IdemStoreAssumption
<1> QED
  BY <1>5, <1>6, <1>7, <1>8, <1>9 DEF StoreInv

\* A call of put() changes what is told of its own key only.
LEMMA CalledFacts ==
  ASSUME StoreInv, NEW k \in Keys, NEW ok \in BOOLEAN, Called(k, ok)
  PROVE /\ Len(puts) < MaxPuts /\ puts' = Append(puts, Call(k, ok)) /\ running = TRUE /\ running' = TRUE /\ now' = now
        /\ again \subseteq again' /\ again' \subseteq Keys /\ faults' \in 0 .. MaxFaults
        /\ k \in DOMAIN map => k \in again'
        /\ \A q \in 1 .. Len(file) : Holds(file, q) /\ RecordIn(file, q).key = k => k \in again'
<1>1. running /\ Len(puts) < MaxPuts /\ puts' = Append(puts, Call(k, ok)) /\ now' = now /\ running' = running
  BY DEF Called, Call
<1>2. again \subseteq Keys /\ running \in BOOLEAN /\ faults \in 0 .. MaxFaults /\ file \in Seq(LineType)
  BY DEF StoreInv, StoreTyped, Logs
<1>3. again' = IF k \in DOMAIN map \/ \E r \in Records(file) : r.key = k THEN again \cup {k} ELSE again
  BY DEF Called
<1>4. faults' \in 0 .. MaxFaults
  <2>1. faults' = faults \/ (faults < MaxFaults /\ faults' = faults + 1)
    BY DEF Called, Fault
  <2> QED
    <3>1. MaxFaults \in Nat
      BY IdemStoreAssumption
    <3> QED
      BY <1>2, <2>1, <3>1
<1>5. ASSUME NEW q \in 1 .. Len(file), Holds(file, q), RecordIn(file, q).key = k PROVE k \in again'
  <2> DEFINE r == RecordIn(file, q)
  <2>1. file[q].recs = <<r>>
    BY <1>2, <1>5, LineFacts
  <2> HIDE DEF r
  <2>2. r \in ToSet(file[q].recs)
    <3>1. ToSet(<<r>>) = {<<r>>[m] : m \in DOMAIN <<r>>} /\ 1 \in DOMAIN <<r>> /\ <<r>>[1] = r
      BY DEF ToSet
    <3> QED
      BY <2>1, <3>1
  <2>3. r \in Records(file)
    BY <2>2 DEF Records
  <2>4. r.key = k
    BY <1>5 DEF r
  <2> QED
    BY <1>3, <2>3, <2>4
<1> QED
  BY <1>1, <1>2, <1>3, <1>4, <1>5

\* What is stored after a call, and what the log says after its append.
LEMMA CallStored ==
  ASSUME StoreInv, running, NEW k \in Keys, NEW ok \in BOOLEAN, Len(puts) < MaxPuts,
         NEW P2, P2 = Append(puts, Call(k, ok)), NEW u2, NEW y,
         unsafe \subseteq u2 \cup {k}, Unsure \subseteq y \cup {k}, k \in DOMAIN map => k \in y
  PROVE Stores(P2, now, u2, y, With(k)) /\ Len(With(k).order) <= Cap
<1> DEFINE e == Call(k, ok)
           r == Record(k, This, now)
<1>1. e \in PutType /\ e.key = k /\ r \in RecordType /\ ItsRecord(puts, e, r) /\ puts \in Seq(PutType)
  BY CallMade
<1>2. Stores(puts, now, unsafe, Unsure, Store) /\ Store.map = map
  BY DEF StoreInv, Store
<1>3. With(k) = Bounded(Insert(Store, r))
  BY DEF With, Store
<1> HIDE DEF e, r
<1>4. e.key \in DOMAIN Store.map => e.key \in y
  BY <1>1, <1>2
<1>5. P2 = Append(puts, e)
  BY DEF e
<1>6. unsafe \subseteq u2 \cup {e.key} /\ Unsure \subseteq y \cup {e.key}
  BY <1>1
<1> QED
  <2> DEFINE b == With(k)
             s == Store
             x == Unsure
             u == unsafe
             P == puts
  <2>1. b = Bounded(Insert(s, r)) /\ Stores(P, now, u, x, s) /\ ItsRecord(P, e, r) /\ P \in Seq(PutType)
    BY <1>1, <1>2, <1>3
  <2>2. e.key \in DOMAIN s.map => e.key \in y
    BY <1>4
  <2>3. u \subseteq u2 \cup {e.key} /\ x \subseteq y \cup {e.key} /\ P2 = Append(P, e)
    BY <1>5, <1>6
  <2> HIDE DEF b, s, x, u, P
  <2>4. Stores(P2, now, u2, y, b) /\ Len(b.order) <= Cap
    BY ONLY <1>1, <2>1, <2>2, <2>3, StoresWith, ZenonT(40)
  <2> QED
    BY <2>4 DEF b

LEMMA CallLogged ==
  ASSUME StoreInv, NEW k \in Keys, NEW ok \in BOOLEAN, Len(puts) < MaxPuts,
         NEW P2, P2 = Append(puts, Call(k, ok)), NEW u2, NEW y,
         unsafe \subseteq u2 \cup {k}, Unsure \subseteq y \cup {k}, u2 \subseteq y,
         NEW g \in Interrupted(k),
         \/ ~ok /\ unsafe \subseteq u2
         \/ /\ k \in u2 \/ Safely(file, g, Record(k, This, now))
            /\ \A q \in 1 .. Len(file) : Holds(file, q) /\ RecordIn(file, q).key = k => k \in y
  PROVE Logs(P2, now, u2, y, g)
<1> DEFINE e == Call(k, ok)
           r == Record(k, This, now)
<1>1. /\ e \in PutType /\ e.key = k /\ e.ok = ok /\ r \in RecordType /\ ItsRecord(puts, e, r)
      /\ puts \in Seq(PutType) /\ file \in Seq(LineType)
  BY CallMade
<1>2. Extends(file, g, <<r>>)
  BY <1>1, InterruptedExtends
<1>3. FileTold(puts, file) /\ Logged(puts, now, Unsure, file) /\ LogLatest(puts, unsafe, file)
  BY DEF StoreInv, Logs
<1>4. P2 = Append(puts, e) /\ (~ok \/ k \in u2 \/ Safely(file, g, r))
  OBVIOUS
<1>5. r.key = k
  BY DEF Record
<1>6. (~ok /\ unsafe \subseteq u2) \/ (\A q \in 1 .. Len(file) : Holds(file, q) /\ RecordIn(file, q).key = k => k \in y)
  OBVIOUS
<1>7. (~ok /\ unsafe \subseteq u2) \/ k \in u2 \/ Safely(file, g, r)
  OBVIOUS
<1> HIDE DEF e, r
<1>8. FileTold(P2, g)
  BY <1>1, <1>2, <1>3, <1>4, FileToldAppend
<1>9. LogLatest(P2, u2, g)
  <2>1. e.key \in u2 \/ Safely(file, g, r) \/ (~e.ok /\ e.key \notin unsafe)
    BY <1>1, <1>7
  <2>2. unsafe \subseteq u2 \cup {e.key}
    BY <1>1
  <2> QED
    BY <1>1, <1>2, <1>3, <1>4, <2>1, <2>2, LogLatestAppend
<1>10. Logged(P2, now, y, g)
  <2>1. Len(P2) = Len(puts) + 1 /\ Len(puts) \in Nat /\ P2[Len(puts) + 1] = e
    BY <1>1, <1>4, CallFacts
  <2>2. ASSUME NEW n \in 1 .. Len(P2), n > Len(puts), KeptOf(P2, now, y, n) PROVE StoredIn(P2, g, n)
    <3>1. n = Len(puts) + 1 /\ P2[n] = e
      BY <2>1, <2>2
    <3>2. ok /\ k \notin y
      BY <1>1, <2>2, <3>1 DEF KeptOf
    <3>3. Safely(file, g, r) /\ \A q \in 1 .. Len(file) : Holds(file, q) => RecordIn(file, q).key # r.key
      BY <1>5, <1>6, <1>7, <3>2
    <3>4. r = Record(P2[n].key, n, P2[n].at)
      BY <1>1, <3>1 DEF ItsRecord
    <3> QED
      BY <1>1, <1>2, <3>3, <3>4, SafelyStored
  <2>3. Unsure \subseteq y \cup {e.key}
    BY <1>1
  <2> QED
    BY <1>1, <1>2, <1>3, <1>4, <2>2, <2>3, LoggedAppend
<1>11. g \in Seq(LineType)
  BY <1>2 DEF Extends
<1> QED
  BY <1>8, <1>9, <1>10, <1>11 DEF Logs

LEMMA PutAppendsStep ==
  ASSUME StoreInv, NEW k \in Keys, PutAppends(k)
  PROVE StoreInv'
<1> DEFINE ok == ~Long(lines + 1)
           e == Call(k, ok)
           b == With(k)
<1>1. ok \in BOOLEAN /\ Called(k, ok)
  BY DEF PutAppends
<1> HIDE DEF ok
<1>2. /\ Len(puts) < MaxPuts /\ puts' = Append(puts, e) /\ running = TRUE /\ running' = TRUE /\ now' = now
      /\ again \subseteq again' /\ again' \subseteq Keys /\ faults' \in 0 .. MaxFaults
      /\ k \in DOMAIN map => k \in again'
      /\ \A q \in 1 .. Len(file) : Holds(file, q) /\ RecordIn(file, q).key = k => k \in again'
  BY <1>1, CalledFacts
<1>3. /\ CallsMade(puts', now) /\ Record(k, This, now) \in RecordType /\ file \in Seq(LineType)
  BY <1>1, <1>2, CallMade
<1>4. /\ file' = Put(Whole(k)) /\ lines' = lines + 1 /\ map' = b.map /\ order' = b.order
      /\ unsafe' = IF Ragged \/ Readable(file) # file THEN unsafe \cup {k} ELSE unsafe \ {k}
  BY DEF PutAppends, Remember, Noted
<1> HIDE DEF e, b
<1>5. /\ unsafe \subseteq unsafe' \cup {k} /\ Unsure \subseteq Unsure' \cup {k} /\ unsafe' \subseteq Unsure'
      /\ unsafe' \subseteq Keys
  BY <1>2, <1>4 DEF Unsure, StoreInv, StoreTyped
<1>6. StoreTyped'
  BY <1>2, <1>3, <1>4, <1>5 DEF StoreInv, StoreTyped
<1>7. Stores(puts', now, unsafe', Unsure', b) /\ Len(b.order) <= Cap
  <2>1. k \in DOMAIN map => k \in Unsure'
    BY <1>2 DEF Unsure
  <2> QED
    BY <1>1, <1>2, <1>5, <2>1, CallStored DEF b, e
<1>8. Store' = b
  BY <1>4 DEF Store, b, With, Bounded
<1>9. Logs(puts', now, unsafe', Unsure', file')
  <2>1. file' \in Interrupted(k)
    BY <1>4 DEF Interrupted
  <2>2. k \in unsafe' \/ Safely(file, file', Record(k, This, now))
    BY <1>3, <1>4, AppendedSafely
  <2>3. \A q \in 1 .. Len(file) : Holds(file, q) /\ RecordIn(file, q).key = k => k \in Unsure'
    BY <1>2 DEF Unsure
  <2> QED
    BY <1>1, <1>2, <1>5, <2>1, <2>2, <2>3, CallLogged DEF e
<1>10. Shaped(b)
  BY <1>7 DEF Stores
<1> QED
  BY <1>2, <1>4, <1>6, <1>7, <1>8, <1>9, <1>10 DEF StoreInv

LEMMA PutCompactsStep ==
  ASSUME StoreInv, NEW k \in Keys, PutCompacts(k)
  PROVE StoreInv'
<1> DEFINE e == Call(k, TRUE)
           b == With(k)
<1>1. TRUE \in BOOLEAN /\ Called(k, TRUE)
  BY DEF PutCompacts
<1>2. /\ Len(puts) < MaxPuts /\ puts' = Append(puts, e) /\ running = TRUE /\ running' = TRUE /\ now' = now
      /\ again \subseteq again' /\ again' \subseteq Keys /\ faults' \in 0 .. MaxFaults
      /\ k \in DOMAIN map => k \in again'
  BY <1>1, CalledFacts
<1>3. CallsMade(puts', now) /\ puts' \in Seq(PutType)
  BY <1>1, <1>2, CallMade DEF CallsMade
<1>4. /\ file' = Rewritten(b) /\ lines' = Len(file') /\ map' = b.map /\ order' = b.order
      /\ unsafe' = unsafe \ {k}
  BY DEF PutCompacts, Remember
<1> HIDE DEF e, b
<1>5. /\ unsafe \subseteq unsafe' \cup {k} /\ Unsure \subseteq Unsure' \cup {k} /\ unsafe' \subseteq Keys
  BY <1>2, <1>4 DEF Unsure, StoreInv, StoreTyped
<1>6. Stores(puts', now, unsafe', Unsure', b) /\ Len(b.order) <= Cap
  <2>1. k \in DOMAIN map => k \in Unsure'
    BY <1>2 DEF Unsure
  <2> QED
    BY <1>1, <1>2, <1>5, <2>1, CallStored DEF b, e
<1>7. Shaped(b)
  BY <1>6 DEF Stores
<1>8. lines' \in Nat
  BY <1>4, <1>7, RewrittenFacts
<1>9. StoreTyped'
  BY <1>2, <1>3, <1>5, <1>8 DEF StoreInv, StoreTyped
<1>10. Store' = b
  BY <1>4 DEF Store, b, With, Bounded
<1>11. Logs(puts', now, unsafe', Unsure', file')
  BY <1>3, <1>4, <1>6, RewrittenLogs
<1> QED
  BY <1>2, <1>4, <1>6, <1>7, <1>9, <1>10, <1>11 DEF StoreInv

\* A call that fails: its key may or may not count as put again.
LEMMA FailedLogs ==
  ASSUME StoreInv, NEW k \in Keys, Len(puts) < MaxPuts, NEW P2, P2 = Append(puts, Call(k, FALSE)),
         NEW y, Unsure \subseteq y, NEW g \in Interrupted(k)
  PROVE Logs(P2, now, unsafe, y, g)
<1>1. unsafe \subseteq unsafe \cup {k} /\ Unsure \subseteq y \cup {k} /\ unsafe \subseteq y
  BY DEF Unsure
<1>2. FALSE \in BOOLEAN /\ ~FALSE /\ unsafe \subseteq unsafe
  OBVIOUS
<1> QED
  BY <1>1, <1>2, CallLogged

LEMMA PutFailsStep ==
  ASSUME StoreInv, NEW k \in Keys, PutFails(k)
  PROVE StoreInv'
<1> DEFINE e == Call(k, FALSE)
<1>1. FALSE \in BOOLEAN /\ Called(k, FALSE)
  BY DEF PutFails
<1>2. /\ Len(puts) < MaxPuts /\ puts' = Append(puts, e) /\ running = TRUE /\ running' = TRUE /\ now' = now
      /\ again \subseteq again' /\ again' \subseteq Keys /\ faults' \in 0 .. MaxFaults
  BY <1>1, CalledFacts
<1>3. CallsMade(puts', now) /\ e \in PutType /\ e.key = k /\ ~e.ok /\ puts \in Seq(PutType)
  BY <1>1, <1>2, CallMade
<1>4. file' \in Interrupted(k) /\ map' = map /\ order' = order /\ lines' = lines /\ unsafe' = unsafe
  BY DEF PutFails
<1>5. Unsure \subseteq Unsure' /\ Unsure \subseteq Unsure' \cup {e.key}
  BY <1>2, <1>4 DEF Unsure
<1>6. StoreTyped'
  BY <1>2, <1>3, <1>4 DEF StoreInv, StoreTyped
<1>7. Store' = Store
  BY <1>4 DEF Store
<1>8. Logs(puts', now, unsafe, Unsure', file')
  BY <1>2, <1>4, <1>5, FailedLogs
<1> HIDE DEF e
<1>9. Stores(puts', now, unsafe, Unsure', Store)
  <2>1. Stores(puts, now, unsafe, Unsure, Store)
    BY <1>2 DEF StoreInv
  <2> QED
    BY <1>2, <1>3, <1>5, <2>1, StoresFailed
<1> QED
  BY <1>2, <1>4, <1>6, <1>7, <1>8, <1>9 DEF StoreInv

LEMMA KillStep ==
  ASSUME StoreInv, Kill
  PROVE StoreInv'
<1>1. /\ running /\ running' = FALSE /\ map' = Empty.map /\ order' = <<>> /\ lines' = 0
      /\ now' = now /\ unsafe' = unsafe
  BY DEF Kill
<1>2. faults' \in 0 .. MaxFaults
  <2>1. faults < MaxFaults /\ faults' = faults + 1 /\ faults \in 0 .. MaxFaults /\ MaxFaults \in Nat
    BY IdemStoreAssumption DEF Kill, Fault, StoreInv, StoreTyped
  <2> QED
    BY <2>1
<1>3. Shaped(Store)' /\ Len(order') <= Cap
  <2>1. Empty.map = [k \in {} |-> 0] /\ Len(<<>>) = 0 /\ \A q \in 1 .. 0 : FALSE
    BY DEF Empty
  <2>2. Store'.map = Empty.map /\ Store'.order = <<>>
    BY <1>1 DEF Store
  <2>3. DOMAIN Empty.map = {} /\ Empty.map = [k \in DOMAIN Empty.map |-> Empty.map[k]]
    BY <2>1
  <2>4. Shaped(Store')
    BY <2>1, <2>2, <2>3 DEF Shaped
  <2>5. Cap \in Nat
    BY IdemStoreAssumption
  <2> QED
    BY <1>1, <2>1, <2>4, <2>5
<1>4. CASE UNCHANGED <<file, puts, again>>
  BY <1>1, <1>2, <1>3, <1>4 DEF StoreInv, StoreTyped, Unsure
<1>5. ASSUME NEW k \in Keys, Len(puts) < MaxPuts, puts' = Append(puts, Call(k, FALSE)), again' = again \cup {k},
             file' \in Interrupted(k) \/ file' = Rewritten(With(k))
      PROVE StoreInv'
  <2>1. CallsMade(puts', now) /\ puts' \in Seq(PutType)
    BY <1>5, CallMade DEF CallsMade
  <2>2. Unsure \subseteq Unsure' /\ k \in Unsure'
    BY <1>1, <1>5 DEF Unsure
  <2>3. Logs(puts', now, unsafe, Unsure', file')
    <3>1. CASE file' \in Interrupted(k)
      BY <1>5, <2>2, <3>1, FailedLogs
    <3>2. CASE file' = Rewritten(With(k))
      <4>1. FALSE \in BOOLEAN /\ unsafe \subseteq unsafe \cup {k} /\ Unsure \subseteq Unsure' \cup {k}
        BY <2>2
      <4>2. Stores(puts', now, unsafe, Unsure', With(k))
        BY <1>1, <1>5, <2>2, <4>1, CallStored
      <4> QED
        BY <2>1, <3>2, <4>2, RewrittenLogs
    <3> QED
      BY <1>5, <3>1, <3>2
  <2>4. StoreTyped'
    BY <1>1, <1>2, <1>5, <2>1 DEF StoreInv, StoreTyped
  <2> QED
    BY <1>1, <1>3, <2>3, <2>4 DEF StoreInv
<1> QED
  BY <1>4, <1>5 DEF Kill, Call

LEMMA OpenStep ==
  ASSUME StoreInv, Open
  PROVE StoreInv'
<1> DEFINE b == Loaded(file)
<1>1. /\ running' = TRUE /\ map' = b.map /\ order' = b.order /\ lines' = Len(Readable(file))
      /\ now' = now /\ file' = file /\ puts' = puts /\ unsafe' = unsafe /\ again' = again /\ faults' = faults
  BY DEF Open, Remember
<1>2. now \in Nat /\ CallsMade(puts, now) /\ Logs(puts, now, unsafe, Unsure, file) /\ file \in Seq(LineType)
  BY IdemStoreAssumption DEF StoreInv, StoreTyped, Logs
<1>3. Stores(puts, now, unsafe, Unsure, b) /\ Len(b.order) <= Cap
  BY <1>2, LoadedStores
<1>4. lines' \in Nat
  BY <1>1, <1>2, ReadableFacts
<1>5. Store' = b
  <2>1. PICK c : Loads(file, c)
    BY <1>2, LoadFacts
  <2> DEFINE s == c[Len(Readable(file))]
  <2>2. b = Bounded(s)
    BY <2>1 DEF Loads
  <2> HIDE DEF b, s
  <2>3. b = [map |-> b.map, order |-> b.order]
    BY <2>2 DEF Bounded
  <2> QED
    BY <1>1, <2>3 DEF Store
<1>6. Shaped(b)
  BY <1>3 DEF Stores
<1>7. Unsure' = Unsure
  BY <1>1 DEF Unsure
<1>8. StoreTyped'
  BY <1>1, <1>4 DEF StoreInv, StoreTyped
<1> HIDE DEF b
<1> QED
  BY <1>1, <1>2, <1>3, <1>5, <1>6, <1>7, <1>8 DEF StoreInv

\* As time goes by, less is kept.
LEMMA TickStep ==
  ASSUME StoreInv, Tick
  PROVE StoreInv'
<1>1. /\ now < MaxTime /\ now' = now + 1 /\ map' = map /\ order' = order /\ file' = file /\ running' = running
      /\ lines' = lines /\ puts' = puts /\ unsafe' = unsafe /\ again' = again /\ faults' = faults
  BY DEF Tick
<1>2. now \in Nat /\ MaxTime \in Nat /\ Window \in Nat /\ CallsMade(puts, now) /\ puts \in Seq(PutType)
  BY IdemStoreAssumption DEF StoreInv, StoreTyped, CallsMade
<1>3. \A i \in 1 .. Len(puts) : puts[i].at \in Nat
  <2>1. ASSUME NEW i \in 1 .. Len(puts) PROVE puts[i].at \in Nat
    <3> DEFINE p == puts[i]
    <3>1. p \in PutType
      BY <1>2, ElementOfSeq
    <3> HIDE DEF p
    <3>2. p.at \in Nat
      BY <3>1 DEF PutType
    <3> QED
      BY <3>2 DEF p
  <2> QED
    BY <2>1
<1>4. CallsMade(puts, now')
  BY <1>1, <1>2, <1>3 DEF CallsMade
<1>5. \A i \in 1 .. Len(puts) : KeptOf(puts, now', Unsure, i) => KeptOf(puts, now, Unsure, i)
  <2>1. ASSUME NEW i \in 1 .. Len(puts), KeptOf(puts, now', Unsure, i) PROVE ~(now - puts[i].at > Window)
    BY <1>1, <1>2, <1>3, <2>1 DEF KeptOf
  <2> QED
    BY <2>1 DEF KeptOf
<1>6. Store' = Store /\ Unsure' = Unsure
  BY <1>1 DEF Store, Unsure
<1>7. Logs(puts, now', unsafe, Unsure, file)
  BY <1>5 DEF StoreInv, Logs, Logged
<1>8. running => Stores(puts, now', unsafe, Unsure, Store)
  BY <1>5 DEF StoreInv, Stores, Mapped
<1>9. StoreTyped'
  BY <1>1, <1>2, <1>4 DEF StoreInv, StoreTyped
<1> QED
  BY <1>1, <1>6, <1>7, <1>8, <1>9 DEF StoreInv

LEMMA StoreStep == StoreInv /\ [StoreNext]_storeVars => StoreInv'
<1> SUFFICES ASSUME StoreInv, [StoreNext]_storeVars PROVE StoreInv'
  OBVIOUS
<1>1. ASSUME NEW k \in Keys, PutAppends(k) PROVE StoreInv'
  BY <1>1, PutAppendsStep
<1>2. ASSUME NEW k \in Keys, PutCompacts(k) PROVE StoreInv'
  BY <1>2, PutCompactsStep
<1>3. ASSUME NEW k \in Keys, PutFails(k) PROVE StoreInv'
  BY <1>3, PutFailsStep
<1>4. CASE Kill
  BY <1>4, KillStep
<1>5. CASE Open
  BY <1>5, OpenStep
<1>6. CASE Tick
  BY <1>6, TickStep
<1>7. CASE UNCHANGED storeVars
  <2>1. /\ now' = now /\ map' = map /\ order' = order /\ file' = file /\ running' = running
        /\ lines' = lines /\ puts' = puts /\ unsafe' = unsafe /\ again' = again /\ faults' = faults
    BY <1>7 DEF storeVars
  <2> QED
    BY <2>1 DEF StoreInv, StoreTyped, Store, Unsure
<1> QED
  BY <1>1, <1>2, <1>3, <1>4, <1>5, <1>6, <1>7 DEF StoreNext

-----------------------------------------------------------------------------
(* The theorems about the store on disk.                                   *)

LEMMA StoreInvGivesType == StoreInv => StoreTypeOK
<1> SUFFICES ASSUME StoreInv PROVE StoreTypeOK
  OBVIOUS
<1>1. /\ StoreTyped /\ Shaped(Store) /\ Len(order) <= Cap
      /\ file \in Seq(LineType) /\ FileTold(puts, file)
  BY DEF StoreInv, Logs
<1>2. /\ CallsMade(puts, now) /\ puts \in Seq(PutType) /\ Len(puts) <= MaxPuts /\ Len(puts) \in Nat
      /\ MaxPuts \in Nat /\ now \in Nat
  BY <1>1, IdemStoreAssumption DEF StoreTyped, CallsMade
<1>3. ASSUME NEW i \in 1 .. Len(file), NEW r \in ToSet(file[i].recs)
      PROVE r \in [key : Keys, code : 1 .. MaxPuts, at : 0 .. now]
  <2> DEFINE v == RecordIn(file, i)
             rr == file[i].recs
  <2>1. Holds(file, i)
    <3>1. rr # <<>>
      <4>1. SUFFICES ASSUME rr = <<>> PROVE FALSE
        OBVIOUS
      <4>2. ToSet(<<>>) = {}
        BY DEF ToSet
      <4> QED
        BY <4>1, <4>2
    <3> QED
      BY <3>1 DEF Holds
  <2>2. v \in RecordType /\ rr = <<v>>
    BY <1>1, <2>1, LineFacts
  <2>3. Told(puts, v)
    BY <1>1, <2>1 DEF FileTold
  <2>4. r \in ToSet(rr)
    OBVIOUS
  <2> HIDE DEF v, rr
  <2>5. r = v
    <3>1. ToSet(<<v>>) = {<<v>>[m] : m \in DOMAIN <<v>>} /\ DOMAIN <<v>> = {1} /\ <<v>>[1] = v
      BY DEF ToSet
    <3> QED
      BY <2>2, <2>4, <3>1
  <2>6. v.at <= now /\ v.at \in Nat /\ v.key \in Keys /\ v.code \in 1 .. MaxPuts
        /\ v = [key |-> v.key, code |-> v.code, at |-> v.at]
    BY <1>2, <2>2, <2>3 DEF Told, CallsMade, RecordType
  <2>7. v.at \in 0 .. now
    BY <1>2, <2>6
  <2> QED
    BY <2>5, <2>6, <2>7
<1>4. \A i \in 1 .. Len(file) : file[i].nl \in BOOLEAN /\ file[i].text \in BOOLEAN
  BY <1>1, LineFacts
<1>5. ToSet(order) = DOMAIN map /\ IsInjective(order)
  <2>1. /\ order \in Seq(Keys) /\ \A k : k \in DOMAIN map <=> \E p \in 1 .. Len(order) : order[p] = k
        /\ \A p, q \in 1 .. Len(order) : order[p] = order[q] => p = q
    BY <1>1 DEF Shaped, Store
  <2>2. DOMAIN order = 1 .. Len(order)
    BY <2>1
  <2>3. IsInjective(order)
    BY <2>1, <2>2 DEF IsInjective
  <2>4. \A k : k \in ToSet(order) <=> \E p \in 1 .. Len(order) : order[p] = k
    BY <2>2 DEF ToSet
  <2>5. ToSet(order) = DOMAIN map
    BY <2>1, <2>4
  <2> QED
    BY <2>3, <2>5
<1> QED
  BY <1>1, <1>3, <1>4, <1>5 DEF StoreTyped, StoreTypeOK

\* The log and the store are what they are taken for, and the store never
\* outgrows its bound (engine.rs, IdemStore).
THEOREM StoreTypeAlways == StoreSpec => []StoreTypeOK
<1>1. StoreSpec => []StoreInv
  BY StoreInitially, StoreStep, PTL DEF StoreSpec
<1> QED
  BY <1>1, StoreInvGivesType, PTL

LEMMA StoreInvAnswers == StoreInv => RetriesAnswered
<1> SUFFICES ASSUME StoreInv, running PROVE RetriesAnswered
  BY DEF RetriesAnswered, StoredIsFound, LastIsFound
<1>1. /\ MapTold(puts, Store) /\ Mapped(puts, now, Unsure, Store) /\ MapLatest(puts, unsafe, Store)
      /\ Store.map = map
  BY DEF StoreInv, Stores, Store
<1>2. puts \in Seq(PutType) /\ Len(puts) \in Nat
  BY DEF StoreInv, StoreTyped, CallsMade
<1>3. ASSUME NEW i \in 1 .. Len(puts), puts[i].ok, Latest(i), ~Expired(puts[i].at),
             Cardinality({puts[j].key : j \in i .. Len(puts)}) <= Cap,
             puts[i].key \notin unsafe \cup again
      PROVE Get(puts[i].key) = i
  <2>1. KeptOf(puts, now, Unsure, i)
    BY <1>3 DEF KeptOf, LatestOf, FromOf, Unsure, Latest, Expired
  <2>2. puts[i].key \in DOMAIN map /\ map[puts[i].key] = [code |-> i, at |-> puts[i].at]
    BY <1>1, <2>1 DEF Mapped, HeldIn
  <2> DEFINE k == puts[i].key
             m == map[k]
  <2>3. k \in DOMAIN map /\ m.code = i /\ ~Expired(m.at)
    BY <1>3, <2>2
  <2> HIDE DEF k, m
  <2>4. Get(k) = m.code
    BY <2>3 DEF Get, m
  <2> QED
    BY <2>3, <2>4 DEF k
<1>4. ASSUME NEW k \in Keys, NEW i, i = Get(k), i # NoResponse
      PROVE /\ puts[i].key = k /\ ~Expired(puts[i].at)
            /\ k \in unsafe \/ \A j \in i + 1 .. Len(puts) : puts[j].key = k => ~puts[j].ok
  <2>1. k \in DOMAIN map /\ ~Expired(map[k].at) /\ i = map[k].code
    BY <1>4 DEF Get
  <2>2. Told(puts, Record(k, i, map[k].at))
    BY <1>1, <2>1 DEF MapTold
  <2>3. puts[i].key = k /\ puts[i].at = map[k].at
    BY <2>2 DEF Told, Record
  <2>4. k \in unsafe \/ ~Replaced(puts, k, i)
    BY <1>1, <2>1 DEF MapLatest
  <2>5. k \in unsafe \/ \A j \in i + 1 .. Len(puts) : puts[j].key = k => ~puts[j].ok
    BY <2>4 DEF Replaced
  <2> QED
    BY <2>1, <2>3, <2>5
<1>5. StoredIsFound
  BY <1>3 DEF StoredIsFound
<1>6. LastIsFound
  BY <1>4 DEF LastIsFound
<1> QED
  BY <1>5, <1>6 DEF RetriesAnswered

\* A response that was stored is found by a retry, through failed writes,
\* kills, restarts and rewrites of the log, within the window and the bound, and
\* never an older one of its key (engine.rs, IdemStore::put, get and open).
THEOREM RetriesAnsweredAlways == StoreSpec => []RetriesAnswered
<1>1. StoreSpec => []StoreInv
  BY StoreInitially, StoreStep, PTL DEF StoreSpec
<1> QED
  BY <1>1, StoreInvAnswers, PTL
=============================================================================
