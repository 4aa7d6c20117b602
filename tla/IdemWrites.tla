----------------------------- MODULE IdemWrites ----------------------------
(***************************************************************************)
(* The write branch of handle_db (serve.rs) for requests that carry an     *)
(* Idempotency-Key: wedged check, replay lookup, in-flight marker, the     *)
(* handler, the durable dedup record, the removal of the marker.  Each of  *)
(* these takes and drops a lock of its own, so that attempts of the same   *)
(* request (client retries after a timeout, a 5xx or a lost answer,        *)
(* duplicates of a proxy) interleave between any two of them.              *)
(*                                                                         *)
(* A request is a model value, the Idempotency-Key of one intended write.  *)
(* Its effect is counted: mem[r] times in memory, disk[r] times in what a  *)
(* restart recovers.  Two handlers stand for the fourteen: /ingest, which  *)
(* journals and fsyncs the WAL and wedges the database on an error, and    *)
(* /feedback (like /sleep, /consolidate), which changes the weights in     *)
(* memory and then saves the whole sidecar.  The 24 h window and the 4096  *)
(* entries of IdemStore are taken as never reached.                        *)
(***************************************************************************)
EXTENDS Naturals, FiniteSets

CONSTANTS
  Workers,      \* threads of the server
  Requests,     \* Idempotency-Keys
  Feedbacks,    \* those that are /feedback; the others are /ingest
  None,         \* no request
  MaxAttempts,  \* bound: attempts per request in a model-checking run
  DiskFails,    \* the disk may refuse writes
  Crashes,      \* the process may be killed
  Outlives      \* a handler may run longer than IDEM_INFLIGHT_STALE (60 s)

ASSUME RequestsAssumption ==
  /\ Feedbacks \subseteq Requests /\ None \notin Requests
  /\ IsFiniteSet(Workers) /\ IsFiniteSet(Requests)
ASSUME SwitchesAssumption ==
  /\ MaxAttempts \in Nat
  /\ DiskFails \in BOOLEAN /\ Crashes \in BOOLEAN /\ Outlives \in BOOLEAN

Codes == {200, 429, 500}
NoCode == 0

VARIABLES
  pc,        \* where each worker is
  req,       \* the request it serves
  code,      \* the status its handler returned
  idem,      \* IdemStore: the stored final status of a request, fsynced
  inflight,  \* Db.inflight: requests with an in-flight marker
  stale,     \* those whose marker is older than 60 s
  outlived,  \* those one of whose markers ever got that old (history)
  excused,   \* requests whose effect, or its record, went astray (history)
  wedged,    \* Engine.wedged
  straggled, \* requests that were served with 200 on a wedged database (history)
  mem,       \* how often the effect of a request is in memory
  disk,      \* how often a restart would recover it
  attempts,  \* attempts sent so far
  answers    \* what the client saw of its attempts: statuses, NoCode if cut off (history)

vars == <<pc, req, code, idem, inflight, stale, outlived, excused, wedged, straggled, mem, disk, attempts,
          answers>>

Init ==
  /\ pc = [w \in Workers |-> "idle"]
  /\ req = [w \in Workers |-> None]
  /\ code = [w \in Workers |-> NoCode]
  /\ idem = [r \in Requests |-> NoCode]
  /\ inflight = {} /\ stale = {} /\ outlived = {} /\ excused = {}
  /\ wedged = FALSE /\ straggled = {}
  /\ mem = [r \in Requests |-> 0] /\ disk = [r \in Requests |-> 0]
  /\ attempts = [r \in Requests |-> 0]
  /\ answers = [r \in Requests |-> {}]

Goto(w, l) == pc' = [pc EXCEPT ![w] = l]
Excuse(rs) == excused' = excused \cup rs

\* The worker answers and is free for the next connection.
Answer(w, c) ==
  /\ answers' = [answers EXCEPT ![req[w]] = @ \cup {c}]
  /\ Goto(w, "idle")
  /\ req' = [req EXCEPT ![w] = None]
  /\ code' = [code EXCEPT ![w] = NoCode]

\* An attempt of request r arrives at worker w.
Receive(w, r) ==
  /\ pc[w] = "idle" /\ attempts[r] < MaxAttempts
  /\ attempts' = [attempts EXCEPT ![r] = @ + 1]
  /\ req' = [req EXCEPT ![w] = r]
  /\ Goto(w, "gate")
  /\ UNCHANGED <<code, idem, inflight, stale, outlived, excused, wedged, straggled, mem, disk, answers>>

\* Read lock: a wedged database answers 503.
Gate(w) ==
  /\ pc[w] = "gate"
  /\ \/ wedged /\ Answer(w, 503)
     \/ ~wedged /\ Goto(w, "lookup") /\ UNCHANGED <<req, code, answers>>
  /\ UNCHANGED <<idem, inflight, stale, outlived, excused, wedged, straggled, mem, disk, attempts>>

\* Read lock: a stored final response is replayed.
Lookup(w) ==
  /\ pc[w] = "lookup"
  /\ \/ idem[req[w]] # NoCode /\ Answer(w, idem[req[w]])
     \/ idem[req[w]] = NoCode /\ Goto(w, "claim") /\ UNCHANGED <<req, code, answers>>
  /\ UNCHANGED <<idem, inflight, stale, outlived, excused, wedged, straggled, mem, disk, attempts>>

\* Mutant of Claim: a marker that is there is taken over.
ClaimUnchecked(w) ==
  /\ pc[w] = "claim"
  /\ inflight' = (inflight \ stale) \cup {req[w]} /\ stale' = {}
  /\ Goto(w, "handle")
  /\ UNCHANGED <<req, code, idem, outlived, excused, wedged, straggled, mem, disk, attempts, answers>>

\* Mutex of the markers: those older than 60 s are dropped, then 409 or ours.
Claim(w) ==
  /\ pc[w] = "claim"
  /\ LET live == inflight \ stale IN
       \/ /\ req[w] \in live
          /\ inflight' = live
          /\ Answer(w, 409) /\ UNCHANGED excused
       \/ /\ req[w] \notin live
          /\ inflight' = live \cup {req[w]}
          /\ Excuse(IF idem[req[w]] # NoCode THEN {req[w]} ELSE {})
          /\ Goto(w, "handle") /\ UNCHANGED <<req, code, answers>>
  /\ stale' = {}
  /\ UNCHANGED <<idem, outlived, wedged, straggled, mem, disk, attempts>>

Handled(w, c) == Goto(w, "record") /\ code' = [code EXCEPT ![w] = c]

\* Mutant of SidecarSaved: 200 is answered before the sidecar is saved.
SidecarUnsaved(m) == UNCHANGED disk

\* What reaches the disk of a log that has failed, now or before: any part of
\* what is in memory (its last line may be torn, and take the next with it).
WalPartly(m) ==
  disk' \in {d \in [Requests -> 0 .. MaxAttempts] :
              \A r \in Requests :
                IF r \in Feedbacks THEN d[r] = disk[r] ELSE d[r] \in disk[r] .. m[r]}

\* What reaches the disk with the WAL, and with the sidecar.
WalSynced(m) == disk' = [r \in Requests |-> IF r \in Feedbacks THEN disk[r] ELSE m[r]]
SidecarSaved(m) == disk' = [r \in Requests |-> IF r \in Feedbacks THEN m[r] ELSE disk[r]]

\* handle_db_write of /ingest, under the write lock: 200 once the batch is
\* fsynced; on an error the batch is in memory, perhaps on disk, and the
\* database is wedged.  The handler does not ask again whether it is: that was
\* at the gate, and the log may have failed since.
Ingest(w) ==
  /\ pc[w] = "handle" /\ req[w] \notin Feedbacks
  /\ mem' = [mem EXCEPT ![req[w]] = @ + 1]
  /\ \/ /\ ~wedged /\ WalSynced(mem')
        /\ Handled(w, 200) /\ UNCHANGED <<wedged, straggled, excused>>
     \/ /\ wedged /\ WalPartly(mem')
        /\ Handled(w, 200) /\ straggled' = straggled \cup {req[w]} /\ UNCHANGED <<wedged, excused>>
     \/ /\ DiskFails /\ WalPartly(mem')
        /\ Handled(w, 500) /\ wedged' = TRUE /\ Excuse({req[w]}) /\ UNCHANGED straggled
  /\ UNCHANGED <<req, idem, inflight, stale, outlived, attempts, answers>>

\* Mutant of Feedback: the credit is applied before the rate limit is asked.
FeedbackBeforeLimit(w) ==
  /\ pc[w] = "handle" /\ req[w] \in Feedbacks
  /\ mem' = [mem EXCEPT ![req[w]] = @ + 1]
  /\ \/ SidecarSaved(mem') /\ (Handled(w, 200) \/ Handled(w, 429)) /\ UNCHANGED excused
     \/ DiskFails /\ UNCHANGED disk /\ Handled(w, 500) /\ Excuse({req[w]})
  /\ UNCHANGED <<req, idem, inflight, stale, outlived, wedged, straggled, attempts, answers>>

\* handle_db_write of /feedback: refused by the rate limit; or credited in
\* memory, and then the sidecar is saved, or not (500, the credit stays).
Feedback(w) ==
  /\ pc[w] = "handle" /\ req[w] \in Feedbacks
  /\ \/ Handled(w, 429) /\ UNCHANGED <<mem, disk, excused>>
     \/ /\ mem' = [mem EXCEPT ![req[w]] = @ + 1]
        /\ \/ SidecarSaved(mem') /\ Handled(w, 200) /\ UNCHANGED excused
           \/ DiskFails /\ UNCHANGED disk /\ Handled(w, 500) /\ Excuse({req[w]})
  /\ UNCHANGED <<req, idem, inflight, stale, outlived, wedged, straggled, attempts, answers>>

\* Mutant of RecordResponse: a 500 is stored as the final answer, too.
RecordAnyResponse(w) ==
  /\ pc[w] = "record"
  /\ idem' = [idem EXCEPT ![req[w]] = code[w]]
  /\ Goto(w, "release")
  /\ UNCHANGED <<req, code, inflight, stale, outlived, excused, wedged, straggled, mem, disk, attempts, answers>>

\* Mutant of RecordResponse: a write that journals nothing is not recorded.
RecordJournalled(w) ==
  /\ pc[w] = "record"
  /\ idem' = IF code[w] < 500 /\ req[w] \notin Feedbacks
             THEN [idem EXCEPT ![req[w]] = code[w]] ELSE idem
  /\ Goto(w, "release")
  /\ UNCHANGED <<req, code, inflight, stale, outlived, excused, wedged, straggled, mem, disk, attempts, answers>>

\* A response below 500 is stored, fsynced, before it is sent; a failure to
\* store it is only logged.
RecordResponse(w) ==
  /\ pc[w] = "record"
  /\ \/ code[w] < 500 /\ idem' = [idem EXCEPT ![req[w]] = code[w]] /\ UNCHANGED excused
     \/ code[w] < 500 /\ DiskFails /\ UNCHANGED idem /\ Excuse({req[w]})
     \/ code[w] = 500 /\ UNCHANGED <<idem, excused>>
  /\ Goto(w, "release")
  /\ UNCHANGED <<req, code, inflight, stale, outlived, wedged, straggled, mem, disk, attempts, answers>>

\* Mutant of ReleaseMarker: the early return of an error leaves the marker.
ReleaseOnSuccess(w) ==
  /\ pc[w] = "release"
  /\ IF code[w] < 500
     THEN inflight' = inflight \ {req[w]} /\ stale' = stale \ {req[w]}
     ELSE UNCHANGED <<inflight, stale>>
  /\ Answer(w, code[w])
  /\ UNCHANGED <<idem, outlived, excused, wedged, straggled, mem, disk, attempts>>

\* The marker of the key is removed, whoever set it, and the answer is sent.
ReleaseMarker(w) ==
  /\ pc[w] = "release"
  /\ inflight' = inflight \ {req[w]} /\ stale' = stale \ {req[w]}
  /\ Answer(w, code[w])
  /\ UNCHANGED <<idem, outlived, excused, wedged, straggled, mem, disk, attempts>>

\* 60 seconds pass while a handler runs.
Outlive(r) ==
  /\ Outlives /\ r \in inflight \ stale
  /\ stale' = stale \cup {r} /\ outlived' = outlived \cup {r} /\ Excuse({r})
  /\ UNCHANGED <<pc, req, code, idem, inflight, wedged, straggled, mem, disk, attempts, answers>>

\* kill -9 and restart: the markers and the wedge are gone, memory is what the
\* disk holds, the attempts in progress are cut off.  (A log that a straggler
\* left with a bad line before its last does not open: it is cut by hand first.)
Restart ==
  /\ Crashes
  /\ pc' = [w \in Workers |-> "idle"]
  /\ req' = [w \in Workers |-> None]
  /\ code' = [w \in Workers |-> NoCode]
  /\ inflight' = {} /\ stale' = {} /\ wedged' = FALSE
  /\ mem' = disk
  /\ answers' = [r \in Requests |->
                   answers[r] \cup IF r \in {req[w] : w \in Workers} THEN {NoCode} ELSE {}]
  /\ Excuse({req[w] : w \in {v \in Workers : pc[v] = "record"}})
  /\ UNCHANGED <<idem, outlived, straggled, disk, attempts>>

Serve(w) ==
  \/ Gate(w) \/ Lookup(w) \/ Claim(w) \/ Ingest(w) \/ Feedback(w)
  \/ RecordResponse(w) \/ ReleaseMarker(w)

Next ==
  \/ \E w \in Workers : Serve(w) \/ \E r \in Requests : Receive(w, r)
  \/ \E r \in Requests : Outlive(r)
  \/ Restart

Spec == Init /\ [][Next]_vars

\* A thread of the pool that has a request goes on with it.
FairSpec == Spec /\ \A w \in Workers : WF_vars(Serve(w))

-----------------------------------------------------------------------------
TypeOK ==
  /\ pc \in [Workers -> {"idle", "gate", "lookup", "claim", "handle", "record", "release"}]
  /\ req \in [Workers -> Requests \cup {None}]
  /\ \A w \in Workers : pc[w] = "idle" <=> req[w] = None
  /\ code \in [Workers -> Codes \cup {NoCode}]
  /\ idem \in [Requests -> {NoCode, 200, 429}]
  /\ inflight \subseteq Requests /\ stale \subseteq inflight
  /\ outlived \subseteq excused /\ excused \subseteq Requests
  /\ wedged \in BOOLEAN /\ straggled \subseteq Requests
  /\ mem \in [Requests -> Nat] /\ disk \in [Requests -> Nat]
  /\ attempts \in [Requests -> 0 .. MaxAttempts]
  /\ answers \in [Requests -> SUBSET (Codes \cup {NoCode, 409, 503})]

\* "A 2xx from a mutating endpoint means the change is on disk" (serve.rs:9):
\* also when the 2xx is a replay, after crashes, failed writes and duplicates.
\* Only a batch that was past the gate when the log failed may be lost behind
\* the line that failed (DbWriters has the lines of that log); its 200 is stored
\* all the same, and answers every retry.
AckedOnDisk ==
  \A r \in Requests :
    200 \in answers[r] \cup {idem[r]} => disk[r] >= 1 \/ r \in straggled

\* "Concurrent duplicates are serialized in memory" (serve.rs:1733): two
\* workers are never between the marker and its removal for the same key,
\* unless a handler once outlived the marker of that key.
OneHandlerPerKey ==
  \A v, w \in Workers :
    v # w /\ {pc[v], pc[w]} \subseteq {"handle", "record", "release"}
      => req[v] # req[w] \/ req[v] \in outlived

\* A client that was only ever refused (429, 409, 503), and has no attempt in
\* progress, can be sure that nothing of its request was applied.
RefusedMeansUntouched ==
  \A r \in Requests :
    answers[r] \cap {200, 500, NoCode} = {} /\ (\A w \in Workers : req[w] # r) => mem[r] = 0

\* "At-least-once clients can never double-ingest or double-apply credit"
\* (README.md:117), and these are all the ways in which they do: the handler ran
\* into an error after it had an effect, its response was not recorded or the
\* process died before it was, it ran for longer than its marker lives, or a
\* duplicate had looked for the record before it was there and asked for the
\* marker when it was gone.
OnceUnlessExcused == \A r \in Requests : r \notin excused => disk[r] <= 1

\* No key stays locked out: an in-flight marker is removed in the end, though
\* it expires, is taken over, and is removed by another attempt.
MarkersReleased == \A r \in Requests : r \in inflight ~> r \notin inflight
=============================================================================
