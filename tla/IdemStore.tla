----------------------------- MODULE IdemStore -----------------------------
(***************************************************************************)
(* The store of final responses behind Idempotency-Key (engine.rs,         *)
(* IdemStore): a log of records, appended and fsynced before the response  *)
(* is sent, and the map it is loaded into - bounded by a number of keys,   *)
(* the oldest of which gives way, and by a time window.  When the log has  *)
(* grown long, it is rewritten from the map.                               *)
(*                                                                         *)
(* put() runs under the database's write lock, so that it is one step; a   *)
(* write that fails, and a kill, leave a part of a line in the log, which  *)
(* may end within a character.  A line is a record, or one that does not   *)
(* parse, or one that is not UTF-8, and has its newline or not.            *)
(***************************************************************************)
EXTENDS Naturals, Sequences, FiniteSets, SequencesExt, Functions

CONSTANTS
  Keys,        \* (endpoint, Idempotency-Key)
  Cap,         \* IDEM_CAP
  Window,      \* IDEM_WINDOW_MS
  Factor, MinLines, \* the log is rewritten beyond max(Factor * Cap, MinLines) lines
  WritesFail,  \* writes may fail
  MaxTime, MaxPuts, MaxFaults \* bounds

ASSUME IdemStoreAssumption ==
  /\ {Cap, Window, Factor, MinLines} \subseteq Nat /\ WritesFail \in BOOLEAN
  /\ {MaxTime, MaxPuts, MaxFaults} \subseteq Nat

VARIABLES
  now,      \* now_ms()
  file,     \* <sidecar>.idem.jsonl
  running,  \* a store is open on it
  map,      \* key -> [code, at]
  order,    \* keys, the oldest first
  lines,    \* lines in the file, as the store counts them
  puts,     \* calls of put(): [key, at, ok] (history)
  unsafe,   \* keys whose record a restart does not find (history)
  again,    \* keys put while the map or the log still held an older record of them (history)
  faults    \* failed calls and kills so far (history)

storeVars == <<now, file, running, map, order, lines, puts, unsafe, again, faults>>

-----------------------------------------------------------------------------
Record(k, c, t) == [key |-> k, code |-> c, at |-> t]

\* A line, of the records it parses to (one, or none).
Line(recs, text, nl) == [recs |-> recs, text |-> text, nl |-> nl]

Ragged == file # <<>> /\ ~file[Len(file)].nl

\* A line appended behind one without its newline is a part of that one.
Put(ln) ==
  IF Ragged
  THEN [file EXCEPT ![Len(file)] = Line(<<>>, @.text /\ ln.text, ln.nl)]
  ELSE Append(file, ln)

\* What is read: BufRead::lines() fails at the first line that is not UTF-8.
Readable(f) ==
  LET bad == {i \in 1 .. Len(f) : ~f[i].text}
  IN IF bad = {} THEN f ELSE SubSeq(f, 1, (CHOOSE i \in bad : \A j \in bad : i <= j) - 1)

Expired(t) == now - t > Window

\* Mutant of Insert: a key that is stored again is queued again.
InsertTwice(s, r) ==
  [map   |-> [k \in DOMAIN s.map \cup {r.key} |->
                IF k = r.key THEN [code |-> r.code, at |-> r.at] ELSE s.map[k]],
   order |-> Append(s.order, r.key)]

\* A map and the order of its keys, with a record added.
Insert(s, r) ==
  [map   |-> [k \in DOMAIN s.map \cup {r.key} |->
                IF k = r.key THEN [code |-> r.code, at |-> r.at] ELSE s.map[k]],
   order |-> IF r.key \in DOMAIN s.map THEN s.order ELSE Append(s.order, r.key)]

\* Mutant of Bounded: it is the newest that gives way.
BoundedFromBehind(s) ==
  LET kept == SubSeq(s.order, 1, IF Len(s.order) > Cap THEN Cap ELSE Len(s.order))
  IN [map |-> Restrict(s.map, ToSet(kept)), order |-> kept]

\* The oldest keys give way until there are Cap of them.
Bounded(s) ==
  LET kept == SubSeq(s.order, IF Len(s.order) > Cap THEN Len(s.order) - Cap + 1 ELSE 1, Len(s.order))
  IN [map |-> Restrict(s.map, ToSet(kept)), order |-> kept]

Empty == [map |-> [k \in {} |-> 0], order |-> <<>>]

Records(f) == UNION {ToSet(f[i].recs) : i \in 1 .. Len(f)}

Read(s, line) ==
  IF line.recs = <<>> \/ Expired(Head(line.recs).at) THEN s ELSE Insert(s, Head(line.recs))

\* open(): the records within the window, a later one of a key over an earlier.
Loaded(f) ==
  LET seen == Readable(f)
      load[n \in 0 .. Len(seen)] == IF n = 0 THEN Empty ELSE Read(load[n - 1], seen[n])
  IN Bounded(load[Len(seen)])

NoResponse == 0

\* get()
Get(k) == IF k \notin DOMAIN map THEN NoResponse
          ELSE IF Expired(map[k].at) THEN NoResponse ELSE map[k].code

Remember(s) == map' = s.map /\ order' = s.order

StoreInit ==
  /\ now = 0 /\ file = <<>> /\ running = TRUE
  /\ map = Empty.map /\ order = <<>> /\ lines = 0
  /\ puts = <<>> /\ unsafe = {} /\ again = {} /\ faults = 0

-----------------------------------------------------------------------------
\* Each call stores a response of its own.
This == Len(puts) + 1

Fault == faults < MaxFaults /\ faults' = faults + 1

Called(k, ok) ==
  /\ running /\ Len(puts) < MaxPuts
  /\ puts' = Append(puts, [key |-> k, at |-> now, ok |-> ok])
  /\ again' = IF \/ k \in DOMAIN map
                 \/ \E r \in Records(file) : r.key = k
              THEN again \cup {k} ELSE again
  /\ IF ok THEN UNCHANGED faults ELSE WritesFail /\ Fault
  /\ UNCHANGED <<now, running>>

\* Whether a restart reads the record of k that is appended.
Noted(k) ==
  unsafe' = IF Ragged \/ Readable(file) # file
            THEN unsafe \cup {k} ELSE unsafe \ {k}

Long(n) == n > Factor * Cap /\ n > MinLines

Whole(k) == Line(<<Record(k, This, now)>>, TRUE, TRUE)

With(k) == Bounded(Insert([map |-> map, order |-> order], Record(k, This, now)))

\* put() of a log that is not long yet, or that cannot be rewritten.
PutAppends(k) ==
  /\ Called(k, ~Long(lines + 1))
  /\ file' = Put(Whole(k)) /\ lines' = lines + 1
  /\ Remember(With(k))
  /\ Noted(k)

RecordOf(s, k) == Record(k, s.map[k].code, s.map[k].at)

\* compact(): the map in its order.
Rewritten(s) == [i \in 1 .. Len(s.order) |-> Line(<<RecordOf(s, s.order[i])>>, TRUE, TRUE)]

\* put() that makes the log too long: it is written anew beside it and renamed.
PutCompacts(k) ==
  LET s == With(k)
  IN /\ Called(k, TRUE) /\ Long(lines + 1)
     /\ Remember(s)
     /\ file' = Rewritten(s) /\ lines' = Len(file')
     /\ unsafe' = unsafe \ {k}

\* What a failed or interrupted append leaves: nothing, a part of the line (that
\* may end within a character), or all of it, with its newline or without.
Interrupted(k) ==
  {file} \cup {Put(ln) : ln \in {Line(<<>>, TRUE, FALSE), Line(<<>>, FALSE, FALSE),
                                 Line(Whole(k).recs, TRUE, FALSE), Whole(k)}}

\* put() fails in the append or in the fsync, and nothing is remembered.
PutFails(k) ==
  /\ Called(k, FALSE)
  /\ file' \in Interrupted(k)
  /\ UNCHANGED <<map, order, lines, unsafe>>

\* kill -9, perhaps within put().
Kill ==
  /\ running /\ running' = FALSE /\ Fault
  /\ \/ UNCHANGED <<file, puts, again>>
     \/ \E k \in Keys :
          /\ Len(puts) < MaxPuts
          /\ puts' = Append(puts, [key |-> k, at |-> now, ok |-> FALSE])
          /\ again' = again \cup {k}
          /\ \/ file' \in Interrupted(k)
             \/ Long(lines + 1) /\ file' = Rewritten(With(k))
  /\ map' = Empty.map /\ order' = <<>> /\ lines' = 0
  /\ UNCHANGED <<now, unsafe>>

Open ==
  /\ ~running /\ running' = TRUE
  /\ Remember(Loaded(file)) /\ lines' = Len(Readable(file))
  /\ UNCHANGED <<now, file, puts, unsafe, again, faults>>

Tick ==
  /\ now < MaxTime /\ now' = now + 1
  /\ UNCHANGED <<file, running, map, order, lines, puts, unsafe, again, faults>>

StoreNext ==
  \/ \E k \in Keys : PutAppends(k) \/ PutCompacts(k) \/ PutFails(k)
  \/ Kill \/ Open \/ Tick

StoreSpec == StoreInit /\ [][StoreNext]_storeVars

-----------------------------------------------------------------------------
StoreTypeOK ==
  /\ now \in 0 .. MaxTime /\ running \in BOOLEAN /\ lines \in Nat
  /\ \A i \in 1 .. Len(file) :
       /\ file[i].nl \in BOOLEAN /\ file[i].text \in BOOLEAN
       /\ ToSet(file[i].recs) \subseteq [key : Keys, code : 1 .. MaxPuts, at : 0 .. now]
  /\ ToSet(order) = DOMAIN map /\ IsInjective(order) /\ Len(order) <= Cap
  /\ unsafe \cup again \subseteq Keys /\ faults \in 0 .. MaxFaults

Latest(i) == \A j \in i + 1 .. Len(puts) : puts[j].key # puts[i].key

\* "An acked write whose dedup record was lost would double-apply on the
\* client's post-crash retry, which is exactly the failure class this prevents"
\* (engine.rs:79): within the window, and while no more than Cap keys have come
\* since, a response that was stored is found, through failures, restarts and
\* rewrites of the log - unless its line was appended to a torn one, or the log
\* or the map still held an older record of its key.
StoredIsFound ==
  running => \A i \in 1 .. Len(puts) :
    /\ puts[i].ok /\ Latest(i) /\ ~Expired(puts[i].at)
    /\ Cardinality({puts[j].key : j \in i .. Len(puts)}) <= Cap
    /\ puts[i].key \notin unsafe \cup again
    => Get(puts[i].key) = i

\* A retry is answered with the response of the last call, or of one that came
\* after it and failed half-way: never with an older one (engine.rs:126: a later
\* line of a key replaces an earlier), and never beyond the window.
LastIsFound ==
  running => \A k \in Keys :
    Get(k) # NoResponse =>
      LET i == Get(k) IN
        /\ puts[i].key = k /\ ~Expired(puts[i].at)
        /\ k \in unsafe \/ \A j \in i + 1 .. Len(puts) : puts[j].key = k => ~puts[j].ok

RetriesAnswered == StoredIsFound /\ LastIsFound
=============================================================================
