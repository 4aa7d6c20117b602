------------------------------ MODULE Registry ------------------------------
(***************************************************************************)
(* The databases of one server (serve.rs): opened on demand under the      *)
(* registry's lock, evicted when there are too many or they take too much  *)
(* memory, dropped with their directory, visited by the maintenance        *)
(* thread, closed at shutdown.  Requests hold an Arc of the database they  *)
(* are for; a database that only the registry holds is idle and may be     *)
(* closed.                                                                 *)
(*                                                                         *)
(* A write is a number: a fact (/ingest), or a lesson (/touch, /feedback). *)
(* The file system per database is a record: the directory, the log with   *)
(* its facts, the sidecar with its lessons, config.json.  The WAL does not *)
(* fail here (see Wal); sizes are counted in facts.                        *)
(***************************************************************************)
EXTENDS Naturals, Sequences, FiniteSets, SequencesExt

CONSTANTS
  Dbs, Default,   \* names; the one that is opened at startup
  Workers,        \* threads of the server
  Engines,        \* identities of open engines
  None,           \* no engine, no thread
  MaxOpens,       \* values of max_open_dbs the server is started with
  MaxMem,         \* max_mem_bytes, 0 for none
  Quota,          \* max_db_edges, 0 for none
  Requests,       \* what is sent: pairs of a database and an operation
  Crashes,        \* the process may be killed
  BatchSize,      \* facts in an ingest
  MaxWrites       \* bound: writes in a model-checking run

Ops == {"read", "create", "ingest", "touch", "feedback", "config", "drop"}

ASSUME RegistryAssumption ==
  /\ Default \in Dbs /\ Requests \subseteq Dbs \X Ops /\ None \notin Engines \cup Workers
  /\ IsFiniteSet(Workers) /\ IsFiniteSet(Engines)
  \* an identity is always free for the engine that is opened next
  /\ \A n \in MaxOpens : n < Cardinality(Engines)
  /\ MaxOpens \subseteq Nat \ {0} /\ BatchSize \in Nat /\ MaxMem \in Nat /\ Quota \in Nat /\ MaxWrites \in Nat
  /\ Crashes \in BOOLEAN

VARIABLES
  maxOpen,  \* max_open_dbs the server was started with, 0 if there is none running
  map,      \* Registry.dbs: the open engines, the least recently used first
  eng,      \* the engines: database, content in memory, is the log's file still in the directory
  disk,     \* per database, what its directory holds
  pc, job,  \* what each worker does, for which request
  holds,    \* the engine whose Arc it holds
  maint,    \* the engines whose Arcs the maintenance thread holds
  toUnlink, \* files that a worker's remove_dir_all has still to remove
  writes,   \* writes so far (history)
  acked,    \* per database, writes answered 200, but touches lost since (history)
  exposed   \* databases opened while they were being dropped, or killed at a bad moment (history)

process == <<pc, job, holds, toUnlink>>
history == <<writes, acked, exposed>>
vars == <<maxOpen, map, eng, disk, process, maint, history>>

NoJob == [db |-> Default, op |-> "none"]
Closed == [db |-> Default, facts |-> {}, learned |-> {}, quarantined |-> FALSE, linked |-> FALSE]
NoDir == [dir |-> FALSE, wal |-> "none", facts |-> {}, sidecar |-> "none", saved |-> {},
          config |-> "none"]
NoAcks == [facts |-> {}, lessons |-> {}, touches |-> {}, quarantined |-> FALSE]

Idle(i) == i \notin maint /\ \A w \in Workers : holds[w] # i
Live == {i \in Engines : i \in ToSet(map) \/ ~Idle(i)}
OpenFor(d) == {i \in ToSet(map) : eng[i].db = d}

\* The map without one of its engines, and with one just used.
Without(m, i) == RemoveAt(m, CHOOSE k \in DOMAIN m : m[k] = i)
Used(m, i) == Append(Without(m, i), i)

\* Mutant of Victims: databases in use are evicted, too.
AnyVictims == ToSet(map)

\* Databases that only the map holds, and the least recently used of them.
Victims == {i \in ToSet(map) : Idle(i)}
Victim == map[Min({k \in DOMAIN map : map[k] \in Victims})]

\* Mutant of Closing: what is still buffered is lost.
ClosingUnflushed(i) == disk

\* An engine that nobody holds any more is dropped: its buffer, at most the
\* header of a new log, is written.
Closing(i) == IF Idle(i) /\ eng[i].linked THEN [disk EXCEPT ![eng[i].db].wal = "headed"] ELSE disk
WithoutEngine(i) == IF Idle(i) THEN [eng EXCEPT ![i] = Closed] ELSE eng
WithoutTouches(d) == [acked EXCEPT ![d].touches = @ \cap disk[d].saved]

-----------------------------------------------------------------------------
Goto(w, l) == pc' = [pc EXCEPT ![w] = l]
Hold(w, i) == holds' = [holds EXCEPT ![w] = i]

\* The response is sent and the Arc let go.
Answer(w) ==
  /\ Goto(w, "idle") /\ Hold(w, None)
  /\ job' = [job EXCEPT ![w] = NoJob] /\ toUnlink' = [toUnlink EXCEPT ![w] = {}]

\* Where a request goes when it has its database (route, check_capacity).
Entry(op) ==
  IF op = "ingest" THEN "capacity" ELSE "handle"

Init ==
  /\ maxOpen = 0 /\ map = <<>>
  /\ eng = [i \in Engines |-> Closed]
  /\ disk = [d \in Dbs |-> NoDir]
  /\ pc = [w \in Workers |-> "idle"] /\ job = [w \in Workers |-> NoJob]
  /\ holds = [w \in Workers |-> None] /\ toUnlink = [w \in Workers |-> {}]
  /\ maint = {}
  /\ writes = 0 /\ acked = [d \in Dbs |-> NoAcks] /\ exposed = {}

-----------------------------------------------------------------------------
(* open_engine_at.  A log without header gets a new id, which reaches the  *)
(* file with the first flush; a sidecar that was saved for another id is   *)
(* refused.                                                                *)

NewLog(d) == disk[d].wal \in {"none", "empty"}
Refused(d) == disk[d].sidecar = "foreign" \/ (NewLog(d) /\ disk[d].sidecar # "none")
Locked(d) == \E i \in Live : eng[i].db = d /\ eng[i].linked
Opens(d) == ~Refused(d) /\ ~Locked(d) /\ disk[d].config # "torn"

Opened(d) ==
  [db |-> d, facts |-> disk[d].facts, learned |-> disk[d].saved,
   quarantined |-> disk[d].config = "good", linked |-> TRUE]
WithLog(dsk, d) ==
  [dsk EXCEPT ![d].dir = TRUE, ![d].wal = IF @ = "none" THEN "empty" ELSE @]
\* The refused engine is dropped: its header, with the new id, is written.
WithStrangeLog(dsk, d) ==
  [dsk EXCEPT ![d].dir = TRUE, ![d].wal = "headed",
              ![d].sidecar = IF @ = "none" THEN @ ELSE "foreign"]

Dropping(d) == \E w \in Workers : pc[w] = "unlink" /\ job[w].db = d

NewEngine == CHOOSE i \in Engines : i \notin Live

\* run: the default database is opened before the server listens, or there is
\* no server.
Start ==
  /\ maxOpen = 0 /\ Opens(Default)
  /\ maxOpen' \in MaxOpens
  /\ map' = <<NewEngine>> /\ eng' = [eng EXCEPT ![NewEngine] = Opened(Default)]
  /\ disk' = WithLog(disk, Default)
  /\ UNCHANGED <<process, maint, history>>

\* A request arrives; resolve asks the map under the read lock.  A request to
\* drop does not resolve.
Receive(w, d, op) ==
  /\ maxOpen > 0 /\ pc[w] = "idle"
  /\ job' = [job EXCEPT ![w] = [db |-> d, op |-> op]]
  /\ \/ op = "drop" /\ Goto(w, "drop") /\ UNCHANGED <<holds, map>>
     \/ /\ op # "drop" /\ OpenFor(d) = {}
        /\ Goto(w, "open") /\ UNCHANGED <<holds, map>>
     \/ /\ op # "drop"
        /\ \E i \in OpenFor(d) : Hold(w, i) /\ map' = Used(map, i)
        /\ Goto(w, Entry(op))
  /\ UNCHANGED <<maxOpen, eng, disk, toUnlink, maint, history>>

\* resolve under the write lock of the map: another request may have opened
\* the database by now.
ResolveHit(w) ==
  /\ pc[w] = "open"
  /\ \E i \in OpenFor(job[w].db) : Hold(w, i) /\ map' = Used(map, i)
  /\ Goto(w, Entry(job[w].op))
  /\ UNCHANGED <<maxOpen, job, toUnlink, eng, disk, maint, history>>

\* Only a request to create makes a directory, or one for the default database.
Exists(w) == disk[job[w].db].dir \/ job[w].op = "create" \/ job[w].db = Default
\* Mutant of Full: one too many.
NearlyFull == Len(map) > maxOpen

Full == Len(map) >= maxOpen

\* Refused before anything is closed: unknown, bad config, or no room.
ResolveRefused(w) ==
  LET d == job[w].db
  IN /\ pc[w] = "open" /\ OpenFor(d) = {}
     /\ \/ ~Exists(w) /\ UNCHANGED disk
        \/ /\ Exists(w)
           /\ disk[d].config = "torn" \/ (Full /\ Victims = {})
           /\ disk' = [disk EXCEPT ![d].dir = TRUE]
     /\ Answer(w)
     /\ UNCHANGED <<maxOpen, map, eng, maint, history>>

\* Room is made by closing the idle database least recently used, and the engine
\* is opened; or it is refused, and the room stays.
ResolveOpens(w) ==
  LET d == job[w].db
      v == Victim
      kept == IF Full THEN Without(map, v) ELSE map
      closed == IF Full THEN WithoutEngine(v) ELSE eng
      left == IF Full THEN Closing(v) ELSE disk
  IN /\ pc[w] = "open" /\ OpenFor(d) = {}
     /\ Exists(w) /\ disk[d].config # "torn" /\ (Full => Victims # {})
     /\ \/ /\ Opens(d)
           /\ LET i == NewEngine
              IN map' = Append(kept, i) /\ Hold(w, i) /\ eng' = [closed EXCEPT ![i] = Opened(d)]
           /\ disk' = WithLog(left, d)
           /\ Goto(w, Entry(job[w].op)) /\ UNCHANGED <<job, toUnlink>>
        \/ /\ ~Opens(d)
           /\ map' = kept /\ eng' = closed
           /\ disk' = IF Locked(d) THEN left ELSE WithStrangeLog(left, d)
           /\ Answer(w)
     /\ acked' = IF Full THEN WithoutTouches(eng[v].db) ELSE acked
     /\ exposed' = exposed \cup IF Dropping(d) THEN {d} ELSE {}
     /\ UNCHANGED <<maxOpen, maint, writes>>

-----------------------------------------------------------------------------
(* check_capacity, for /ingest.                                            *)

Size(i) == BatchSize * Cardinality(eng[i].facts)

\* open_bytes: the sum over the databases that no writer has locked just now.
MaybeLocked(w) ==
  maint \cup {holds[x] : x \in {y \in Workers \ {w} : pc[y] \in {"handle", "configure"}}}
OpenBytes(w) ==
  {MapThenSumSet(Size, ToSet(map) \ skipped) : skipped \in SUBSET (MaybeLocked(w) \cap ToSet(map))}

Capacity(w) ==
  LET over == Quota > 0 /\ Size(holds[w]) >= Quota
  IN /\ pc[w] = "capacity"
     /\ \/ over /\ Answer(w)
        \/ /\ ~over
           /\ \E bytes \in OpenBytes(w) :
                Goto(w, IF MaxMem > 0 /\ bytes >= MaxMem THEN "evict" ELSE "handle")
           /\ UNCHANGED <<job, holds, toUnlink>>
     /\ UNCHANGED <<maxOpen, map, eng, disk, maint, history>>

\* evict_until: one round of its loop.
Evict(w) ==
  /\ pc[w] = "evict"
  /\ \E bytes \in OpenBytes(w) :
       IF bytes <= MaxMem \/ Victims = {}
       THEN Goto(w, "recheck") /\ UNCHANGED <<map, eng, disk, acked>>
       ELSE /\ LET v == Victim
               IN /\ map' = Without(map, v) /\ disk' = Closing(v) /\ eng' = WithoutEngine(v)
                  /\ acked' = WithoutTouches(eng[v].db)
            /\ UNCHANGED pc
  /\ UNCHANGED <<maxOpen, job, holds, toUnlink, maint, writes, exposed>>

\* Still at the budget: the ingest is shed.
Recheck(w) ==
  /\ pc[w] = "recheck"
  /\ \E bytes \in OpenBytes(w) :
       \/ bytes >= MaxMem /\ Answer(w)
       \/ bytes < MaxMem /\ Goto(w, "handle") /\ UNCHANGED <<job, holds, toUnlink>>
  /\ UNCHANGED <<maxOpen, map, eng, disk, maint, history>>

-----------------------------------------------------------------------------
(* The handlers, under the engine's lock.                                  *)

Configuring(i) == \E w \in Workers : pc[w] = "configure" /\ holds[w] = i
Handling(w, op) == pc[w] = "handle" /\ job[w].op = op /\ ~Configuring(holds[w])

\* What a write adds: nothing, if it says what is known, or names no edge.
News == IF writes < MaxWrites THEN {writes + 1} ELSE {}

\* A read, or the answer that a database was created: it only holds the Arc.
Read(w) ==
  /\ Handling(w, "read") \/ Handling(w, "create")
  /\ Answer(w)
  /\ UNCHANGED <<maxOpen, map, eng, disk, maint, history>>

\* Journalled and fsynced - in a file that may have lost its name.
Ingest(w) ==
  LET d == job[w].db  i == holds[w]  new == News
  IN /\ Handling(w, "ingest")
     /\ writes' = writes + Cardinality(new)
     /\ eng' = [eng EXCEPT ![i].facts = @ \cup new]
     /\ disk' = IF eng[i].linked
                THEN [disk EXCEPT ![d].facts = @ \cup new, ![d].wal = "headed"] ELSE disk
     /\ acked' = [acked EXCEPT ![d].facts = @ \cup new]
     /\ Answer(w)
     /\ UNCHANGED <<maxOpen, map, maint, exposed>>

\* Learned in memory; nothing is saved.
Touch(w) ==
  LET i == holds[w]  new == News
  IN /\ Handling(w, "touch")
     /\ writes' = writes + Cardinality(new)
     /\ eng' = [eng EXCEPT ![i].learned = @ \cup new]
     /\ acked' = [acked EXCEPT ![job[w].db].touches = @ \cup new]
     /\ Answer(w)
     /\ UNCHANGED <<maxOpen, map, disk, maint, exposed>>

\* Mutant of Saved: a log without header has nothing to save yet.
SavedIfHeaded(dsk, e) ==
  IF dsk[e.db].dir /\ dsk[e.db].wal = "headed"
  THEN [dsk EXCEPT ![e.db].sidecar = IF e.linked THEN "own" ELSE "foreign", ![e.db].saved = e.learned]
  ELSE dsk

\* save_sidecar: with the id of the engine's log, by the directory's name.
Saved(dsk, e) ==
  IF dsk[e.db].dir
  THEN [dsk EXCEPT ![e.db].sidecar = IF e.linked THEN "own" ELSE "foreign", ![e.db].saved = e.learned]
  ELSE dsk

\* Learned in memory and saved: 200, or 500 if there is no directory.
Feedback(w) ==
  LET d == job[w].db  i == holds[w]  new == News
  IN /\ Handling(w, "feedback")
     /\ writes' = writes + Cardinality(new)
     /\ eng' = [eng EXCEPT ![i].learned = @ \cup new]
     /\ disk' = Saved(disk, eng'[i])
     /\ acked' = IF disk[d].dir THEN [acked EXCEPT ![d].lessons = @ \cup new] ELSE acked
     /\ Answer(w)
     /\ UNCHANGED <<maxOpen, map, maint, exposed>>

\* PUT /config and /quarantine: in force at once; then config.json is truncated
\* and written in place.
Configure(w) ==
  LET d == job[w].db
  IN /\ Handling(w, "config")
     /\ eng' = [eng EXCEPT ![holds[w]].quarantined = TRUE]
     /\ \/ /\ disk[d].dir
           /\ disk' = [disk EXCEPT ![d].config = "torn"]
           /\ Goto(w, "configure") /\ UNCHANGED <<job, holds, toUnlink>>
        \/ ~disk[d].dir /\ Answer(w) /\ UNCHANGED disk
     /\ UNCHANGED <<maxOpen, map, maint, history>>

Configured(w) ==
  LET d == job[w].db
  IN /\ pc[w] = "configure"
     /\ disk' = IF disk[d].config = "torn" THEN [disk EXCEPT ![d].config = "good"] ELSE disk
     /\ acked' = [acked EXCEPT ![d].quarantined = TRUE]
     /\ Answer(w)
     /\ UNCHANGED <<maxOpen, map, eng, maint, writes, exposed>>

-----------------------------------------------------------------------------
(* drop_db: out of the map under its lock, then the directory without it.  *)

Files(d) ==
  {f \in {"wal", "sidecar", "config"} : disk[d][f] # "none"}

DropBusy(d) == \E i \in OpenFor(d) : ~Idle(i)

Drop(w) ==
  LET d == job[w].db
  IN /\ pc[w] = "drop"
     /\ \/ DropBusy(d) /\ Answer(w) /\ UNCHANGED <<map, eng, disk, acked>>
        \/ /\ ~DropBusy(d)
           /\ IF OpenFor(d) = {} THEN UNCHANGED <<map, eng, disk>>
              ELSE \E i \in OpenFor(d) :
                     map' = Without(map, i) /\ eng' = WithoutEngine(i) /\ disk' = Closing(i)
           /\ acked' = [acked EXCEPT ![d] = NoAcks]
           /\ IF disk[d].dir
              THEN /\ toUnlink' = [toUnlink EXCEPT ![w] = Files(d)]
                   /\ Goto(w, "unlink") /\ UNCHANGED <<job, holds>>
              ELSE Answer(w)
     /\ UNCHANGED <<maxOpen, maint, writes, exposed>>

\* remove_dir_all: the files in any order, also those that appear meanwhile.
Unlink(w, f) ==
  LET d == job[w].db
  IN /\ pc[w] = "unlink" /\ f \in Files(d)
     /\ toUnlink' = [toUnlink EXCEPT ![w] = @ \ {f}]
     /\ disk' = CASE f = "wal" ->
                       [disk EXCEPT ![d].wal = "none", ![d].facts = {},
                                    ![d].sidecar = IF @ = "own" THEN "foreign" ELSE @]
                  [] f = "sidecar" -> [disk EXCEPT ![d].sidecar = "none", ![d].saved = {}]
                  [] f = "config" -> [disk EXCEPT ![d].config = "none"]
     /\ eng' = IF f = "wal"
               THEN [i \in Engines |-> IF eng[i].db = d THEN [eng[i] EXCEPT !.linked = FALSE] ELSE eng[i]]
               ELSE eng
     /\ UNCHANGED <<maxOpen, map, pc, job, holds, maint, history>>

\* The directory goes if it is empty: 200; or it stays: 500.
Rmdir(w) ==
  LET d == job[w].db
  IN /\ pc[w] = "unlink" /\ toUnlink[w] \cap Files(d) = {}
     /\ disk' = IF Files(d) = {} THEN [disk EXCEPT ![d] = NoDir] ELSE disk
     /\ exposed' = IF Files(d) = {} /\ OpenFor(d) = {} /\ acked[d] = NoAcks THEN exposed \ {d}
                   ELSE exposed
     /\ Answer(w)
     /\ UNCHANGED <<maxOpen, map, eng, maint, writes, acked>>

-----------------------------------------------------------------------------
\* maintenance_loop: a task is due; the Arcs of all open databases are cloned.
MaintenanceDue ==
  /\ maxOpen > 0 /\ maint = {} /\ map # <<>>
  /\ maint' = ToSet(map)
  /\ UNCHANGED <<maxOpen, map, eng, disk, process, history>>

\* One database after the other: the sidecar is saved at least; an error is
\* logged.
Maintain(i) ==
  /\ i \in maint /\ ~Configuring(i)
  /\ disk' = Saved(disk, eng[i])
  /\ maint' = maint \ {i}
  /\ UNCHANGED <<maxOpen, map, eng, process, history>>

\* flush_all: the log, then the sidecar, of each open database.
Flushed ==
  [d \in Dbs |->
     LET es == OpenFor(d)
         e == eng[CHOOSE i \in es : TRUE]
     IN IF es = {} THEN disk[d]
        ELSE [Saved(disk, e)[d] EXCEPT !.wal = IF e.linked THEN "headed" ELSE @]]

\* SIGTERM: the workers answer what they have, the threads are joined, and all
\* is flushed.
Shutdown ==
  /\ maxOpen > 0 /\ maint = {} /\ \A w \in Workers : pc[w] = "idle"
  /\ disk' = Flushed
  /\ maxOpen' = 0 /\ map' = <<>> /\ eng' = [i \in Engines |-> Closed]
  /\ UNCHANGED <<process, maint, history>>

\* kill -9: a config.json is left half written, a directory half removed, or a
\* sidecar is left that names a log whose header never reached the file.
Crash ==
  /\ Crashes /\ maxOpen > 0
  /\ maxOpen' = 0 /\ map' = <<>> /\ eng' = [i \in Engines |-> Closed] /\ maint' = {}
  /\ pc' = [w \in Workers |-> "idle"] /\ job' = [w \in Workers |-> NoJob]
  /\ holds' = [w \in Workers |-> None] /\ toUnlink' = [w \in Workers |-> {}]
  /\ LET headless == {d \in Dbs : disk[d].wal = "empty" /\ disk[d].sidecar # "none"}
     IN /\ disk' = [d \in Dbs |->
                      IF d \in headless THEN [disk[d] EXCEPT !.sidecar = "foreign"] ELSE disk[d]]
        /\ exposed' = exposed \cup headless
                        \cup {job[w].db : w \in {x \in Workers : pc[x] \in {"configure", "unlink"}}}
  /\ acked' = [d \in Dbs |-> WithoutTouches(d)[d]]
  /\ UNCHANGED writes

Serve(w) ==
  \/ ResolveHit(w) \/ ResolveRefused(w) \/ ResolveOpens(w)
  \/ Capacity(w) \/ Evict(w) \/ Recheck(w)
  \/ Read(w) \/ Ingest(w) \/ Touch(w) \/ Feedback(w) \/ Configure(w) \/ Configured(w)
  \/ Drop(w) \/ (\E f \in Files(job[w].db) : Unlink(w, f)) \/ Rmdir(w)

Next ==
  \/ \E w \in Workers : Serve(w) \/ \E r \in Requests : Receive(w, r[1], r[2])
  \/ MaintenanceDue \/ \E i \in Engines : Maintain(i)
  \/ Start \/ Shutdown \/ Crash

Spec == Init /\ [][Next]_vars

-----------------------------------------------------------------------------
TypeOK ==
  /\ maxOpen \in MaxOpens \cup {0} /\ ToSet(map) \subseteq Engines /\ Len(map) <= maxOpen
  /\ \A i \in Engines : /\ eng[i].db \in Dbs /\ eng[i].facts \cup eng[i].learned \subseteq 1 .. writes
                        /\ eng[i].quarantined \in BOOLEAN /\ eng[i].linked \in BOOLEAN
  /\ \A d \in Dbs : /\ disk[d].dir \in BOOLEAN /\ disk[d].wal \in {"none", "empty", "headed"}
                    /\ disk[d].sidecar \in {"none", "own", "foreign"}
                    /\ disk[d].config \in {"none", "torn", "good"}
                    /\ disk[d].facts \cup disk[d].saved \subseteq 1 .. writes
                    /\ ~disk[d].dir => disk[d] = NoDir
  /\ job \in [Workers -> [db : Dbs, op : Ops \cup {"none"}]]
  /\ holds \in [Workers -> Engines \cup {None}] /\ maint \subseteq Engines
  /\ writes \in 0 .. MaxWrites /\ exposed \subseteq Dbs

\* "idle: only the map holds it" (serve.rs:281): the engine of a request, or of
\* the maintenance thread, is the one the map has for its database, so that
\* whatever it learns is there for the next request and for flush_all.
InUseIsOpen ==
  /\ \A w \in Workers : holds[w] # None => OpenFor(job[w].db) = {holds[w]}
  /\ maint \subseteq ToSet(map)

\* "A 2xx from a mutating endpoint means the change is on disk" (serve.rs:9),
\* where the next open looks for it, through evictions, drops, shutdowns and
\* kills; but a database may be opened again while its directory is being
\* removed (serve.rs:1269), or killed while its config is written.
AckedFound ==
  \A d \in Dbs \ exposed :
    /\ acked[d].facts \subseteq disk[d].facts
    /\ acked[d].lessons \subseteq disk[d].saved
    /\ acked[d].quarantined =>
         disk[d].config = "good" \/ \E w \in Workers : pc[w] = "configure" /\ job[w].db = d

\* What /touch learned is answered and not saved (serve.rs:1862): it is kept
\* while the database is open, and by a shutdown; only an eviction and a kill
\* lose it.
TouchKept ==
  \A d \in Dbs \ exposed :
    /\ OpenFor(d) = {} => acked[d].touches \subseteq disk[d].saved
    /\ \A i \in OpenFor(d) : acked[d].touches \subseteq eng[i].learned

\* Nothing that was acknowledged is lost: on disk, or with the engine.
NothingLost == AckedFound /\ TouchKept

\* A database that is not open can be opened: its log, its sidecar and its
\* config belong together.
CanReopen(d) ==
  OpenFor(d) = {} /\ ~Dropping(d) => ~Refused(d) /\ disk[d].config # "torn"
ReopensUnlessExposed == \A d \in Dbs \ exposed : CanReopen(d)

\* "RTO: process start + WAL replay" (docs/runbook.md:75): after it was killed at
\* any moment, the server starts and opens its databases again.
Reopens == \A d \in Dbs : CanReopen(d)
=============================================================================
