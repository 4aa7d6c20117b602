--------------------------- MODULE RegistryProofs ---------------------------
(***************************************************************************)
(* Theorems about the databases of one server (Registry), for every set of *)
(* databases, workers and requests, and every limit of the configuration.  *)
(***************************************************************************)
EXTENDS Registry, FiniteSetTheorems, SequenceTheorems, WellFoundedInduction, TLAPS

-----------------------------------------------------------------------------
(* The inductive invariant. *)

Serving == {"capacity", "evict", "recheck", "handle", "configure"}
Labels == Serving \cup {"idle", "open", "drop", "unlink"}
FileNames == {"wal", "sidecar", "config"}
Engine ==
  [db : Dbs, facts : SUBSET Nat, learned : SUBSET Nat, quarantined : BOOLEAN, linked : BOOLEAN]
Directory ==
  [dir : BOOLEAN, wal : {"none", "empty", "headed"}, facts : SUBSET Nat,
   sidecar : {"none", "own", "foreign"}, saved : SUBSET Nat, config : {"none", "torn", "good"}]
Acks == [facts : SUBSET Nat, lessons : SUBSET Nat, touches : SUBSET Nat, quarantined : BOOLEAN]
Job == [db : Dbs, op : Ops \cup {"none"}]

Distinct(m) == \A j, k \in 1 .. Len(m) : m[j] = m[k] => j = k

Workings ==
  /\ pc \in [Workers -> Labels] /\ job \in [Workers -> Job]
  /\ holds \in [Workers -> Engines \cup {None}] /\ toUnlink \in [Workers -> SUBSET FileNames]
MapOK ==
  /\ maxOpen \in MaxOpens \cup {0} /\ map \in Seq(Engines) /\ Len(map) <= maxOpen
  /\ Distinct(map)
Histories == writes \in 0 .. MaxWrites /\ acked \in [Dbs -> Acks] /\ exposed \subseteq Dbs
Shape ==
  /\ Workings /\ MapOK /\ Histories
  /\ eng \in [Engines -> Engine] /\ disk \in [Dbs -> Directory]

\* Every fact and lesson is one that was written.
Known ==
  /\ \A i \in Engines : eng[i].facts \cup eng[i].learned \subseteq 1 .. writes
  /\ \A d \in Dbs : disk[d].facts \cup disk[d].saved \subseteq 1 .. writes

\* The map has one engine per database, with a log that has its name, and no
\* other engine is open.
OneEach ==
  /\ \A i, j \in ToSet(map) : eng[i].db = eng[j].db => i = j
  /\ \A i \in Engines \ ToSet(map) : eng[i] = Closed
Named ==
  /\ \A d \in Dbs : ~disk[d].dir => disk[d] = NoDir
  /\ \A i \in Engines : eng[i].linked => disk[eng[i].db].dir /\ disk[eng[i].db].wal # "none"

\* A request that has its database holds the engine of the map, and no other does.
Held ==
  /\ \A w \in Workers :
       IF pc[w] \in Serving
       THEN holds[w] \in ToSet(map) /\ eng[holds[w]].db = job[w].db
       ELSE holds[w] = None
  /\ maint \subseteq ToSet(map)

OneConfigures ==
  \A w, x \in Workers :
    pc[w] = "configure" /\ pc[x] = "configure" /\ job[w].db = job[x].db => w = x

ConfiguringDb(d) == \E w \in Workers : pc[w] = "configure" /\ job[w].db = d

\* Of a database that is being dropped nothing is open, promised or new.
DroppedWhole(d) ==
  Dropping(d) =>
    /\ OpenFor(d) = {} /\ acked[d] = NoAcks
    /\ \A w \in Workers : pc[w] = "unlink" /\ job[w].db = d => Files(d) \subseteq toUnlink[w]

\* What was promised is in the files, and in memory what would replace them.
Promised(d) ==
  /\ acked[d].facts \subseteq disk[d].facts /\ acked[d].lessons \subseteq disk[d].saved
  /\ acked[d].quarantined => disk[d].config # "none"
  /\ OpenFor(d) = {} => acked[d].touches \subseteq disk[d].saved
  /\ \A i \in OpenFor(d) :
       eng[i].linked /\ acked[d].lessons \cup acked[d].touches \subseteq eng[i].learned

\* Log, sidecar and config belong together.
Matching(d) ==
  /\ disk[d].config = "torn" <=> ConfiguringDb(d)
  /\ ~Dropping(d) => disk[d].sidecar # "foreign"
  /\ ~Dropping(d) /\ OpenFor(d) = {} /\ NewLog(d) => disk[d].sidecar = "none"

Sound(d) == DroppedWhole(d) /\ Promised(d) /\ Matching(d)

Stopped == maxOpen = 0 => \A w \in Workers : pc[w] = "idle"

InUse == Shape /\ OneEach /\ Named /\ Held /\ Stopped
IInv == InUse /\ Known /\ OneConfigures /\ \A d \in Dbs \ exposed : Sound(d)

-----------------------------------------------------------------------------
(* Sequences without repetition, as the map is one. *)

LEMMA ToSetIs ==
  ASSUME NEW S, NEW m \in Seq(S)
  PROVE  /\ ToSet(m) = {m[k] : k \in 1 .. Len(m)} /\ ToSet(m) \subseteq S
         /\ \A k \in 1 .. Len(m) : m[k] \in ToSet(m)
         /\ \A i \in ToSet(m) : \E k \in 1 .. Len(m) : m[k] = i
         /\ Len(m) = 0 => ToSet(m) = {}
BY DEF ToSet

LEMMA AppendDistinct ==
  ASSUME NEW S, NEW m \in Seq(S), Distinct(m), NEW i \in S \ ToSet(m)
  PROVE  /\ Append(m, i) \in Seq(S) /\ Len(Append(m, i)) = Len(m) + 1
         /\ Distinct(Append(m, i)) /\ ToSet(Append(m, i)) = ToSet(m) \cup {i}
<1> DEFINE a == Append(m, i)
<1>1. /\ a \in Seq(S) /\ Len(a) = Len(m) + 1
      /\ \A k \in 1 .. Len(m) : a[k] = m[k] /\ a[k] # i
      /\ a[Len(m) + 1] = i
  BY ToSetIs
<1> HIDE DEF a
<1>2. Distinct(a)
  BY <1>1 DEF Distinct
<1>3. ToSet(a) = ToSet(m) \cup {i}
  <2>1. \A x : x \in ToSet(a) <=> \E k \in 1 .. Len(m) + 1 : a[k] = x
    BY <1>1, ToSetIs
  <2>2. \A x : x \in ToSet(m) <=> \E k \in 1 .. Len(m) : m[k] = x
    BY ToSetIs
  <2> QED
    BY <1>1, <2>1, <2>2
<1> QED
  BY <1>1, <1>2, <1>3 DEF a

LEMMA WithoutDistinct ==
  ASSUME NEW S, NEW m \in Seq(S), Distinct(m), NEW i \in ToSet(m)
  PROVE  /\ Without(m, i) \in Seq(S) /\ Len(Without(m, i)) = Len(m) - 1
         /\ Distinct(Without(m, i)) /\ ToSet(Without(m, i)) = ToSet(m) \ {i}
<1> DEFINE p == CHOOSE k \in DOMAIN m : m[k] = i
           a == Without(m, i)
<1>1. p \in 1 .. Len(m) /\ m[p] = i
  BY ToSetIs
<1> HIDE DEF p
<1>2. /\ a \in Seq(S) /\ Len(a) = Len(m) - 1
      /\ \A k \in 1 .. Len(m) - 1 : a[k] = m[IF k < p THEN k ELSE k + 1]
  <2> DEFINE before == SubSeq(m, 1, p - 1)
             behind == SubSeq(m, p + 1, Len(m))
  <2>1. a = before \o behind
    BY DEF Without, RemoveAt, p
  <2>2. /\ before \in Seq(S) /\ Len(before) = p - 1
        /\ behind \in Seq(S) /\ Len(behind) = Len(m) - p
        /\ \A k \in 1 .. p - 1 : before[k] = m[k]
        /\ \A k \in 1 .. Len(m) - p : behind[k] = m[p + k]
    BY <1>1
  <2> HIDE DEF a, before, behind
  <2>c. /\ a \in Seq(S) /\ Len(a) = Len(before) + Len(behind)
        /\ \A k \in 1 .. Len(before) + Len(behind) :
             a[k] = IF k <= Len(before) THEN before[k] ELSE behind[k - Len(before)]
    BY <2>1, <2>2, ConcatProperties, Zenon
  <2>l. p \in Nat /\ p >= 1 /\ p <= Len(m) /\ Len(m) \in Nat
    BY <1>1
  <2>3. a \in Seq(S) /\ Len(a) = Len(m) - 1
    BY <2>2, <2>c, <2>l
  <2>5. ASSUME NEW k \in 1 .. Len(m) - 1, k < p PROVE a[k] = m[k]
    <3>1. k \in 1 .. p - 1 /\ k \in 1 .. Len(before) + Len(behind) /\ k <= Len(before)
      BY <2>2, <2>5, <2>l
    <3> QED
      BY <2>2, <2>c, <3>1
  <2>4. ASSUME NEW k \in 1 .. Len(m) - 1, ~(k < p) PROVE a[k] = m[k + 1]
    <3>1. /\ k \in 1 .. Len(before) + Len(behind) /\ ~(k <= Len(before))
          /\ k - Len(before) \in 1 .. Len(m) - p /\ p + (k - Len(before)) = k + 1
      BY <2>2, <2>4, <2>l
    <3>2. a[k] = behind[k - Len(before)]
      BY <2>c, <3>1
    <3> QED
      BY <2>2, <3>1, <3>2
  <2> QED
    BY <2>3, <2>4, <2>5
<1> HIDE DEF a
<1>3. Distinct(a)
  <2> SUFFICES ASSUME NEW j \in 1 .. Len(m) - 1, NEW k \in 1 .. Len(m) - 1, a[j] = a[k], j < k PROVE FALSE
    BY <1>2 DEF Distinct
  <2> DEFINE from(n) == IF n < p THEN n ELSE n + 1
  <2>1. from(j) \in 1 .. Len(m) /\ from(k) \in 1 .. Len(m) /\ from(j) # from(k)
    BY <1>1
  <2>2. m[from(j)] = m[from(k)]
    BY <1>2
  <2> QED
    BY <2>1, <2>2 DEF Distinct
<1>4. ToSet(a) = ToSet(m) \ {i}
  <2>1. \A x : x \in ToSet(a) <=> \E k \in 1 .. Len(m) - 1 : a[k] = x
    BY <1>2, ToSetIs
  <2>2. \A x : x \in ToSet(m) <=> \E k \in 1 .. Len(m) : m[k] = x
    BY ToSetIs
  <2>3. ASSUME NEW x \in ToSet(a) PROVE x \in ToSet(m) /\ x # i
    BY <1>1, <1>2, <2>1, <2>2 DEF Distinct
  <2>4. ASSUME NEW x \in ToSet(m), x # i PROVE x \in ToSet(a)
    <3>1. PICK k \in 1 .. Len(m) : m[k] = x
      BY <2>2
    <3>2. CASE k < p
      <4>1. k \in 1 .. Len(m) - 1 /\ a[k] = x
        BY <1>1, <1>2, <3>1, <3>2
      <4> QED
        BY <2>1, <4>1
    <3>3. CASE k > p
      <4>1. k - 1 \in 1 .. Len(m) - 1 /\ a[k - 1] = x
        BY <1>1, <1>2, <3>1, <3>3
      <4> QED
        BY <2>1, <4>1
    <3> QED
      BY <1>1, <2>4, <3>1, <3>2, <3>3
  <2> QED
    BY <2>3, <2>4
<1> QED
  BY <1>2, <1>3, <1>4 DEF a

LEMMA UsedDistinct ==
  ASSUME NEW S, NEW m \in Seq(S), Distinct(m), NEW i \in ToSet(m)
  PROVE  /\ Used(m, i) \in Seq(S) /\ Len(Used(m, i)) = Len(m)
         /\ Distinct(Used(m, i)) /\ ToSet(Used(m, i)) = ToSet(m)
<1>1. /\ Without(m, i) \in Seq(S) /\ Len(Without(m, i)) = Len(m) - 1
      /\ Distinct(Without(m, i)) /\ ToSet(Without(m, i)) = ToSet(m) \ {i}
  BY WithoutDistinct
<1>2. i \in S \ ToSet(Without(m, i)) /\ i \in ToSet(m) /\ Len(m) \in Nat
  BY <1>1, ToSetIs
<1>3. /\ Used(m, i) \in Seq(S) /\ Len(Used(m, i)) = Len(m) - 1 + 1
      /\ Distinct(Used(m, i)) /\ ToSet(Used(m, i)) = (ToSet(m) \ {i}) \cup {i}
  BY <1>1, <1>2, AppendDistinct DEF Used
<1> QED
  BY <1>2, <1>3

\* A map shorter than there are engines leaves one.
LEMMA OneIsFree ==
  ASSUME NEW m \in Seq(Engines), Len(m) < Cardinality(Engines)
  PROVE  \E i \in Engines : i \notin ToSet(m)
<1> SUFFICES ASSUME Engines \subseteq ToSet(m) PROVE FALSE
  OBVIOUS
<1>1. ToSet(m) = Engines /\ m \in [1 .. Len(m) -> Engines] /\ Len(m) \in Nat
  BY ToSetIs, LenProperties
<1>2. m \in Surjection(1 .. Len(m), Engines)
  BY <1>1, ToSetIs DEF Surjection
<1>i. IsFiniteSet(1 .. Len(m)) /\ Cardinality(1 .. Len(m)) = Len(m)
  <2>1. 1 \in Int /\ Len(m) \in Int
    BY <1>1
  <2>2. /\ IsFiniteSet(1 .. Len(m))
        /\ Cardinality(1 .. Len(m)) = IF 1 > Len(m) THEN 0 ELSE Len(m) - 1 + 1
    BY <2>1, FS_Interval
  <2> QED
    BY <1>1, <2>2
<1>3. Cardinality(Engines) <= Cardinality(1 .. Len(m))
  BY <1>2, <1>i, FS_Surjection
<1>4. Cardinality(Engines) \in Nat
  BY FS_CardinalityType, RegistryAssumption
<1> QED
  BY <1>1, <1>3, <1>4, <1>i

\* By the initial segments of a set's elements, which are finite.
LEMMA MinIs ==
  ASSUME NEW S, S \subseteq Nat, S # {}
  PROVE  Min(S) \in S /\ \A y \in S : Min(S) <= y
<1> DEFINE T == {0 .. x : x \in S}
           R == StrictSubsetOrdering(Nat)
<1>1. IsWellFoundedOn(R, FiniteSubsetsOf(Nat))
  BY FS_StrictSubsetOrderingWellFounded
<1>2. T \subseteq FiniteSubsetsOf(Nat) /\ T # {}
  <2> SUFFICES ASSUME NEW x \in S PROVE 0 .. x \in FiniteSubsetsOf(Nat)
    OBVIOUS
  <2>1. x \in Nat /\ x \in Int /\ 0 \in Int /\ 0 .. x \subseteq Nat
    OBVIOUS
  <2>2. IsFiniteSet(0 .. x)
    BY <2>1, FS_Interval
  <2> QED
    BY <2>1, <2>2 DEF FiniteSubsetsOf
<1> HIDE DEF R
<1>3. PICK t \in T : \A u \in T : <<u, t>> \notin R
  BY <1>1, <1>2, WFMin
<1>4. PICK x \in S : t = 0 .. x
  OBVIOUS
<1>5. ASSUME NEW y \in S PROVE x <= y
  <2> SUFFICES ASSUME y < x PROVE FALSE
    OBVIOUS
  <2>1. 0 .. y \in T /\ 0 .. y \subseteq 0 .. x /\ 0 .. y # 0 .. x
    <3>1. x \in 0 .. x /\ x \notin 0 .. y
      OBVIOUS
    <3> QED
      BY <3>1
  <2>2. 0 .. x \subseteq Nat /\ 0 .. y \subseteq Nat
    OBVIOUS
  <2>3. <<0 .. y, 0 .. x>> \in R
    BY <2>1, <2>2 DEF R, StrictSubsetOrdering
  <2> QED
    BY <1>3, <1>4, <2>1, <2>3
<1> QED
  BY <1>5 DEF Min

LEMMA VictimIs ==
  ASSUME map \in Seq(Engines), Victims # {}
  PROVE  Victim \in Victims
<1> DEFINE S == {k \in DOMAIN map : map[k] \in Victims}
<1>1. S \subseteq Nat /\ S # {}
  BY ToSetIs DEF Victims
<1>2. Min(S) \in S
  BY <1>1, MinIs
<1> QED
  BY <1>2 DEF Victim

-----------------------------------------------------------------------------
(* What the operators of the model return. *)

LEMMA OpenForIs ==
  ASSUME InUse
  PROVE  /\ ToSet(map) \subseteq Engines
         /\ \A d : OpenFor(d) \subseteq ToSet(map) /\ \A i \in OpenFor(d) : eng[i].db = d
         /\ \A i \in ToSet(map) : OpenFor(eng[i].db) = {i}
         /\ \A i : ~Idle(i) => i \in ToSet(map) \cup {None}
<1>1. ToSet(map) \subseteq Engines
  BY ToSetIs DEF InUse, Shape, MapOK
<1>2. \A i \in ToSet(map) : OpenFor(eng[i].db) = {i}
  BY DEF InUse, OneEach, OpenFor
<1>3. \A i : ~Idle(i) => i \in ToSet(map) \cup {None}
  BY DEF InUse, Held, Idle
<1> QED
  BY <1>1, <1>2, <1>3 DEF OpenFor

LEMMA NewEngineIs ==
  ASSUME InUse, NEW n \in MaxOpens
  PROVE  /\ NewEngine \in Engines /\ NewEngine \notin ToSet(map) /\ Idle(NewEngine)
         /\ Live = ToSet(map)
<1>1. Live = ToSet(map)
  BY OpenForIs, RegistryAssumption DEF Live
<1>2. map \in Seq(Engines) /\ Len(map) < Cardinality(Engines)
  <2>1. maxOpen \in Nat /\ n \in Nat /\ Cardinality(Engines) \in Nat /\ maxOpen < Cardinality(Engines)
    BY RegistryAssumption, FS_CardinalityType DEF InUse, Shape, MapOK
  <2> QED
    BY <2>1 DEF InUse, Shape, MapOK
<1>3. \E i \in Engines : i \notin Live
  BY <1>1, <1>2, OneIsFree
<1>4. NewEngine \in Engines /\ NewEngine \notin Live
  BY <1>3 DEF NewEngine
<1> QED
  BY <1>1, <1>4 DEF Live

LEMMA RecordTypes ==
  /\ Closed \in Engine /\ NoDir \in Directory /\ NoAcks \in Acks /\ NoJob \in Job
  /\ \A d \in Dbs : disk \in [Dbs -> Directory] => Opened(d) \in Engine
BY RegistryAssumption DEF Closed, NoDir, NoAcks, NoJob, Opened, Engine, Directory, Acks, Job

LEMMA EngineEqual ==
  ASSUME NEW a \in Engine, NEW b \in Engine,
         a.db = b.db, a.facts = b.facts, a.learned = b.learned,
         a.quarantined = b.quarantined, a.linked = b.linked
  PROVE  a = b
BY DEF Engine

LEMMA DirectoryOps ==
  ASSUME NEW f \in [Dbs -> Directory], NEW d \in Dbs, NEW e \in Engine
  PROVE  /\ WithLog(f, d) \in [Dbs -> Directory] /\ WithStrangeLog(f, d) \in [Dbs -> Directory]
         /\ Saved(f, e) \in [Dbs -> Directory]
<1>1. f[d] \in Directory /\ f[e.db] \in Directory /\ e.db \in Dbs /\ e.learned \in SUBSET Nat /\ e.linked \in BOOLEAN
  BY DEF Engine
<1>2. WithLog(f, d) \in [Dbs -> Directory]
  <2>1. [f[d] EXCEPT !.dir = TRUE, !.wal = IF @ = "none" THEN "empty" ELSE @] \in Directory
    BY <1>1 DEF Directory
  <2>2. WithLog(f, d) = [f EXCEPT ![d] = [f[d] EXCEPT !.dir = TRUE, !.wal = IF @ = "none" THEN "empty" ELSE @]]
    BY <1>1 DEF WithLog
  <2> QED
    BY <2>1, <2>2
<1>3. WithStrangeLog(f, d) \in [Dbs -> Directory]
  <2> DEFINE x == [f[d] EXCEPT !.dir = TRUE, !.wal = "headed",
                               !.sidecar = IF @ = "none" THEN @ ELSE "foreign"]
  <2>1. x \in Directory
    BY <1>1 DEF Directory
  <2>2. WithStrangeLog(f, d) = [f EXCEPT ![d] = x]
    BY <1>1 DEF WithStrangeLog
  <2> QED
    BY <2>1, <2>2
<1>4. Saved(f, e) \in [Dbs -> Directory]
  <2> DEFINE x == [f[e.db] EXCEPT !.sidecar = IF e.linked THEN "own" ELSE "foreign", !.saved = e.learned]
  <2>1. x \in Directory
    BY <1>1 DEF Directory
  <2>2. Saved(f, e) = IF f[e.db].dir THEN [f EXCEPT ![e.db] = x] ELSE f
    BY <1>1 DEF Saved
  <2> QED
    BY <1>1, <2>1, <2>2
<1> QED
  BY <1>2, <1>3, <1>4

LEMMA ClosingIs ==
  ASSUME InUse, NEW i \in ToSet(map), Idle(i)
  PROVE  /\ Closing(i) \in [Dbs -> Directory] /\ eng[i].db \in Dbs
         /\ WithoutEngine(i) \in [Engines -> Engine]
         /\ WithoutEngine(i) = [eng EXCEPT ![i] = Closed]
         /\ Closing(i) = IF eng[i].linked THEN [disk EXCEPT ![eng[i].db].wal = "headed"] ELSE disk
<1>1. eng[i] \in Engine /\ i \in Engines
  BY OpenForIs DEF InUse, Shape
<1>2. WithoutEngine(i) = [eng EXCEPT ![i] = Closed]
  BY DEF WithoutEngine
<1>3. Closing(i) = IF eng[i].linked THEN [disk EXCEPT ![eng[i].db].wal = "headed"] ELSE disk
  BY DEF Closing
<1>4. WithoutEngine(i) \in [Engines -> Engine]
  BY <1>1, <1>2, RecordTypes DEF InUse, Shape
<1>5. Closing(i) \in [Dbs -> Directory] /\ eng[i].db \in Dbs
  <2>1. eng[i].db \in Dbs /\ disk \in [Dbs -> Directory]
    BY <1>1 DEF InUse, Shape, Engine
  <2>2. [disk[eng[i].db] EXCEPT !.wal = "headed"] \in Directory
    BY <2>1 DEF Directory
  <2>3. [disk EXCEPT ![eng[i].db].wal = "headed"] = [disk EXCEPT ![eng[i].db] = [disk[eng[i].db] EXCEPT !.wal = "headed"]]
    BY <2>1
  <2> QED
    BY <1>3, <2>1, <2>2, <2>3
<1> QED
  BY <1>2, <1>3, <1>4, <1>5
-----------------------------------------------------------------------------
(* Types. *)

\* What is on disk when the engines of V, that nobody holds, were closed.
LeftBy(V, g) ==
  \A x \in Dbs : g[x] = IF \E v \in V : eng[v].db = x /\ eng[v].linked
                        THEN [disk[x] EXCEPT !.wal = "headed"] ELSE disk[x]

\* What a request that opens its database does, with room made by closing the
\* engines of V, at most one.
OpensWith(w, V, left) ==
  LET d == job[w].db IN
  /\ V = IF Full THEN {Victim} ELSE {}
  /\ LeftBy(V, left)
  /\ \A v \in V : acked' = WithoutTouches(eng[v].db)
  /\ V = {} => acked' = acked
  /\ exposed' = exposed \cup IF Dropping(d) THEN {d} ELSE {}
  /\ MapOK'
  /\ \/ /\ Opens(d) /\ disk' = WithLog(left, d)
        /\ \E n \in Engines \ ToSet(map) :
             /\ ToSet(map') = (ToSet(map) \ V) \cup {n}
             /\ eng' = [i \in Engines |-> IF i = n THEN Opened(d) ELSE IF i \in V THEN Closed ELSE eng[i]]
             /\ holds' = [holds EXCEPT ![w] = n]
        /\ pc' = [pc EXCEPT ![w] = Entry(job[w].op)] /\ UNCHANGED <<job, toUnlink>>
     \/ /\ ~Opens(d) /\ disk' = IF Locked(d) THEN left ELSE WithStrangeLog(left, d)
        /\ ToSet(map') = ToSet(map) \ V
        /\ eng' = [i \in Engines |-> IF i \in V THEN Closed ELSE eng[i]]
        /\ Answer(w)

LEMMA OpensIs ==
  ASSUME InUse, NEW w \in Workers, ResolveOpens(w)
  PROVE  \E V \in SUBSET Victims, left \in [Dbs -> Directory] : OpensWith(w, V, left)
<1> DEFINE d == job[w].db
           V == IF Full THEN {Victim} ELSE {}
           kept == IF Full THEN Without(map, Victim) ELSE map
           closed == IF Full THEN WithoutEngine(Victim) ELSE eng
           left == IF Full THEN Closing(Victim) ELSE disk
<1>0. /\ map \in Seq(Engines) /\ Distinct(map) /\ Len(map) <= maxOpen /\ maxOpen \in MaxOpens /\ maxOpen \in Nat
      /\ eng \in [Engines -> Engine] /\ disk \in [Dbs -> Directory] /\ Len(map) \in Nat
  <2>1. /\ map \in Seq(Engines) /\ Distinct(map) /\ Len(map) <= maxOpen /\ maxOpen \in MaxOpens \cup {0}
        /\ eng \in [Engines -> Engine] /\ disk \in [Dbs -> Directory]
    BY DEF InUse, Shape, MapOK
  <2>2. maxOpen # 0
    BY DEF ResolveOpens, InUse, Stopped
  <2> QED
    BY <2>1, <2>2, RegistryAssumption
<1>1. Full => Victim \in Victims /\ Victim \in ToSet(map) /\ Idle(Victim)
  BY <1>0, VictimIs DEF ResolveOpens, Victims
<1>2. /\ closed = [i \in Engines |-> IF i \in V THEN Closed ELSE eng[i]]
      /\ left \in [Dbs -> Directory]
      /\ \A x \in Dbs : left[x] = IF \E v \in V : eng[v].db = x /\ eng[v].linked
                                 THEN [disk[x] EXCEPT !.wal = "headed"] ELSE disk[x]
  <2>1. CASE Full
    <3>1. /\ closed = [eng EXCEPT ![Victim] = Closed] /\ left \in [Dbs -> Directory] /\ eng[Victim].db \in Dbs
          /\ left = IF eng[Victim].linked THEN [disk EXCEPT ![eng[Victim].db].wal = "headed"] ELSE disk
      BY <1>1, <2>1, ClosingIs
    <3> QED
      BY <1>0, <2>1, <3>1
  <2>2. CASE ~Full
    BY <1>0, <2>2
  <2> QED
    BY <2>1, <2>2
<1>3. /\ kept \in Seq(Engines) /\ Distinct(kept) /\ Len(kept) + 1 <= maxOpen
      /\ ToSet(kept) = ToSet(map) \ V /\ Len(kept) \in Nat /\ Len(kept) <= maxOpen
  <2>1. CASE Full
    <3>1. /\ kept \in Seq(Engines) /\ Distinct(kept) /\ Len(kept) = Len(map) - 1
          /\ ToSet(kept) = ToSet(map) \ {Victim}
      BY <1>0, <1>1, <2>1, WithoutDistinct
    <3>2. Len(map) # 0 /\ V = {Victim}
      BY <1>0, <1>1, <2>1, ToSetIs
    <3> QED
      BY <1>0, <3>1, <3>2
  <2>2. CASE ~Full
    <3>1. kept = map /\ V = {} /\ Len(map) + 1 <= maxOpen
      BY <1>0, <2>2 DEF Full
    <3> QED
      BY <1>0, <3>1
  <2> QED
    BY <2>1, <2>2
<1>4. /\ V \in SUBSET Victims
      /\ \A v \in V : acked' = WithoutTouches(eng[v].db)
      /\ V = {} => acked' = acked
      /\ exposed' = exposed \cup IF Dropping(d) THEN {d} ELSE {}
      /\ maxOpen' = maxOpen
  <2>1. acked' = IF Full THEN WithoutTouches(eng[Victim].db) ELSE acked
    BY DEF ResolveOpens
  <2>2. exposed' = exposed \cup (IF Dropping(d) THEN {d} ELSE {}) /\ maxOpen' = maxOpen
    BY DEF ResolveOpens
  <2> QED
    BY <1>1, <2>1, <2>2
<1>5. NewEngine \in Engines /\ NewEngine \notin ToSet(map)
  BY <1>0, NewEngineIs
<1>6. \/ /\ Opens(d) /\ map' = Append(kept, NewEngine) /\ Hold(w, NewEngine)
         /\ eng' = [closed EXCEPT ![NewEngine] = Opened(d)] /\ disk' = WithLog(left, d)
         /\ Goto(w, Entry(job[w].op)) /\ UNCHANGED <<job, toUnlink>>
      \/ /\ ~Opens(d) /\ map' = kept /\ eng' = closed
         /\ disk' = IF Locked(d) THEN left ELSE WithStrangeLog(left, d)
         /\ Answer(w)
  BY DEF ResolveOpens
<1> HIDE DEF kept, closed, left, V
<1>7. CASE /\ Opens(d) /\ map' = Append(kept, NewEngine) /\ Hold(w, NewEngine)
           /\ eng' = [closed EXCEPT ![NewEngine] = Opened(d)] /\ disk' = WithLog(left, d)
           /\ Goto(w, Entry(job[w].op)) /\ UNCHANGED <<job, toUnlink>>
  <2>1. NewEngine \in Engines \ ToSet(kept)
    BY <1>3, <1>5
  <2>2. /\ map' \in Seq(Engines) /\ Len(map') = Len(kept) + 1 /\ Distinct(map')
        /\ ToSet(map') = (ToSet(map) \ V) \cup {NewEngine}
    BY <1>3, <1>7, <2>1, AppendDistinct
  <2>3. eng' = [i \in Engines |->
                 IF i = NewEngine THEN Opened(d) ELSE IF i \in V THEN Closed ELSE eng[i]]
    BY <1>2, <1>5, <1>7
  <2>4. MapOK'
    <3>1. Len(map') <= maxOpen' /\ maxOpen' \in MaxOpens \cup {0}
      BY <1>0, <1>3, <1>4, <2>2
    <3> QED
      BY <2>2, <3>1 DEF MapOK, Distinct
  <2>5. \E n \in Engines \ ToSet(map) :
          /\ ToSet(map') = (ToSet(map) \ V) \cup {n}
          /\ eng' = [i \in Engines |-> IF i = n THEN Opened(d) ELSE IF i \in V THEN Closed ELSE eng[i]]
          /\ holds' = [holds EXCEPT ![w] = n]
    BY <1>5, <1>7, <2>2, <2>3, Zenon DEF Hold
  <2>6. V = IF Full THEN {Victim} ELSE {}
    BY DEF V
  <2> QED
    BY <1>2, <1>4, <1>7, <2>4, <2>5, <2>6, Zenon DEF Goto, OpensWith, LeftBy
<1>8. CASE /\ ~Opens(d) /\ map' = kept /\ eng' = closed
           /\ disk' = IF Locked(d) THEN left ELSE WithStrangeLog(left, d)
           /\ Answer(w)
  <2>1. MapOK'
    <3>1. Len(map') <= maxOpen' /\ maxOpen' \in MaxOpens \cup {0}
      BY <1>0, <1>3, <1>4, <1>8
    <3> QED
      BY <1>3, <1>8, <3>1 DEF MapOK, Distinct
  <2> QED
    BY <1>2, <1>3, <1>4, <1>8, <2>1 DEF V, OpensWith, LeftBy
<1> QED
  BY <1>6, <1>7, <1>8

\* A step of one worker is none of another.
OnlyOf(w) ==
  \E l \in Labels, j \in Job, i \in Engines \cup {None}, u \in SUBSET FileNames :
    /\ pc' = [pc EXCEPT ![w] = l] /\ job' = [job EXCEPT ![w] = j]
    /\ holds' = [holds EXCEPT ![w] = i] /\ toUnlink' = [toUnlink EXCEPT ![w] = u]

LEMMA EntryIs ==
  \A op : Entry(op) \in {"capacity", "handle"} /\ Entry(op) \in Serving /\ Entry(op) \in Labels
BY DEF Entry, Serving, Labels

LEMMA OnlyOfWorker ==
  ASSUME InUse, NEW w \in Workers, Serve(w) \/ \E r \in Requests : Receive(w, r[1], r[2])
  PROVE  OnlyOf(w)
<1>0. /\ pc \in [Workers -> Labels] /\ job \in [Workers -> Job]
      /\ holds \in [Workers -> Engines \cup {None}] /\ toUnlink \in [Workers -> SUBSET FileNames]
      /\ pc[w] \in Labels /\ job[w] \in Job /\ holds[w] \in Engines \cup {None} /\ toUnlink[w] \in SUBSET FileNames
  BY DEF InUse, Shape, Workings
<1>n. None \in Engines \cup {None} /\ NoJob \in Job /\ {} \in SUBSET FileNames
  BY RecordTypes
<1>i. \A d : OpenFor(d) \subseteq Engines \cup {None}
  BY OpenForIs
<1>l. /\ "idle" \in Labels /\ "open" \in Labels /\ "drop" \in Labels /\ "unlink" \in Labels
      /\ Serving \subseteq Labels
      /\ {"capacity", "evict", "recheck", "handle", "configure"} = Serving
  BY DEF Labels, Serving
<1>j. /\ pc' = pc => pc' = [pc EXCEPT ![w] = pc[w]]
      /\ job' = job => job' = [job EXCEPT ![w] = job[w]]
      /\ holds' = holds => holds' = [holds EXCEPT ![w] = holds[w]]
      /\ toUnlink' = toUnlink => toUnlink' = [toUnlink EXCEPT ![w] = toUnlink[w]]
  BY <1>0
<1>a. ASSUME Answer(w) PROVE OnlyOf(w)
  BY <1>0, <1>a, <1>l, <1>n DEF Answer, Goto, Hold, OnlyOf
<1>g. ASSUME NEW l \in Labels, Goto(w, l), UNCHANGED <<job, holds, toUnlink>> PROVE OnlyOf(w)
  BY <1>0, <1>g DEF Goto, OnlyOf
<1>h. ASSUME NEW d, NEW i \in OpenFor(d), Hold(w, i), NEW l \in Labels, Goto(w, l),
             NEW j \in Job, job' = [job EXCEPT ![w] = j], toUnlink' = toUnlink
      PROVE  OnlyOf(w)
  BY <1>0, <1>h, <1>i DEF Goto, Hold, OnlyOf
<1>u. ASSUME UNCHANGED <<pc, job, holds>>, NEW u \in SUBSET FileNames, toUnlink' = [toUnlink EXCEPT ![w] = u]
      PROVE  OnlyOf(w)
  BY <1>0, <1>j, <1>u, Zenon DEF OnlyOf
<1>1. ASSUME NEW r \in Requests, Receive(w, r[1], r[2]) PROVE OnlyOf(w)
  <2> DEFINE j == [db |-> r[1], op |-> r[2]]
  <2>1. j \in Job
    BY RegistryAssumption DEF Job
  <2>2. job' = [job EXCEPT ![w] = j] /\ toUnlink' = toUnlink
    BY <1>1 DEF Receive
  <2> HIDE DEF j
  <2>3. CASE Goto(w, "drop") /\ UNCHANGED <<holds, map>>
    <3>1. holds' = [holds EXCEPT ![w] = holds[w]] /\ toUnlink' = [toUnlink EXCEPT ![w] = toUnlink[w]]
      BY <1>j, <2>2, <2>3
    <3>2. pc' = [pc EXCEPT ![w] = "drop"] /\ "drop" \in Labels
      BY <1>l, <2>3 DEF Goto
    <3> QED
      BY <1>0, <2>1, <2>2, <3>1, <3>2 DEF OnlyOf
  <2>4. CASE Goto(w, "open") /\ UNCHANGED <<holds, map>>
    <3>1. holds' = [holds EXCEPT ![w] = holds[w]] /\ toUnlink' = [toUnlink EXCEPT ![w] = toUnlink[w]]
      BY <1>j, <2>2, <2>4
    <3>2. pc' = [pc EXCEPT ![w] = "open"] /\ "open" \in Labels
      BY <1>l, <2>4 DEF Goto
    <3> QED
      BY <1>0, <2>1, <2>2, <3>1, <3>2 DEF OnlyOf
  <2>5. ASSUME NEW i \in OpenFor(r[1]), Hold(w, i), Goto(w, Entry(r[2])) PROVE OnlyOf(w)
    BY <1>h, <2>1, <2>2, <2>5, EntryIs
  <2> QED
    BY <1>1, <2>3, <2>4, <2>5 DEF Receive
<1>2. CASE ResolveHit(w)
  BY <1>0, <1>2, <1>h, <1>j, EntryIs DEF ResolveHit
<1>3. CASE ResolveRefused(w)
  BY <1>3, <1>a DEF ResolveRefused
<1>4. CASE ResolveOpens(w)
  <2>1. \/ Answer(w)
        \/ /\ \E n \in Engines : holds' = [holds EXCEPT ![w] = n]
           /\ pc' = [pc EXCEPT ![w] = Entry(job[w].op)] /\ UNCHANGED <<job, toUnlink>>
    BY <1>4, OpensIs DEF OpensWith
  <2> QED
    BY <1>0, <1>a, <2>1, EntryIs DEF OnlyOf
<1>5. CASE Capacity(w)
  BY <1>5, <1>a, <1>g, <1>l DEF Capacity
<1>6. CASE Evict(w)
  BY <1>0, <1>6, <1>g, <1>l, <1>u DEF Evict
<1>7. CASE Recheck(w)
  BY <1>7, <1>a, <1>g, <1>l DEF Recheck
<1>8. CASE Read(w) \/ Ingest(w) \/ Touch(w) \/ Feedback(w) \/ Configured(w)
  BY <1>8, <1>a DEF Read, Ingest, Touch, Feedback, Configured
<1>9. CASE Configure(w)
  BY <1>9, <1>a, <1>g, <1>l DEF Configure
<1>10. CASE Drop(w)
  <2>1. CASE Answer(w)
    BY <1>a, <2>1
  <2>2. CASE toUnlink' = [toUnlink EXCEPT ![w] = Files(job[w].db)] /\ Goto(w, "unlink") /\ UNCHANGED <<job, holds>>
    <3>1. Files(job[w].db) \in SUBSET FileNames
      BY DEF Files, FileNames
    <3> QED
      BY <1>0, <1>j, <1>l, <2>2, <3>1, Zenon DEF Goto, OnlyOf
  <2> QED
    BY <1>10, <2>1, <2>2 DEF Drop
<1>11. ASSUME NEW f \in Files(job[w].db), Unlink(w, f) PROVE OnlyOf(w)
  BY <1>0, <1>11, <1>u DEF Unlink
<1>12. CASE Rmdir(w)
  BY <1>12, <1>a DEF Rmdir
<1> QED
  BY <1>1, <1>2, <1>3, <1>4, <1>5, <1>6, <1>7, <1>8, <1>9, <1>10, <1>11, <1>12 DEF Serve

LEMMA WorkingsStep ==
  ASSUME InUse, [Next]_vars
  PROVE  Workings'
<1>0. Workings
  BY DEF InUse, Shape
<1>1. ASSUME NEW w \in Workers, OnlyOf(w) PROVE Workings'
  BY <1>0, <1>1 DEF OnlyOf, Workings
<1>2. CASE Crash
  BY <1>2, RecordTypes DEF Crash, Workings, Labels
<1>3. CASE UNCHANGED process
  BY <1>0, <1>3 DEF process, Workings
<1> QED
  BY <1>1, <1>2, <1>3, OnlyOfWorker
  DEF Next, MaintenanceDue, Maintain, Start, Shutdown, vars, process

LEMMA MapStep ==
  ASSUME InUse, [Next]_vars
  PROVE  MapOK'
<1>0. /\ map \in Seq(Engines) /\ Distinct(map) /\ Len(map) <= maxOpen /\ maxOpen \in MaxOpens \cup {0}
      /\ Len(map) \in Nat /\ maxOpen \in Nat /\ \A d : OpenFor(d) \subseteq ToSet(map)
  BY OpenForIs, RegistryAssumption DEF InUse, Shape, MapOK
<1>1. CASE UNCHANGED <<map, maxOpen>>
  BY <1>0, <1>1 DEF MapOK, Distinct
<1>2. ASSUME NEW i \in ToSet(map), map' = Used(map, i), maxOpen' = maxOpen PROVE MapOK'
  <2>1. map' \in Seq(Engines) /\ Distinct(map') /\ Len(map') = Len(map)
    BY <1>0, <1>2, UsedDistinct
  <2> QED
    BY <1>0, <1>2, <2>1 DEF MapOK, Distinct
<1>3. ASSUME NEW i \in ToSet(map), map' = Without(map, i), maxOpen' = maxOpen PROVE MapOK'
  <2>1. map' \in Seq(Engines) /\ Distinct(map') /\ Len(map') = Len(map) - 1
    BY <1>0, <1>3, WithoutDistinct
  <2>2. Len(map') <= maxOpen'
    BY <1>0, <1>3, <2>1
  <2> QED
    BY <1>0, <1>3, <2>1, <2>2 DEF MapOK, Distinct
<1>4. CASE Start
  <2>1. NewEngine \in Engines /\ map' = <<NewEngine>> /\ maxOpen' \in MaxOpens
    BY <1>4, NewEngineIs DEF Start
  <2>2. Len(map') = 1 /\ map' \in Seq(Engines) /\ Distinct(map')
    BY <2>1 DEF Distinct
  <2>3. Len(map') <= maxOpen'
    BY <2>1, <2>2, RegistryAssumption
  <2> QED
    BY <2>1, <2>2, <2>3 DEF MapOK, Distinct
<1>5. CASE Shutdown \/ Crash
  <2>1. map' = <<>> /\ maxOpen' = 0 /\ Len(map') = 0
    BY <1>5 DEF Shutdown, Crash
  <2> QED
    BY <2>1 DEF MapOK, Distinct
<1>6. CASE MaintenanceDue \/ (\E i \in Engines : Maintain(i)) \/ UNCHANGED vars
  BY <1>1, <1>6 DEF MaintenanceDue, Maintain, vars
<1>7. ASSUME NEW w \in Workers, Serve(w) PROVE MapOK'
  <2>1. CASE ResolveHit(w)
    BY <1>0, <1>2, <2>1 DEF ResolveHit
  <2>2. CASE ResolveOpens(w)
    BY <2>2, OpensIs DEF OpensWith
  <2>3. CASE Evict(w)
    <3>1. CASE UNCHANGED map
      BY <1>1, <2>3, <3>1 DEF Evict
    <3>2. CASE Victims # {} /\ map' = Without(map, Victim)
      BY <1>0, <1>3, <2>3, <3>2, VictimIs DEF Evict, Victims
    <3> QED
      BY <2>3, <3>1, <3>2 DEF Evict
  <2>4. CASE Drop(w)
    <3>1. CASE UNCHANGED map
      BY <1>1, <2>4, <3>1 DEF Drop
    <3>2. ASSUME NEW i \in OpenFor(job[w].db), map' = Without(map, i) PROVE MapOK'
      BY <1>0, <1>3, <2>4, <3>2 DEF Drop
    <3> QED
      BY <2>4, <3>1, <3>2 DEF Drop
  <2>5. CASE UNCHANGED <<map, maxOpen>>
    BY <1>1, <2>5
  <2>6. CASE ResolveRefused(w) \/ Capacity(w) \/ Recheck(w)
    BY <2>5, <2>6 DEF ResolveRefused, Capacity, Recheck
  <2>9. CASE Configured(w) \/ Rmdir(w)
    BY <2>5, <2>9 DEF Configured, Rmdir
  <2>7. CASE Read(w) \/ Ingest(w) \/ Touch(w) \/ Feedback(w) \/ Configure(w)
    BY <2>5, <2>7 DEF Read, Ingest, Touch, Feedback, Configure
  <2>8. ASSUME NEW f, Unlink(w, f) PROVE MapOK'
    BY <2>5, <2>8 DEF Unlink
  <2> QED
    BY <1>7, <2>1, <2>2, <2>3, <2>4, <2>6, <2>7, <2>8, <2>9 DEF Serve
<1>8. ASSUME NEW w \in Workers, NEW r \in Requests, Receive(w, r[1], r[2]) PROVE MapOK'
  BY <1>0, <1>1, <1>2, <1>8 DEF Receive
<1> QED
  BY <1>4, <1>5, <1>6, <1>7, <1>8 DEF Next

LEMMA NewsIs ==
  ASSUME writes \in 0 .. MaxWrites
  PROVE  /\ writes + Cardinality(News) \in 0 .. MaxWrites /\ writes <= writes + Cardinality(News)
         /\ News \subseteq 1 .. writes + Cardinality(News) /\ News \in SUBSET Nat
<1>0. MaxWrites \in Nat
  BY RegistryAssumption
<1>1. CASE writes < MaxWrites
  <2>1. News = {writes + 1} /\ Cardinality(News) = 1
    BY <1>1, FS_Singleton DEF News
  <2> QED
    BY <1>0, <1>1, <2>1
<1>2. CASE ~(writes < MaxWrites)
  <2>1. News = {} /\ Cardinality(News) = 0
    BY <1>2, FS_EmptySet DEF News
  <2> QED
    BY <1>0, <2>1
<1> QED
  BY <1>1, <1>2

\* The engine of a request that has its database.
LEMMA HeldIs ==
  ASSUME InUse, NEW w \in Workers, pc[w] \in Serving
  PROVE  /\ holds[w] \in ToSet(map) /\ holds[w] \in Engines /\ eng[holds[w]].db = job[w].db
         /\ job[w].db \in Dbs /\ eng[holds[w]] \in Engine /\ OpenFor(job[w].db) = {holds[w]}
<1>1. holds[w] \in ToSet(map) /\ eng[holds[w]].db = job[w].db
  BY DEF InUse, Held
<1>2. job[w].db \in Dbs
  BY DEF InUse, Shape, Workings, Job
<1>3. holds[w] \in Engines /\ OpenFor(job[w].db) = {holds[w]}
  BY <1>1, OpenForIs
<1> QED
  BY <1>1, <1>2, <1>3 DEF InUse, Shape

LEMMA ServingIs ==
  ASSUME NEW w \in Workers
  PROVE  /\ pc[w] \in {"capacity", "evict", "recheck", "handle", "configure"} => pc[w] \in Serving
         /\ \A op : Handling(w, op) => pc[w] \in Serving
BY DEF Handling, Serving

LEMMA AcksStep ==
  ASSUME InUse, [Next]_vars
  PROVE  acked' \in [Dbs -> Acks]
<1>0. /\ acked \in [Dbs -> Acks] /\ disk \in [Dbs -> Directory] /\ \A w \in Workers : job[w].db \in Dbs
  BY DEF InUse, Shape, Histories, Workings, Job
<1>n. News \in SUBSET Nat
  BY NewsIs DEF InUse, Shape, Histories
<1>t. ASSUME NEW d \in Dbs PROVE WithoutTouches(d) \in [Dbs -> Acks]
  <2>1. [acked[d] EXCEPT !.touches = @ \cap disk[d].saved] \in Acks
    BY <1>0 DEF Acks
  <2> QED
    BY <1>0, <2>1 DEF WithoutTouches
<1>a. ASSUME NEW d \in Dbs, NEW x \in Acks, acked' = [acked EXCEPT ![d] = x] PROVE acked' \in [Dbs -> Acks]
  BY <1>0, <1>a
<1>1. ASSUME NEW w \in Workers, Ingest(w) \/ Touch(w) \/ Feedback(w) PROVE acked' \in [Dbs -> Acks]
  <2> DEFINE a == acked[job[w].db]
             f == [a EXCEPT !.facts = @ \cup News]
             t == [a EXCEPT !.touches = @ \cup News]
             l == [a EXCEPT !.lessons = @ \cup News]
  <2>1. a \in Acks
    BY <1>0
  <2>2. f \in Acks /\ t \in Acks /\ l \in Acks
    BY <1>n, <2>1 DEF Acks
  <2>3. CASE Ingest(w)
    <3>1. acked' = [acked EXCEPT ![job[w].db] = f]
      BY <1>0, <2>3 DEF Ingest
    <3> QED
      BY <1>0, <1>a, <2>2, <3>1
  <2>4. CASE Touch(w)
    <3>1. acked' = [acked EXCEPT ![job[w].db] = t]
      BY <1>0, <2>4 DEF Touch
    <3> QED
      BY <1>0, <1>a, <2>2, <3>1
  <2>5. CASE Feedback(w)
    <3>1. acked' = acked \/ acked' = [acked EXCEPT ![job[w].db] = l]
      BY <1>0, <2>5 DEF Feedback
    <3> QED
      BY <1>0, <1>a, <2>2, <3>1
  <2> QED
    BY <1>1, <2>3, <2>4, <2>5
<1>2. ASSUME NEW w \in Workers, Configured(w) PROVE acked' \in [Dbs -> Acks]
  <2> DEFINE q == [acked[job[w].db] EXCEPT !.quarantined = TRUE]
  <2>1. q \in Acks
    BY <1>0 DEF Acks
  <2>2. acked' = [acked EXCEPT ![job[w].db] = q]
    BY <1>0, <1>2 DEF Configured
  <2> QED
    BY <1>0, <1>a, <2>1, <2>2
<1>3. ASSUME NEW w \in Workers, Drop(w) PROVE acked' \in [Dbs -> Acks]
  BY <1>0, <1>3, RecordTypes DEF Drop
<1>4. ASSUME NEW w \in Workers, ResolveOpens(w) PROVE acked' \in [Dbs -> Acks]
  <2>1. PICK V \in SUBSET Victims :
          /\ \A v \in V : acked' = WithoutTouches(eng[v].db)
          /\ V = {} => acked' = acked
    BY <1>4, OpensIs DEF OpensWith
  <2>2. \A v \in V : eng[v].db \in Dbs
    BY OpenForIs DEF Victims, InUse, Shape, Engine
  <2> QED
    BY <1>0, <1>t, <2>1, <2>2
<1>5. ASSUME NEW w \in Workers, Evict(w) PROVE acked' \in [Dbs -> Acks]
  <2>1. CASE UNCHANGED acked
    BY <1>0, <2>1
  <2>2. CASE Victims # {} /\ acked' = WithoutTouches(eng[Victim].db)
    <3>1. Victim \in Engines
      BY <2>2, VictimIs, OpenForIs DEF Victims, InUse, Shape, MapOK
    <3>2. eng[Victim].db \in Dbs
      BY <3>1 DEF InUse, Shape, Engine
    <3> QED
      BY <1>t, <2>2, <3>2
  <2> QED
    BY <1>5, <2>1, <2>2 DEF Evict
<1>6. CASE Crash
  <2>1. \A d \in Dbs : WithoutTouches(d)[d] \in Acks
    BY <1>t
  <2> QED
    BY <1>6, <2>1 DEF Crash
<1>7. CASE UNCHANGED acked
  BY <1>0, <1>7
<1>8. ASSUME NEW w \in Workers, Serve(w) PROVE acked' \in [Dbs -> Acks]
  <2>1. CASE ResolveHit(w) \/ ResolveRefused(w) \/ Capacity(w) \/ Recheck(w) \/ Read(w) \/ Configure(w) \/ Rmdir(w)
    BY <1>7, <2>1 DEF ResolveHit, ResolveRefused, Capacity, Recheck, Read, Configure, Rmdir, history
  <2>2. ASSUME NEW f, Unlink(w, f) PROVE acked' \in [Dbs -> Acks]
    BY <1>7, <2>2 DEF Unlink, history
  <2> QED
    BY <1>1, <1>2, <1>3, <1>4, <1>5, <1>8, <2>1, <2>2 DEF Serve
<1> QED
  BY <1>6, <1>7, <1>8 DEF Next, Receive, MaintenanceDue, Maintain, Start, Shutdown, vars, history

\* What a step of a request adds to the histories.
LEMMA HistoriesOf ==
  ASSUME NEW w \in Workers, Serve(w)
  PROVE  /\ writes' \in {writes, writes + Cardinality(News)}
         /\ exposed' \subseteq exposed \cup {job[w].db}
         /\ exposed \subseteq exposed' \/ Rmdir(w)
<1>1. CASE ResolveHit(w)
  BY <1>1 DEF ResolveHit, history
<1>2. CASE ResolveRefused(w)
  BY <1>2 DEF ResolveRefused, history
<1>3. CASE ResolveOpens(w)
  BY <1>3 DEF ResolveOpens
<1>4. CASE Capacity(w)
  BY <1>4 DEF Capacity, history
<1>5. CASE Evict(w)
  BY <1>5 DEF Evict
<1>6. CASE Recheck(w)
  BY <1>6 DEF Recheck, history
<1>7. CASE Read(w)
  BY <1>7 DEF Read, history
<1>8. CASE Ingest(w)
  BY <1>8 DEF Ingest
<1>9. CASE Touch(w)
  BY <1>9 DEF Touch
<1>10. CASE Feedback(w)
  BY <1>10 DEF Feedback
<1>11. CASE Configure(w)
  BY <1>11 DEF Configure, history
<1>12. CASE Configured(w)
  BY <1>12 DEF Configured
<1>13. CASE Drop(w)
  BY <1>13 DEF Drop
<1>14. CASE Rmdir(w)
  BY <1>14 DEF Rmdir
<1>15. ASSUME NEW f, Unlink(w, f) PROVE writes' = writes /\ exposed' = exposed
  BY <1>15 DEF Unlink, history
<1> QED
  BY <1>1, <1>2, <1>3, <1>4, <1>5, <1>6, <1>7, <1>8, <1>9, <1>10, <1>11, <1>12, <1>13, <1>14, <1>15 DEF Serve

LEMMA HistoriesStep ==
  ASSUME InUse, [Next]_vars
  PROVE  Histories' /\ writes <= writes'
<1>0. /\ writes \in 0 .. MaxWrites /\ exposed \subseteq Dbs /\ \A w \in Workers : job[w].db \in Dbs
      /\ writes \in Nat /\ writes <= writes
  BY RegistryAssumption DEF InUse, Shape, Histories, Workings, Job
<1>1. writes' \in {writes, writes + Cardinality(News)}
  BY HistoriesOf DEF Next, Receive, MaintenanceDue, Maintain, Start, Shutdown, Crash, vars, history
<1>2. exposed' \subseteq Dbs
  <2>1. CASE Crash
    BY <1>0, <2>1 DEF Crash
  <2>2. ASSUME NEW w \in Workers, Serve(w) PROVE exposed' \subseteq Dbs
    BY <1>0, <2>2, HistoriesOf
  <2> QED
    BY <1>0, <2>1, <2>2 DEF Next, Receive, MaintenanceDue, Maintain, Start, Shutdown, vars, history
<1> QED
  BY <1>0, <1>1, <1>2, AcksStep, NewsIs DEF Histories

-----------------------------------------------------------------------------
(* The engines that are open, and who holds them. *)

\* The engines of V are closed and those of N opened; the others stay what they
\* are the engines of.
Moved(V, N) ==
  /\ V \subseteq ToSet(map) /\ N \subseteq Engines \ ToSet(map)
  /\ ToSet(map') = (ToSet(map) \ V) \cup N
  /\ \A i \in ToSet(map) \ V : eng'[i].db = eng[i].db
  /\ \A i \in Engines \ ToSet(map') : eng'[i] = Closed
  /\ \A n \in N : N = {n} /\ OpenFor(eng'[n].db) = {}
  /\ eng' \in [Engines -> Engine]

LEMMA MovedOneEach ==
  ASSUME InUse, NEW V, NEW N, Moved(V, N)
  PROVE  OneEach'
BY DEF Moved, InUse, OneEach, OpenFor

\* What is in use is never closed.
Undisturbed == \E V \in SUBSET Victims, N \in SUBSET Engines : Moved(V, N)

LEMMA Unmoved ==
  ASSUME InUse, ToSet(map') = ToSet(map), eng' = eng
  PROVE  Undisturbed
<1>1. Moved({}, {})
  BY OpenForIs DEF Moved, InUse, Shape, OneEach
<1> QED
  BY <1>1 DEF Undisturbed

LEMMA ClosesOne ==
  ASSUME InUse, NEW i \in ToSet(map), Idle(i), map' = Without(map, i), eng' = WithoutEngine(i)
  PROVE  Undisturbed
<1>1. ToSet(map') = ToSet(map) \ {i}
  BY WithoutDistinct DEF InUse, Shape, MapOK
<1>2. eng' = [eng EXCEPT ![i] = Closed] /\ eng' \in [Engines -> Engine] /\ eng \in [Engines -> Engine] /\ i \in Engines
  BY ClosingIs, OpenForIs DEF InUse, Shape
<1>3. \A j \in Engines \ ToSet(map') : eng'[j] = Closed
  BY <1>1, <1>2 DEF InUse, OneEach
<1>4. \A j \in ToSet(map) \ {i} : eng'[j].db = eng[j].db
  BY <1>2, OpenForIs
<1>5. Moved({i}, {})
  BY <1>1, <1>2, <1>3, <1>4 DEF Moved
<1>6. {i} \in SUBSET Victims
  BY DEF Victims
<1> QED
  BY <1>5, <1>6 DEF Undisturbed

\* An engine that only learns, or loses the name of its log.
LEMMA Relearns ==
  ASSUME InUse, ToSet(map') = ToSet(map), eng' \in [Engines -> Engine],
         \A i \in ToSet(map) : eng'[i].db = eng[i].db,
         \A i \in Engines \ ToSet(map) : eng'[i] = eng[i]
  PROVE  Undisturbed
<1>1. Moved({}, {})
  BY DEF Moved, InUse, OneEach
<1> QED
  BY <1>1 DEF Undisturbed

LEMMA OpensUndisturbed ==
  ASSUME InUse, NEW w \in Workers, ResolveOpens(w)
  PROVE  Undisturbed
<1>0. /\ eng \in [Engines -> Engine] /\ disk \in [Dbs -> Directory] /\ job[w].db \in Dbs
      /\ ToSet(map) \subseteq Engines /\ OpenFor(job[w].db) = {}
  BY OpenForIs DEF InUse, Shape, Workings, Job, ResolveOpens
<1>1. PICK V \in SUBSET Victims :
        \/ \E n \in Engines \ ToSet(map) :
              /\ ToSet(map') = (ToSet(map) \ V) \cup {n}
              /\ eng' = [i \in Engines |->
                           IF i = n THEN Opened(job[w].db) ELSE IF i \in V THEN Closed ELSE eng[i]]
        \/ /\ ToSet(map') = ToSet(map) \ V
           /\ eng' = [i \in Engines |-> IF i \in V THEN Closed ELSE eng[i]]
  <2>1. PICK V \in SUBSET Victims, left \in [Dbs -> Directory] : OpensWith(w, V, left)
    BY OpensIs
  <2> QED
    BY <2>1 DEF OpensWith
<1>2. V \subseteq ToSet(map) /\ \A i \in Engines \ ToSet(map) : eng[i] = Closed
  BY DEF Victims, InUse, OneEach
<1>3. Opened(job[w].db) \in Engine /\ Closed \in Engine /\ Opened(job[w].db).db = job[w].db
  BY <1>0, RecordTypes DEF Opened
<1>4. ASSUME NEW n \in Engines \ ToSet(map),
             ToSet(map') = (ToSet(map) \ V) \cup {n},
             eng' = [i \in Engines |->
                      IF i = n THEN Opened(job[w].db) ELSE IF i \in V THEN Closed ELSE eng[i]]
      PROVE  Moved(V, {n})
  <2>1. eng' \in [Engines -> Engine] /\ eng'[n].db = job[w].db
    BY <1>0, <1>3, <1>4
  <2>2. \A i \in ToSet(map) \ V : eng'[i].db = eng[i].db
    BY <1>0, <1>4
  <2>3. \A i \in Engines \ ToSet(map') : eng'[i] = Closed
    BY <1>2, <1>4
  <2> QED
    BY <1>0, <1>2, <1>4, <2>1, <2>2, <2>3 DEF Moved
<1>5. ASSUME ToSet(map') = ToSet(map) \ V,
             eng' = [i \in Engines |-> IF i \in V THEN Closed ELSE eng[i]]
      PROVE  Moved(V, {})
  <2>1. eng' \in [Engines -> Engine] /\ \A i \in ToSet(map) \ V : eng'[i].db = eng[i].db
    BY <1>0, <1>3, <1>5
  <2>2. \A i \in Engines \ ToSet(map') : eng'[i] = Closed
    BY <1>2, <1>5
  <2> QED
    BY <1>2, <1>5, <2>1, <2>2 DEF Moved
<1> QED
  BY <1>1, <1>4, <1>5 DEF Undisturbed

\* What the handlers do to the engine they have locked.
LEMMA HandlerIs ==
  ASSUME InUse, NEW w \in Workers, Ingest(w) \/ Touch(w) \/ Feedback(w) \/ Configure(w)
  PROVE  LET i == holds[w] IN
         /\ i \in Engines /\ i \in ToSet(map) /\ map' = map /\ maint' = maint
         /\ \A j \in Engines \ {i} : eng'[j] = eng[j]
         /\ eng' \in [Engines -> Engine] /\ eng'[i].db = eng[i].db /\ eng'[i].linked = eng[i].linked
         /\ eng'[i].facts = IF Ingest(w) THEN eng[i].facts \cup News ELSE eng[i].facts
         /\ eng'[i].learned = IF Touch(w) \/ Feedback(w) THEN eng[i].learned \cup News ELSE eng[i].learned
<1> DEFINE i == holds[w]
<1>1. /\ i \in ToSet(map) /\ i \in Engines /\ eng[i] \in Engine /\ eng \in [Engines -> Engine]
      /\ map' = map /\ maint' = maint
  BY HeldIs, ServingIs DEF Ingest, Touch, Feedback, Configure, InUse, Shape
<1>2. News \in SUBSET Nat
  BY NewsIs DEF InUse, Shape, Histories
<1>3. ASSUME NEW e \in Engine, eng' = [eng EXCEPT ![i] = e]
      PROVE  eng' \in [Engines -> Engine] /\ eng'[i] = e /\ \A j \in Engines \ {i} : eng'[j] = eng[j]
  BY <1>1, <1>3
<1>4. CASE Ingest(w)
  <2> DEFINE e == [eng[i] EXCEPT !.facts = @ \cup News]
  <2>1. eng' = [eng EXCEPT ![i] = e] /\ ~Touch(w) /\ ~Feedback(w)
    BY <1>1, <1>4 DEF Ingest, Handling, Touch, Feedback
  <2>2. /\ e \in Engine /\ e.db = eng[i].db /\ e.linked = eng[i].linked
        /\ e.facts = eng[i].facts \cup News /\ e.learned = eng[i].learned
    BY <1>1, <1>2 DEF Engine
  <2> HIDE DEF e
  <2> QED
    BY <1>1, <1>3, <1>4, <2>1, <2>2
<1>5. CASE Touch(w) \/ Feedback(w)
  <2> DEFINE e == [eng[i] EXCEPT !.learned = @ \cup News]
  <2>1. eng' = [eng EXCEPT ![i] = e] /\ ~Ingest(w)
    BY <1>1, <1>5 DEF Ingest, Handling, Touch, Feedback
  <2>2. /\ e \in Engine /\ e.db = eng[i].db /\ e.linked = eng[i].linked
        /\ e.learned = eng[i].learned \cup News /\ e.facts = eng[i].facts
    BY <1>1, <1>2 DEF Engine
  <2> HIDE DEF e
  <2> QED
    BY <1>1, <1>3, <1>5, <2>1, <2>2
<1>6. CASE Configure(w)
  <2> DEFINE e == [eng[i] EXCEPT !.quarantined = TRUE]
  <2>1. eng' = [eng EXCEPT ![i] = e] /\ ~Ingest(w) /\ ~Touch(w) /\ ~Feedback(w)
    BY <1>1, <1>6 DEF Configure, Ingest, Handling, Touch, Feedback
  <2>2. /\ e \in Engine /\ e.db = eng[i].db /\ e.linked = eng[i].linked
        /\ e.facts = eng[i].facts /\ e.learned = eng[i].learned
    BY <1>1 DEF Engine
  <2> HIDE DEF e
  <2> QED
    BY <1>1, <1>3, <1>6, <2>1, <2>2
<1> QED
  BY <1>4, <1>5, <1>6, Zenon

LEMMA HandlersUndisturbed ==
  ASSUME InUse, NEW w \in Workers, Ingest(w) \/ Touch(w) \/ Feedback(w) \/ Configure(w)
  PROVE  Undisturbed
<1>1. /\ map' = map /\ eng' \in [Engines -> Engine] /\ \A j \in Engines : eng'[j].db = eng[j].db
      /\ \A j \in Engines \ ToSet(map) : eng'[j] = eng[j]
  BY HandlerIs
<1> QED
  BY <1>1, Relearns, OpenForIs

LEMMA ServesUndisturbed ==
  ASSUME InUse, NEW w \in Workers, Serve(w)
  PROVE  Undisturbed
<1>1. CASE ResolveHit(w)
  <2>1. PICK i \in ToSet(map) : map' = Used(map, i)
    BY <1>1, OpenForIs DEF ResolveHit
  <2>2. ToSet(map') = ToSet(map)
    BY <2>1, UsedDistinct DEF InUse, Shape, MapOK
  <2> QED
    BY <1>1, <2>2, Unmoved DEF ResolveHit
<1>2. CASE ResolveOpens(w)
  BY <1>2, OpensUndisturbed
<1>3. CASE Ingest(w) \/ Touch(w) \/ Feedback(w) \/ Configure(w)
  BY <1>3, HandlersUndisturbed
<1>4. CASE Evict(w)
  <2>1. CASE UNCHANGED <<map, eng>>
    BY <2>1, Unmoved
  <2>2. CASE Victims # {} /\ map' = Without(map, Victim) /\ eng' = WithoutEngine(Victim)
    BY <2>2, VictimIs, ClosesOne DEF Victims, InUse, Shape, MapOK
  <2> QED
    BY <1>4, <2>1, <2>2 DEF Evict
<1>5. CASE Drop(w)
  <2>1. CASE UNCHANGED <<map, eng>>
    BY <2>1, Unmoved
  <2>2. ASSUME ~DropBusy(job[w].db), NEW i \in OpenFor(job[w].db),
               map' = Without(map, i), eng' = WithoutEngine(i)
        PROVE  Undisturbed
    BY <2>2, ClosesOne, OpenForIs DEF DropBusy
  <2> QED
    BY <1>5, <2>1, <2>2 DEF Drop
<1>6. ASSUME NEW f \in Files(job[w].db), Unlink(w, f) PROVE Undisturbed
  <2>1. CASE f = "wal"
    <3>1. /\ map' = map /\ eng \in [Engines -> Engine]
          /\ eng' = [i \in Engines |-> IF eng[i].db = job[w].db THEN [eng[i] EXCEPT !.linked = FALSE] ELSE eng[i]]
      BY <1>6, <2>1 DEF Unlink, InUse, Shape
    <3>2. \A i \in Engines : eng[i] \in Engine /\ eng'[i] \in Engine /\ eng'[i].db = eng[i].db
      BY <3>1 DEF Engine
    <3>4. ASSUME NEW i \in Engines \ ToSet(map) PROVE eng'[i] = eng[i]
      <4>1. eng[i] = Closed /\ eng[i].linked = FALSE
        <5>1. eng[i] = Closed
          BY DEF InUse, OneEach
        <5> QED
          BY <5>1 DEF Closed
      <4>2. CASE eng[i].db = job[w].db
        <5>1. eng'[i] = [eng[i] EXCEPT !.linked = FALSE]
          BY <3>1, <4>2
        <5>2. /\ eng'[i].facts = eng[i].facts /\ eng'[i].learned = eng[i].learned
              /\ eng'[i].quarantined = eng[i].quarantined /\ eng'[i].linked = eng[i].linked
          BY <3>2, <4>1, <5>1 DEF Engine
        <5> QED
          BY <3>2, <5>2, EngineEqual
      <4> QED
        BY <3>1, <4>2
    <3>5. eng' \in [Engines -> Engine]
      BY <3>1, <3>2
    <3> QED
      BY <3>1, <3>2, <3>4, <3>5, Relearns, OpenForIs
  <2>2. CASE f # "wal"
    BY <1>6, <2>2, Unmoved DEF Unlink
  <2> QED
    BY <2>1, <2>2
<1>7. CASE ResolveRefused(w) \/ Capacity(w) \/ Recheck(w) \/ Read(w) \/ Configured(w) \/ Rmdir(w)
  BY <1>7, Unmoved DEF ResolveRefused, Capacity, Recheck, Read, Configured, Rmdir
<1> QED
  BY <1>1, <1>2, <1>3, <1>4, <1>5, <1>6, <1>7 DEF Serve

LEMMA ReceivesUndisturbed ==
  ASSUME InUse, NEW w \in Workers, NEW d, NEW op, Receive(w, d, op)
  PROVE  Undisturbed
<1>1. CASE UNCHANGED map
  BY <1>1, Unmoved DEF Receive
<1>2. ASSUME NEW i \in OpenFor(d), map' = Used(map, i) PROVE Undisturbed
  <2>1. ToSet(map') = ToSet(map)
    BY <1>2, UsedDistinct, OpenForIs DEF InUse, Shape, MapOK
  <2> QED
    BY <2>1, Unmoved DEF Receive
<1> QED
  BY <1>1, <1>2 DEF Receive

LEMMA EnginesStep ==
  ASSUME InUse, [Next]_vars
  PROVE  /\ eng' \in [Engines -> Engine] /\ OneEach'
         /\ Undisturbed \/ Start \/ Shutdown \/ Crash
<1>1. ASSUME Undisturbed PROVE eng' \in [Engines -> Engine] /\ OneEach'
  BY <1>1, MovedOneEach DEF Undisturbed, Moved
<1>2. CASE Shutdown \/ Crash
  <2>1. map' = <<>> /\ Len(map') = 0 /\ eng' = [i \in Engines |-> Closed] /\ ToSet(map') = {}
    BY <1>2 DEF Shutdown, Crash, ToSet
  <2> QED
    BY <1>2, <2>1, RecordTypes DEF OneEach
<1>3. CASE Start
  <2>1. ToSet(map) = {}
    <3>1. Len(map) = 0
      BY <1>3 DEF Start, InUse, Shape, MapOK
    <3> QED
      BY <3>1, ToSetIs DEF InUse, Shape, MapOK
  <2>2. NewEngine \in Engines /\ Default \in Dbs
    BY <1>3, NewEngineIs, RegistryAssumption DEF Start
  <2>3. map' = <<NewEngine>> /\ eng' = [eng EXCEPT ![NewEngine] = Opened(Default)] /\ eng \in [Engines -> Engine]
    BY <1>3 DEF Start, InUse, Shape
  <2>4. eng' \in [Engines -> Engine] /\ \A i \in Engines : i # NewEngine => eng'[i] = Closed
    BY <2>1, <2>2, <2>3, RecordTypes DEF InUse, Shape, OneEach
  <2>5. ToSet(map') = {NewEngine}
    BY <2>2, <2>3 DEF ToSet
  <2> QED
    BY <1>3, <2>4, <2>5 DEF OneEach
<1>4. CASE MaintenanceDue \/ (\E i \in Engines : Maintain(i)) \/ UNCHANGED vars
  <2>1. map' = map /\ eng' = eng
    BY <1>4 DEF MaintenanceDue, Maintain, vars
  <2> QED
    BY <1>1, <2>1, Unmoved
<1> QED
  BY <1>1, <1>2, <1>3, <1>4, ServesUndisturbed, ReceivesUndisturbed DEF Next

HeldBy(w) ==
  IF pc[w] \in Serving
  THEN holds[w] \in ToSet(map) /\ eng[holds[w]].db = job[w].db
  ELSE holds[w] = None

\* Nothing that is held is closed.
LEMMA StaysOpen ==
  ASSUME InUse, Undisturbed
  PROVE  /\ \A w \in Workers : holds[w] # None =>
              holds[w] \in ToSet(map') /\ eng'[holds[w]].db = eng[holds[w]].db
         /\ maint \subseteq ToSet(map')
<1>1. PICK V \in SUBSET Victims, N \in SUBSET Engines : Moved(V, N)
  BY DEF Undisturbed
<1>2. \A i \in ToSet(map) : ~Idle(i) => i \in ToSet(map') /\ eng'[i].db = eng[i].db
  BY <1>1 DEF Moved, Victims
<1>3. \A w \in Workers : holds[w] # None => holds[w] \in ToSet(map) /\ ~Idle(holds[w])
  BY DEF InUse, Held, Idle
<1>4. \A i \in maint : i \in ToSet(map) /\ ~Idle(i)
  BY DEF InUse, Held, Idle
<1> QED
  BY <1>2, <1>3, <1>4

LEMMA OthersHold ==
  ASSUME InUse, NEW w \in Workers, OnlyOf(w), Undisturbed, maint' = maint, HeldBy(w)'
  PROVE  Held'
<1>1. ASSUME NEW x \in Workers, x # w PROVE HeldBy(x)'
  <2>1. pc'[x] = pc[x] /\ job'[x] = job[x] /\ holds'[x] = holds[x]
    BY <1>1 DEF OnlyOf, InUse, Shape, Workings
  <2>2. CASE pc[x] \in Serving
    <3>1. holds[x] # None
      BY <2>2, HeldIs, RegistryAssumption
    <3> QED
      BY <2>1, <2>2, <3>1, StaysOpen, HeldIs DEF HeldBy
  <2>3. CASE pc[x] \notin Serving
    BY <2>1, <2>3 DEF HeldBy, InUse, Held
  <2> QED
    BY <2>2, <2>3
<1>2. maint' \subseteq ToSet(map')
  BY StaysOpen
<1> QED
  BY <1>1, <1>2 DEF Held, HeldBy

\* What no step of a request changes.
LEMMA ServeKeeps ==
  ASSUME NEW w \in Workers, Serve(w)
  PROVE  maint' = maint /\ maxOpen' = maxOpen /\ pc[w] # "idle"
<1>1. CASE ResolveHit(w)
  BY <1>1 DEF ResolveHit
<1>2. CASE ResolveRefused(w)
  BY <1>2 DEF ResolveRefused
<1>3. CASE ResolveOpens(w)
  BY <1>3 DEF ResolveOpens
<1>4. CASE Capacity(w)
  BY <1>4 DEF Capacity
<1>5. CASE Evict(w)
  BY <1>5 DEF Evict
<1>6. CASE Recheck(w)
  BY <1>6 DEF Recheck
<1>7. CASE Read(w)
  BY <1>7 DEF Read, Handling
<1>8. CASE Ingest(w)
  BY <1>8 DEF Ingest, Handling
<1>9. CASE Touch(w)
  BY <1>9 DEF Touch, Handling
<1>10. CASE Feedback(w)
  BY <1>10 DEF Feedback, Handling
<1>11. CASE Configure(w)
  BY <1>11 DEF Configure, Handling
<1>12. CASE Configured(w)
  BY <1>12 DEF Configured
<1>13. CASE Drop(w)
  BY <1>13 DEF Drop
<1>14. CASE Rmdir(w)
  BY <1>14 DEF Rmdir
<1>15. ASSUME NEW f \in Files(job[w].db), Unlink(w, f) PROVE maint' = maint /\ maxOpen' = maxOpen /\ pc[w] # "idle"
  BY <1>15 DEF Unlink
<1> QED
  BY <1>1, <1>2, <1>3, <1>4, <1>5, <1>6, <1>7, <1>8, <1>9, <1>10, <1>11, <1>12, <1>13, <1>14, <1>15 DEF Serve

LEMMA ServesHeld ==
  ASSUME InUse, NEW w \in Workers, Serve(w), Undisturbed
  PROVE  Held'
<1>0. /\ pc \in [Workers -> Labels] /\ job \in [Workers -> Job]
      /\ holds \in [Workers -> Engines \cup {None}] /\ OnlyOf(w)
  BY OnlyOfWorker DEF InUse, Shape, Workings
<1>m. maint' = maint
  BY ServeKeeps
<1>a. ASSUME Answer(w) PROVE HeldBy(w)'
  BY <1>0, <1>a DEF Answer, Goto, Hold, HeldBy, Serving
<1>s. ASSUME pc[w] \in Serving, NEW l \in Serving, pc' = [pc EXCEPT ![w] = l], UNCHANGED <<job, holds>>
      PROVE  HeldBy(w)'
  <2>1. pc'[w] \in Serving /\ holds[w] # None
    BY <1>0, <1>s, HeldIs, RegistryAssumption
  <2> QED
    BY <1>s, <2>1, StaysOpen, HeldIs DEF HeldBy
<1>f. ASSUME pc[w] \notin Serving, NEW l, l \notin Serving, pc' = [pc EXCEPT ![w] = l], UNCHANGED <<job, holds>>
      PROVE  HeldBy(w)'
  BY <1>0, <1>f DEF HeldBy, InUse, Held
<1>l. /\ Serving = {"capacity", "evict", "recheck", "handle", "configure"}
      /\ "open" \notin Serving /\ "drop" \notin Serving /\ "unlink" \notin Serving
  BY DEF Serving
<1>p. pc = [pc EXCEPT ![w] = pc[w]]
  BY <1>0
<1>1. CASE ResolveHit(w)
  <2>1. PICK i \in OpenFor(job[w].db) : Hold(w, i) /\ map' = Used(map, i)
    BY <1>1 DEF ResolveHit
  <2>2. i \in ToSet(map) /\ eng[i].db = job[w].db /\ ToSet(map') = ToSet(map)
    BY <2>1, UsedDistinct, OpenForIs DEF InUse, Shape, MapOK
  <2>3. holds'[w] = i /\ job' = job /\ eng' = eng
    BY <1>0, <1>1, <2>1 DEF ResolveHit, Hold
  <2>4. pc'[w] \in Serving
    BY <1>0, <1>1, EntryIs DEF ResolveHit, Goto
  <2>5. HeldBy(w)'
    BY <2>2, <2>3, <2>4 DEF HeldBy
  <2> QED
    BY <1>0, <1>m, <2>5, OthersHold
<1>2. CASE ResolveOpens(w)
  <2>1. PICK V \in SUBSET Victims, left \in [Dbs -> Directory] : OpensWith(w, V, left)
    BY <1>2, OpensIs
  <2>2. CASE Answer(w)
    BY <1>0, <1>a, <1>m, <2>2, OthersHold
  <2>3. ASSUME NEW n \in Engines \ ToSet(map),
               ToSet(map') = (ToSet(map) \ V) \cup {n},
               eng' = [i \in Engines |->
                        IF i = n THEN Opened(job[w].db) ELSE IF i \in V THEN Closed ELSE eng[i]],
               holds' = [holds EXCEPT ![w] = n], pc' = [pc EXCEPT ![w] = Entry(job[w].op)], job' = job
        PROVE  Held'
    <3>1. pc'[w] \in Serving /\ holds'[w] = n /\ n \in ToSet(map')
      BY <1>0, <2>3, EntryIs
    <3>2. eng'[n].db = job[w].db
      BY <2>3 DEF Opened
    <3>3. HeldBy(w)'
      BY <2>3, <3>1, <3>2 DEF HeldBy
    <3> QED
      BY <1>0, <1>m, <3>3, OthersHold
  <2> QED
    BY <2>1, <2>2, <2>3 DEF OpensWith
<1>3. CASE ResolveRefused(w) \/ Read(w) \/ Ingest(w) \/ Touch(w) \/ Feedback(w) \/ Configured(w) \/ Rmdir(w)
  <2>1. Answer(w)
    BY <1>3 DEF ResolveRefused, Read, Ingest, Touch, Feedback, Configured, Rmdir
  <2>2. HeldBy(w)'
    BY <1>a, <2>1, Zenon
  <2> QED
    BY <1>0, <1>m, <2>2, OthersHold, Zenon
<1>4. CASE Capacity(w) \/ Recheck(w) \/ Configure(w) \/ Evict(w)
  <2>1. pc[w] \in Serving
    BY <1>4, ServingIs DEF Capacity, Recheck, Configure, Evict
  <2>2. Answer(w) \/ \E l \in Serving : pc' = [pc EXCEPT ![w] = l] /\ UNCHANGED <<job, holds>>
    BY <1>4, <1>l, <1>p, <2>1 DEF Capacity, Recheck, Configure, Evict, Goto
  <2>3. HeldBy(w)'
    BY <1>a, <1>s, <2>1, <2>2
  <2> QED
    BY <1>0, <1>m, <2>3, OthersHold
<1>5. CASE Drop(w)
  <2>1. Answer(w) \/ (pc' = [pc EXCEPT ![w] = "unlink"] /\ UNCHANGED <<job, holds>>)
    BY <1>5 DEF Drop, Goto
  <2>2. HeldBy(w)'
    BY <1>5, <1>a, <1>f, <1>l, <2>1 DEF Drop
  <2> QED
    BY <1>0, <1>m, <2>2, OthersHold
<1>6. ASSUME NEW f, Unlink(w, f) PROVE Held'
  <2>1. HeldBy(w)'
    BY <1>6, <1>f, <1>l, <1>p DEF Unlink
  <2> QED
    BY <1>0, <1>m, <2>1, OthersHold
<1> QED
  BY <1>1, <1>2, <1>3, <1>4, <1>5, <1>6 DEF Serve

LEMMA ReceivesHeld ==
  ASSUME InUse, NEW w \in Workers, NEW d, NEW op, Receive(w, d, op), OnlyOf(w), Undisturbed
  PROVE  Held'
<1>0. /\ pc \in [Workers -> Labels] /\ job \in [Workers -> Job] /\ holds \in [Workers -> Engines \cup {None}]
      /\ holds[w] = None
  BY DEF InUse, Shape, Workings, Receive, Held, Serving
<1>1. job'[w].db = d /\ eng' = eng /\ maint' = maint
  BY <1>0 DEF Receive, history
<1>2. CASE (Goto(w, "drop") \/ Goto(w, "open")) /\ UNCHANGED holds
  <2>1. HeldBy(w)'
    BY <1>0, <1>2 DEF Goto, HeldBy, Serving
  <2> QED
    BY <1>1, <2>1, OthersHold
<1>3. ASSUME NEW i \in OpenFor(d), Hold(w, i), map' = Used(map, i), Goto(w, Entry(op)) PROVE Held'
  <2>1. i \in ToSet(map) /\ eng[i].db = d /\ ToSet(map') = ToSet(map)
    BY UsedDistinct, OpenForIs, <1>3 DEF InUse, Shape, MapOK
  <2>2. holds'[w] = i /\ pc'[w] \in Serving
    BY <1>0, <1>3, EntryIs DEF Hold, Goto
  <2>3. HeldBy(w)'
    BY <1>1, <2>1, <2>2 DEF HeldBy
  <2> QED
    BY <1>1, <2>3, OthersHold
<1> QED
  BY <1>2, <1>3 DEF Receive

LEMMA HeldStep ==
  ASSUME InUse, [Next]_vars
  PROVE  Held'
<1>1. ASSUME NEW w \in Workers, Serve(w) PROVE Held'
  BY <1>1, ServesUndisturbed, ServesHeld
<1>2. ASSUME NEW w \in Workers, NEW r \in Requests, Receive(w, r[1], r[2]) PROVE Held'
  BY <1>2, ReceivesUndisturbed, ReceivesHeld, OnlyOfWorker
<1>3. CASE UNCHANGED <<map, eng, pc, job, holds>> /\ maint' \subseteq ToSet(map)
  BY <1>3 DEF InUse, Held
<1>4. CASE MaintenanceDue \/ (\E i \in Engines : Maintain(i)) \/ UNCHANGED vars
  <2>1. UNCHANGED <<map, eng, pc, job, holds>> /\ maint' \subseteq ToSet(map)
    BY <1>4 DEF MaintenanceDue, Maintain, vars, process, InUse, Held
  <2> QED
    BY <1>3, <2>1
<1>5. CASE Start
  <2>1. \A w \in Workers : pc[w] = "idle" /\ holds[w] = None
    BY <1>5 DEF Start, InUse, Stopped, Held, Serving
  <2>2. ToSet(map) = {}
    <3>1. Len(map) = 0
      BY <1>5 DEF Start, InUse, Shape, MapOK
    <3> QED
      BY <3>1, ToSetIs DEF InUse, Shape, MapOK
  <2>3. maint' = {}
    BY <1>5, <2>2 DEF Start, InUse, Held
  <2> QED
    BY <1>5, <2>1, <2>3 DEF Start, process, Held, Serving
<1>6. CASE Shutdown
  <2>1. \A w \in Workers : pc[w] = "idle" /\ holds[w] = None
    BY <1>6 DEF Shutdown, InUse, Held, Serving
  <2> QED
    BY <1>6, <2>1 DEF Shutdown, process, Held, Serving
<1>7. CASE Crash
  BY <1>7 DEF Crash, Held, Serving
<1> QED
  BY <1>1, <1>2, <1>4, <1>5, <1>6, <1>7 DEF Next

LEMMA StoppedStep ==
  ASSUME InUse, [Next]_vars
  PROVE  Stopped'
<1>1. CASE Start
  BY <1>1, RegistryAssumption DEF Start, Stopped
<1>2. CASE Shutdown \/ Crash
  BY <1>2 DEF Shutdown, Crash, Stopped, process
<1>3. CASE UNCHANGED <<pc, maxOpen>>
  BY <1>3 DEF InUse, Stopped
<1>4. ASSUME NEW w \in Workers, Serve(w) PROVE maxOpen' = maxOpen /\ maxOpen # 0
  BY <1>4, ServeKeeps DEF InUse, Stopped
<1>5. ASSUME NEW w \in Workers, NEW d, NEW op, Receive(w, d, op) PROVE maxOpen' = maxOpen /\ maxOpen # 0
  BY <1>5, RegistryAssumption DEF Receive, InUse, Shape, MapOK
<1>6. CASE MaintenanceDue \/ (\E i \in Engines : Maintain(i)) \/ UNCHANGED vars
  BY <1>3, <1>6 DEF MaintenanceDue, Maintain, vars, process
<1> QED
  BY <1>1, <1>2, <1>4, <1>5, <1>6 DEF Next, Stopped
-----------------------------------------------------------------------------
(* The directories. *)

LEMMA WithLogIs ==
  ASSUME NEW f \in [Dbs -> Directory], NEW d \in Dbs
  PROVE  LET g == WithLog(f, d) IN
         /\ \A x \in Dbs \ {d} : g[x] = f[x]
         /\ g[d] \in Directory /\ g[d].dir /\ g[d].wal = IF f[d].wal = "none" THEN "empty" ELSE f[d].wal
         /\ g[d].facts = f[d].facts /\ g[d].sidecar = f[d].sidecar /\ g[d].saved = f[d].saved
         /\ g[d].config = f[d].config
<1> DEFINE y == [f[d] EXCEPT !.dir = TRUE, !.wal = IF @ = "none" THEN "empty" ELSE @]
<1>1. f[d] \in Directory /\ WithLog(f, d) = [f EXCEPT ![d] = y]
  BY DEF WithLog
<1>2. /\ y \in Directory /\ y.dir = TRUE /\ y.wal = IF f[d].wal = "none" THEN "empty" ELSE f[d].wal
      /\ y.facts = f[d].facts /\ y.sidecar = f[d].sidecar /\ y.saved = f[d].saved /\ y.config = f[d].config
  BY <1>1 DEF Directory
<1> QED
  BY <1>1, <1>2

LEMMA StrangeLogIs ==
  ASSUME NEW f \in [Dbs -> Directory], NEW d \in Dbs
  PROVE  LET g == WithStrangeLog(f, d) IN
         /\ \A x \in Dbs \ {d} : g[x] = f[x]
         /\ g[d] \in Directory /\ g[d].dir /\ g[d].wal = "headed"
         /\ g[d].facts = f[d].facts /\ g[d].saved = f[d].saved
<1> DEFINE y == [f[d] EXCEPT !.dir = TRUE, !.wal = "headed",
                             !.sidecar = IF @ = "none" THEN @ ELSE "foreign"]
<1>1. f[d] \in Directory /\ WithStrangeLog(f, d) = [f EXCEPT ![d] = y]
  BY DEF WithStrangeLog
<1>2. y \in Directory /\ y.dir = TRUE /\ y.wal = "headed" /\ y.facts = f[d].facts /\ y.saved = f[d].saved
  BY <1>1 DEF Directory
<1> QED
  BY <1>1, <1>2

LEMMA SavedIs ==
  ASSUME NEW f \in [Dbs -> Directory], NEW e \in Engine
  PROVE  LET g == Saved(f, e) IN
         /\ \A x \in Dbs \ {e.db} : g[x] = f[x]
         /\ ~f[e.db].dir => g[e.db] = f[e.db]
         /\ f[e.db].dir =>
              /\ g[e.db].saved = e.learned /\ g[e.db].sidecar = IF e.linked THEN "own" ELSE "foreign"
         /\ g[e.db] \in Directory /\ g[e.db].dir = f[e.db].dir /\ g[e.db].wal = f[e.db].wal
         /\ g[e.db].facts = f[e.db].facts /\ g[e.db].config = f[e.db].config
<1> DEFINE y == [f[e.db] EXCEPT !.sidecar = IF e.linked THEN "own" ELSE "foreign", !.saved = e.learned]
<1>1. /\ f[e.db] \in Directory /\ e.db \in Dbs /\ e.learned \in SUBSET Nat
      /\ Saved(f, e) = IF f[e.db].dir THEN [f EXCEPT ![e.db] = y] ELSE f
  BY DEF Saved, Engine
<1>2. /\ y \in Directory /\ y.dir = f[e.db].dir /\ y.wal = f[e.db].wal /\ y.facts = f[e.db].facts
      /\ y.config = f[e.db].config /\ y.saved = e.learned /\ y.sidecar = IF e.linked THEN "own" ELSE "foreign"
  BY <1>1 DEF Directory
<1> QED
  BY <1>1, <1>2

\* What flush_all writes for a database that is open.
LEMMA FlushedIs ==
  ASSUME InUse, NEW d \in Dbs
  PROVE  /\ Flushed[d] \in Directory
         /\ Flushed[d].dir = disk[d].dir
         /\ ~disk[d].dir => Flushed[d] = disk[d]
         /\ OpenFor(d) = {} => Flushed[d] = disk[d]
         /\ \A i \in OpenFor(d) : Flushed[d].saved \in {disk[d].saved, eng[i].learned}
         /\ Flushed[d].facts = disk[d].facts
         /\ \A i \in OpenFor(d) : eng[i].linked =>
              /\ Flushed[d].config = disk[d].config
              /\ Flushed[d].saved = eng[i].learned /\ Flushed[d].sidecar = "own"
              /\ Flushed[d].wal = "headed"
<1>0. disk \in [Dbs -> Directory] /\ disk[d] \in Directory
  BY DEF InUse, Shape
<1>1. CASE OpenFor(d) = {}
  <2>1. Flushed[d] = disk[d]
    BY <1>1 DEF Flushed
  <2> QED
    BY <1>0, <1>1, <2>1
<1>2. CASE OpenFor(d) # {}
  <2>0. PICK i \in OpenFor(d) : TRUE
    BY <1>2
  <2>1. OpenFor(d) = {i} /\ eng[i].db = d /\ i \in Engines /\ eng[i] \in Engine
    BY OpenForIs DEF InUse, Shape
  <2>2. (CHOOSE j \in OpenFor(d) : TRUE) = i
    BY <2>1
  <2> DEFINE g == Saved(disk, eng[i])[d]
  <2>4. /\ g \in Directory /\ g.dir = disk[d].dir /\ g.wal = disk[d].wal /\ g.facts = disk[d].facts
        /\ g.config = disk[d].config
        /\ ~disk[d].dir => g = disk[d]
        /\ disk[d].dir => g.saved = eng[i].learned /\ g.sidecar = IF eng[i].linked THEN "own" ELSE "foreign"
    BY <1>0, <2>1, SavedIs
  <2>5. Flushed[d] = [g EXCEPT !.wal = IF eng[i].linked THEN "headed" ELSE @]
    BY <1>2, <2>2 DEF Flushed
  <2> HIDE DEF g
  <2>6. /\ Flushed[d] \in Directory /\ Flushed[d].dir = g.dir /\ Flushed[d].facts = g.facts
        /\ Flushed[d].config = g.config /\ Flushed[d].saved = g.saved /\ Flushed[d].sidecar = g.sidecar
        /\ Flushed[d].wal = IF eng[i].linked THEN "headed" ELSE g.wal
    BY <2>4, <2>5 DEF Directory
  <2>7. ~eng[i].linked => Flushed[d] = g
    BY <2>4, <2>5 DEF Directory
  <2>8. eng[i].linked => disk[d].dir
    BY <2>1 DEF InUse, Named
  <2>9. ~disk[d].dir => Flushed[d] = disk[d]
    BY <2>4, <2>7, <2>8
  <2>10. g.saved \in {disk[d].saved, eng[i].learned}
    BY <2>4
  <2> QED
    BY <1>2, <2>1, <2>4, <2>6, <2>8, <2>9, <2>10
<1> QED
  BY <1>1, <1>2

\* Except where a database is opened, no log gets a name.
NoNewLog == \A i \in Engines : eng'[i].linked => eng[i].linked /\ eng'[i].db = eng[i].db

\* One directory is written, and none under a log that has its name.
LEMMA NamedAt ==
  ASSUME InUse, NoNewLog, NEW d \in Dbs, NEW x \in Directory, disk' = [disk EXCEPT ![d] = x],
         x.dir \/ x = NoDir,
         \A i \in Engines : eng'[i].linked /\ eng[i].db = d => x.dir /\ x.wal # "none"
  PROVE  disk' \in [Dbs -> Directory] /\ Named'
<1>0. disk \in [Dbs -> Directory] /\ eng \in [Engines -> Engine]
  BY DEF InUse, Shape
<1>1. \A y \in Dbs \ {d} : disk'[y] = disk[y]
  BY <1>0
<1>2. disk' \in [Dbs -> Directory] /\ disk'[d] = x
  BY <1>0
<1>3. \A y \in Dbs : ~disk'[y].dir => disk'[y] = NoDir
  BY <1>1, <1>2 DEF InUse, Named
<1>4. ASSUME NEW i \in Engines, eng'[i].linked PROVE disk'[eng'[i].db].dir /\ disk'[eng'[i].db].wal # "none"
  <2>1. eng'[i].db = eng[i].db /\ eng[i].linked /\ eng[i].db \in Dbs
    BY <1>0, <1>4 DEF NoNewLog, Engine
  <2> QED
    BY <1>1, <1>2, <1>4, <2>1 DEF InUse, Named
<1> QED
  BY <1>2, <1>3, <1>4 DEF Named

LEMMA NamedSame ==
  ASSUME InUse, NoNewLog, disk' = disk
  PROVE  disk' \in [Dbs -> Directory] /\ Named'
BY DEF InUse, Shape, Named, NoNewLog

\* An engine is closed, or its sidecar is saved.
LEMMA ClosingNamed ==
  ASSUME InUse, NoNewLog, NEW i \in ToSet(map), Idle(i), disk' = Closing(i)
  PROVE  disk' \in [Dbs -> Directory] /\ Named'
<1> DEFINE d == eng[i].db
           x == [disk[d] EXCEPT !.wal = "headed"]
<1>1. d \in Dbs /\ disk \in [Dbs -> Directory] /\ disk[d] \in Directory /\ i \in Engines
  BY ClosingIs, OpenForIs DEF InUse, Shape
<1>2. CASE eng[i].linked
  <2>1. disk' = [disk EXCEPT ![d] = x] /\ disk[d].dir
    BY <1>1, <1>2, ClosingIs DEF InUse, Named
  <2>2. x \in Directory /\ x.dir /\ x.wal # "none"
    BY <1>1, <2>1 DEF Directory
  <2> QED
    BY <1>1, <2>1, <2>2, NamedAt
<1>3. CASE ~eng[i].linked
  BY <1>3, ClosingIs, NamedSame
<1> QED
  BY <1>2, <1>3

LEMMA SavedNamed ==
  ASSUME InUse, NoNewLog, NEW e \in Engine, disk' = Saved(disk, e)
  PROVE  disk' \in [Dbs -> Directory] /\ Named'
<1> DEFINE x == [disk[e.db] EXCEPT !.sidecar = IF e.linked THEN "own" ELSE "foreign", !.saved = e.learned]
<1>1. /\ e.db \in Dbs /\ disk \in [Dbs -> Directory] /\ disk[e.db] \in Directory /\ e.learned \in SUBSET Nat
      /\ eng \in [Engines -> Engine]
  BY DEF InUse, Shape, Engine
<1>2. CASE disk[e.db].dir
  <2>1. disk' = [disk EXCEPT ![e.db] = x]
    BY <1>1, <1>2 DEF Saved
  <2>2. x \in Directory /\ x.dir /\ x.wal = disk[e.db].wal
    BY <1>1, <1>2 DEF Directory
  <2>3. \A i \in Engines : eng'[i].linked /\ eng[i].db = e.db => x.wal # "none"
    BY <2>2 DEF NoNewLog, InUse, Named
  <2> HIDE DEF x
  <2> QED
    BY <1>1, <2>1, <2>2, <2>3, NamedAt
<1>3. CASE ~disk[e.db].dir
  BY <1>3, NamedSame DEF Saved
<1> QED
  BY <1>2, <1>3
LEMMA HandlersNoNewLog ==
  ASSUME InUse, NEW w \in Workers, Serve(w), ~ResolveOpens(w)
  PROVE  NoNewLog
<1>0. eng \in [Engines -> Engine] /\ Closed.linked = FALSE
  BY DEF InUse, Shape, Closed
<1>a. CASE eng' = eng
  BY <1>a DEF NoNewLog
<1>b. ASSUME NEW i, eng' = WithoutEngine(i) PROVE NoNewLog
  BY <1>0, <1>b DEF WithoutEngine, NoNewLog
<1>1. CASE Evict(w)
  BY <1>a, <1>b, <1>1 DEF Evict
<1>2. CASE Drop(w)
  BY <1>a, <1>b, <1>2 DEF Drop
<1>3. CASE Ingest(w) \/ Touch(w) \/ Feedback(w) \/ Configure(w)
  BY <1>3, HandlerIs DEF NoNewLog
<1>6. ASSUME NEW f, Unlink(w, f) PROVE NoNewLog
  <2>1. CASE f = "wal"
    <3>1. \A i \in Engines : eng'[i] = IF eng[i].db = job[w].db THEN [eng[i] EXCEPT !.linked = FALSE] ELSE eng[i]
      BY <1>6, <2>1 DEF Unlink
    <3>2. \A i \in Engines : [eng[i] EXCEPT !.linked = FALSE].linked = FALSE
      BY <1>0 DEF Engine
    <3> QED
      BY <3>1, <3>2 DEF NoNewLog
  <2> QED
    BY <1>6, <1>a, <2>1 DEF Unlink
<1>7. CASE ResolveHit(w) \/ ResolveRefused(w) \/ Capacity(w) \/ Recheck(w) \/ Read(w) \/ Configured(w) \/ Rmdir(w)
  BY <1>7, <1>a DEF ResolveHit, ResolveRefused, Capacity, Recheck, Read, Configured, Rmdir
<1> QED
  BY <1>1, <1>2, <1>3, <1>6, <1>7 DEF Serve

\* The directory of a worker's database.
LEMMA Target ==
  ASSUME InUse, NEW w \in Workers
  PROVE  /\ job[w].db \in Dbs /\ disk \in [Dbs -> Directory] /\ disk[job[w].db] \in Directory
         /\ eng \in [Engines -> Engine]
BY DEF InUse, Shape, Workings, Job

LEMMA IngestNamed ==
  ASSUME InUse, NEW w \in Workers, Ingest(w), NoNewLog
  PROVE  disk' \in [Dbs -> Directory] /\ Named'
<1> DEFINE d == job[w].db
           x == [disk[d] EXCEPT !.facts = @ \cup News, !.wal = "headed"]
<1>1. eng[holds[w]].db = d /\ holds[w] \in Engines
  BY HeldIs, ServingIs DEF Ingest
<1>n. News \in SUBSET Nat
  BY NewsIs DEF InUse, Shape, Histories
<1>2. CASE eng[holds[w]].linked
  <2>1. disk' = [disk EXCEPT ![d] = x] /\ disk[d].dir
    BY <1>1, <1>2, Target DEF Ingest, InUse, Named
  <2>2. x \in Directory /\ x.dir /\ x.wal = "headed"
    BY <1>n, <2>1, Target DEF Directory
  <2> HIDE DEF x
  <2> QED
    BY <2>1, <2>2, Target, NamedAt
<1>3. CASE ~eng[holds[w]].linked
  BY <1>3, NamedSame DEF Ingest
<1> QED
  BY <1>2, <1>3

LEMMA FeedbackNamed ==
  ASSUME InUse, NEW w \in Workers, Feedback(w), NoNewLog
  PROVE  disk' \in [Dbs -> Directory] /\ Named'
<1>1. eng'[holds[w]] \in Engine
  BY HeldIs, ServingIs, EnginesStep DEF Feedback, Next, Serve
<1> QED
  BY <1>1, SavedNamed DEF Feedback

LEMMA ConfigNamed ==
  ASSUME InUse, NEW w \in Workers, Configure(w) \/ Configured(w) \/ ResolveRefused(w), NoNewLog
  PROVE  disk' \in [Dbs -> Directory] /\ Named'
<1> DEFINE d == job[w].db
<1>1. ASSUME NEW c \in {"torn", "good"}, disk[d].dir, disk' = [disk EXCEPT ![d].config = c]
      PROVE  disk' \in [Dbs -> Directory] /\ Named'
  <2> DEFINE x == [disk[d] EXCEPT !.config = c]
  <2>1. disk' = [disk EXCEPT ![d] = x]
    BY <1>1, Target
  <2>2. x \in Directory /\ x.dir /\ x.wal = disk[d].wal
    BY <1>1, Target DEF Directory
  <2>3. \A i \in Engines : eng'[i].linked /\ eng[i].db = d => x.wal # "none"
    BY <2>2 DEF NoNewLog, InUse, Named
  <2> HIDE DEF x
  <2> QED
    BY <2>1, <2>2, <2>3, Target, NamedAt
<1>2. CASE disk' = disk
  BY <1>2, NamedSame
<1>3. CASE Configure(w)
  BY <1>1, <1>2, <1>3 DEF Configure
<1>4. CASE Configured(w)
  <2>1. disk[d].config = "torn" => disk[d].dir
    BY Target DEF InUse, Named, NoDir
  <2> QED
    BY <1>1, <1>2, <1>4, <2>1 DEF Configured
<1>5. CASE disk' = [disk EXCEPT ![d].dir = TRUE]
  <2> DEFINE x == [disk[d] EXCEPT !.dir = TRUE]
  <2>1. disk' = [disk EXCEPT ![d] = x]
    BY <1>5, Target
  <2>2. x \in Directory /\ x.dir /\ x.wal = disk[d].wal
    BY Target DEF Directory
  <2>3. \A i \in Engines : eng'[i].linked /\ eng[i].db = d => x.wal # "none"
    BY <2>2 DEF NoNewLog, InUse, Named
  <2> HIDE DEF x
  <2> QED
    BY <2>1, <2>2, <2>3, Target, NamedAt
<1> QED
  BY <1>2, <1>3, <1>4, <1>5 DEF ResolveRefused
LEMMA UnlinkIs ==
  ASSUME InUse, NEW w \in Workers, NEW f, f \in Files(job[w].db), Unlink(w, f)
  PROVE  LET d == job[w].db IN
         /\ \E x \in Directory :
              /\ disk' = [disk EXCEPT ![d] = x] /\ x.dir
              /\ x.wal = IF f = "wal" THEN "none" ELSE disk[d].wal
              /\ x.config = IF f = "config" THEN "none" ELSE disk[d].config
              /\ x.sidecar # "none" => (disk[d].sidecar # "none" /\ f # "sidecar")
              /\ x.facts \subseteq disk[d].facts /\ x.saved \subseteq disk[d].saved
         /\ f = "wal" => \A i \in Engines : eng[i].db = d => ~eng'[i].linked
<1> DEFINE d == job[w].db
           y == disk[d]
           a == [y EXCEPT !.wal = "none", !.facts = {}, !.sidecar = IF @ = "own" THEN "foreign" ELSE @]
           b == [y EXCEPT !.sidecar = "none", !.saved = {}]
           c == [y EXCEPT !.config = "none"]
<1>0. y \in Directory /\ disk \in [Dbs -> Directory] /\ d \in Dbs
  BY Target
<1>1. f \in {"wal", "sidecar", "config"} /\ disk[d][f] # "none"
  BY DEF Files
<1>2. y.dir
  BY <1>1, <1>0 DEF InUse, Named, NoDir
<1>3. CASE f = "wal"
  <2>1. disk' = [disk EXCEPT ![d] = a]
    BY <1>0, <1>3 DEF Unlink
  <2>2. /\ a \in Directory /\ a.dir = y.dir /\ a.wal = "none" /\ a.config = y.config
        /\ a.sidecar # "none" => y.sidecar # "none"
        /\ a.facts = {} /\ a.saved = y.saved
    BY <1>0 DEF Directory
  <2>3. ASSUME NEW i \in Engines, eng[i].db = d PROVE ~eng'[i].linked
    <3>1. eng'[i] = [eng[i] EXCEPT !.linked = FALSE]
      BY <1>3, <2>3 DEF Unlink
    <3> QED
      BY <3>1, Target DEF Engine
  <2> HIDE DEF a
  <2> QED
    BY <1>2, <1>3, <2>1, <2>2, <2>3
<1>4. CASE f = "sidecar"
  <2>1. disk' = [disk EXCEPT ![d] = b]
    BY <1>0, <1>4 DEF Unlink
  <2>2. /\ b \in Directory /\ b.dir = y.dir /\ b.wal = y.wal /\ b.config = y.config /\ b.sidecar = "none"
        /\ b.facts = y.facts /\ b.saved = {}
    BY <1>0 DEF Directory
  <2> HIDE DEF b
  <2> QED
    BY <1>2, <1>4, <2>1, <2>2
<1>5. CASE f = "config"
  <2>1. disk' = [disk EXCEPT ![d] = c]
    BY <1>0, <1>5 DEF Unlink
  <2>2. /\ c \in Directory /\ c.dir = y.dir /\ c.wal = y.wal /\ c.config = "none" /\ c.sidecar = y.sidecar
        /\ c.facts = y.facts /\ c.saved = y.saved
    BY <1>0 DEF Directory
  <2> HIDE DEF c
  <2> QED
    BY <1>2, <1>5, <2>1, <2>2
<1> QED
  BY <1>1, <1>3, <1>4, <1>5

LEMMA UnlinkNamed ==
  ASSUME InUse, NEW w \in Workers, NEW f, f \in Files(job[w].db), Unlink(w, f), NoNewLog
  PROVE  disk' \in [Dbs -> Directory] /\ Named'
<1> DEFINE d == job[w].db
<1>1. PICK x \in Directory : /\ disk' = [disk EXCEPT ![d] = x] /\ x.dir
                             /\ x.wal = IF f = "wal" THEN "none" ELSE disk[d].wal
  BY UnlinkIs
<1>2. ASSUME NEW i \in Engines, eng'[i].linked, eng[i].db = d PROVE x.wal # "none"
  <2>1. f # "wal"
    BY <1>2, UnlinkIs
  <2> QED
    BY <1>1, <1>2, <2>1 DEF NoNewLog, InUse, Named
<1> QED
  BY <1>1, <1>2, Target, NamedAt

LEMMA RmdirNamed ==
  ASSUME InUse, NEW w \in Workers, Rmdir(w), NoNewLog
  PROVE  disk' \in [Dbs -> Directory] /\ Named'
<1> DEFINE d == job[w].db
<1>1. CASE Files(d) = {}
  <2>1. disk' = [disk EXCEPT ![d] = NoDir]
    BY <1>1 DEF Rmdir
  <2>2. disk[d].wal = "none"
    <3>1. "wal" \in {"wal", "sidecar", "config"} /\ "wal" \notin Files(d) /\ disk[d]["wal"] = disk[d].wal
      BY <1>1
    <3> QED
      BY <3>1 DEF Files
  <2>3. \A i \in Engines : ~(eng'[i].linked /\ eng[i].db = d)
    BY <2>2 DEF NoNewLog, InUse, Named
  <2> QED
    BY <2>1, <2>3, RecordTypes, Target, NamedAt
<1>2. CASE Files(d) # {}
  BY <1>2, NamedSame DEF Rmdir
<1> QED
  BY <1>1, <1>2

\* A directory that gets a log has a name for it; a strange one has it already.
LEMMA OpensNamed ==
  ASSUME InUse, NEW w \in Workers, ResolveOpens(w)
  PROVE  disk' \in [Dbs -> Directory] /\ Named'
<1> DEFINE d == job[w].db
<1>1. PICK V \in SUBSET Victims, left \in [Dbs -> Directory] : OpensWith(w, V, left)
  BY OpensIs
<1>0. /\ d \in Dbs /\ disk \in [Dbs -> Directory] /\ eng \in [Engines -> Engine] /\ Closed.linked = FALSE
      /\ Opened(d).db = d /\ V \subseteq Engines
  BY Target, OpenForIs DEF Closed, Opened, Victims
<1>2. \A x \in Dbs : left[x] = IF \E v \in V : eng[v].db = x /\ eng[v].linked
                              THEN [disk[x] EXCEPT !.wal = "headed"] ELSE disk[x]
  BY <1>1 DEF OpensWith, LeftBy
<1>3. ASSUME NEW x \in Dbs
      PROVE  /\ left[x].dir = disk[x].dir
             /\ disk[x].wal # "none" => left[x].wal # "none"
             /\ ~left[x].dir => left[x] = NoDir
  <2>1. CASE \E v \in V : eng[v].db = x /\ eng[v].linked
    <3>1. left[x] = [disk[x] EXCEPT !.wal = "headed"] /\ disk[x].dir
      BY <1>0, <1>2, <2>1 DEF InUse, Named
    <3>2. disk[x] \in Directory
      BY <1>0
    <3> QED
      BY <3>1, <3>2 DEF Directory
  <2>2. CASE ~\E v \in V : eng[v].db = x /\ eng[v].linked
    BY <1>2, <2>2 DEF InUse, Named
  <2> QED
    BY <2>1, <2>2
<1>4. /\ disk' \in [Dbs -> Directory] /\ \A x \in Dbs : x # d => disk'[x] = left[x]
      /\ left[d].wal # "none" => disk'[d].wal # "none"
      /\ left[d].dir => disk'[d].dir
      /\ ~disk'[d].dir => disk'[d] = left[d]
      /\ Opens(d) => disk'[d].dir /\ disk'[d].wal # "none"
  <2>1. disk' = WithLog(left, d) \/ (~Opens(d) /\ disk' = left) \/ (~Opens(d) /\ disk' = WithStrangeLog(left, d))
    BY <1>1 DEF OpensWith
  <2>2. disk' \in [Dbs -> Directory]
    <3>1. WithLog(left, d) \in [Dbs -> Directory] /\ WithStrangeLog(left, d) \in [Dbs -> Directory]
      BY <1>0, DirectoryOps, RecordTypes
    <3> QED
      BY <2>1, <3>1
  <2>3. CASE disk' = WithLog(left, d)
    BY <1>0, <2>2, <2>3, WithLogIs
  <2>4. CASE ~Opens(d) /\ disk' = left
    BY <2>2, <2>4
  <2>5. CASE ~Opens(d) /\ disk' = WithStrangeLog(left, d)
    BY <1>0, <2>2, <2>5, StrangeLogIs
  <2> QED
    BY <2>1, <2>3, <2>4, <2>5
<1>5. \A x \in Dbs : ~disk'[x].dir => disk'[x] = NoDir
  BY <1>0, <1>3, <1>4
<1>6. ASSUME NEW i \in Engines, eng'[i].linked
      PROVE  disk'[eng'[i].db].dir /\ disk'[eng'[i].db].wal # "none"
  <2>1. \/ eng'[i] = Opened(d) /\ Opens(d)
        \/ eng'[i] = Closed
        \/ eng'[i] = eng[i]
    BY <1>1 DEF OpensWith
  <2>2. CASE eng'[i] = Opened(d) /\ Opens(d)
    BY <1>0, <1>4, <2>2
  <2>3. CASE eng'[i] = eng[i]
    <3>1. eng[i].db \in Dbs /\ disk[eng[i].db].dir /\ disk[eng[i].db].wal # "none"
      BY <1>0, <1>6, <2>3 DEF Engine, InUse, Named
    <3>2. left[eng[i].db].dir /\ left[eng[i].db].wal # "none"
      BY <1>3, <3>1
    <3> QED
      BY <1>4, <2>3, <3>1, <3>2
  <2> QED
    BY <1>0, <1>6, <2>1, <2>2, <2>3
<1> QED
  BY <1>4, <1>5, <1>6 DEF Named
LEMMA StartNamed ==
  ASSUME InUse, Start
  PROVE  disk' \in [Dbs -> Directory] /\ Named'
<1>0. /\ Default \in Dbs /\ disk \in [Dbs -> Directory] /\ eng \in [Engines -> Engine]
      /\ Opened(Default).db = Default /\ disk' = WithLog(disk, Default)
      /\ eng' = [eng EXCEPT ![NewEngine] = Opened(Default)]
  BY RegistryAssumption DEF InUse, Shape, Opened, Start
<1>1. disk' \in [Dbs -> Directory]
  BY <1>0, DirectoryOps, RecordTypes
<1>2. /\ \A x \in Dbs \ {Default} : disk'[x] = disk[x]
      /\ disk'[Default].dir /\ disk'[Default].wal # "none"
  BY <1>0, WithLogIs
<1>3. \A x \in Dbs : ~disk'[x].dir => disk'[x] = NoDir
  BY <1>2 DEF InUse, Named
<1>4. ASSUME NEW i \in Engines, eng'[i].linked
      PROVE  disk'[eng'[i].db].dir /\ disk'[eng'[i].db].wal # "none"
  <2>1. eng'[i] = Opened(Default) \/ (eng'[i] = eng[i] /\ eng[i].db \in Dbs)
    BY <1>0 DEF Engine
  <2> QED
    BY <1>0, <1>2, <1>4, <2>1 DEF InUse, Named
<1> QED
  BY <1>1, <1>3, <1>4 DEF Named

LEMMA EndNamed ==
  ASSUME InUse, Shutdown \/ Crash
  PROVE  disk' \in [Dbs -> Directory] /\ Named'
<1>1. \A i \in Engines : ~eng'[i].linked
  BY DEF Shutdown, Crash, Closed
<1>2. CASE Shutdown
  <2>1. disk' = Flushed
    BY <1>2 DEF Shutdown
  <2>2. disk' \in [Dbs -> Directory] /\ \A d \in Dbs : ~disk'[d].dir => disk'[d] = disk[d] /\ ~disk[d].dir
    <3>1. \A d \in Dbs : Flushed[d] \in Directory /\ (~Flushed[d].dir => Flushed[d] = disk[d] /\ ~disk[d].dir)
      BY FlushedIs
    <3>2. Flushed = [d \in Dbs |-> Flushed[d]]
      BY DEF Flushed
    <3> QED
      BY <2>1, <3>1, <3>2
  <2> QED
    BY <1>1, <2>2 DEF InUse, Named
<1>3. CASE Crash
  <2>1. ASSUME NEW d \in Dbs
        PROVE  disk'[d] \in Directory /\ disk'[d].dir = disk[d].dir /\ (~disk[d].dir => disk'[d] = NoDir)
    <3> DEFINE x == [disk[d] EXCEPT !.sidecar = "foreign"]
    <3>1. disk[d] \in Directory /\ (~disk[d].dir => disk[d] = NoDir /\ disk[d].sidecar = "none")
      BY DEF InUse, Shape, Named, NoDir
    <3>2. disk'[d] = disk[d] \/ (disk'[d] = x /\ disk[d].sidecar # "none")
      BY <1>3 DEF Crash
    <3>3. x \in Directory /\ x.dir = disk[d].dir
      BY <3>1 DEF Directory
    <3> HIDE DEF x
    <3> QED
      BY <3>1, <3>2, <3>3
  <2>2. \A d \in Dbs : disk'[d] \in Directory
    BY <2>1
  <2>3. \A d \in Dbs : ~disk'[d].dir => disk'[d] = NoDir
    BY <2>1
  <2>4. disk' \in [Dbs -> Directory]
    <3>1. disk' = [d \in Dbs |-> disk'[d]]
      BY <1>3 DEF Crash
    <3> QED
      BY <2>2, <3>1
  <2> QED
    BY <1>1, <2>3, <2>4 DEF Named
<1> QED
  BY <1>2, <1>3

LEMMA DirectoriesStep ==
  ASSUME InUse, [Next]_vars
  PROVE  disk' \in [Dbs -> Directory] /\ Named'
<1>1. CASE disk' = disk /\ eng' = eng
  BY <1>1, NamedSame DEF NoNewLog
<1>2. ASSUME NEW w \in Workers, Serve(w) PROVE disk' \in [Dbs -> Directory] /\ Named'
  <2>1. CASE ResolveOpens(w)
    BY <2>1, OpensNamed
  <2>2. CASE ~ResolveOpens(w)
    <3>0. NoNewLog
      BY <1>2, <2>2, HandlersNoNewLog
    <3>1. CASE disk' = disk
      BY <3>0, <3>1, NamedSame
    <3>2. CASE Ingest(w)
      BY <3>0, <3>2, IngestNamed
    <3>3. CASE Feedback(w)
      BY <3>0, <3>3, FeedbackNamed
    <3>4. CASE Configure(w) \/ Configured(w) \/ ResolveRefused(w)
      BY <3>0, <3>4, ConfigNamed
    <3>5. CASE Rmdir(w)
      BY <3>0, <3>5, RmdirNamed
    <3>6. ASSUME NEW f \in Files(job[w].db), Unlink(w, f) PROVE disk' \in [Dbs -> Directory] /\ Named'
      BY <3>0, <3>6, UnlinkNamed
    <3>7. CASE Evict(w)
      <4>1. CASE Victims # {} /\ disk' = Closing(Victim)
        <5>1. Victim \in ToSet(map) /\ Idle(Victim)
          BY <4>1, VictimIs DEF Victims, InUse, Shape, MapOK
        <5> QED
          BY <3>0, <4>1, <5>1, ClosingNamed
      <4> QED
        BY <3>1, <3>7, <4>1 DEF Evict
    <3>8. CASE Drop(w)
      <4>1. ASSUME NEW i \in OpenFor(job[w].db), ~DropBusy(job[w].db), disk' = Closing(i)
            PROVE  disk' \in [Dbs -> Directory] /\ Named'
        BY <3>0, <4>1, ClosingNamed, OpenForIs DEF DropBusy
      <4> QED
        BY <3>1, <3>8, <4>1 DEF Drop
    <3>9. CASE ResolveHit(w) \/ Capacity(w) \/ Recheck(w) \/ Read(w) \/ Touch(w)
      BY <3>1, <3>9 DEF ResolveHit, Capacity, Recheck, Read, Touch
    <3> QED
      BY <1>2, <2>2, <3>2, <3>3, <3>4, <3>5, <3>6, <3>7, <3>8, <3>9 DEF Serve
  <2> QED
    BY <2>1, <2>2
<1>3. ASSUME NEW i \in Engines, Maintain(i) PROVE disk' \in [Dbs -> Directory] /\ Named'
  <2>1. eng[i] \in Engine /\ NoNewLog
    BY <1>3 DEF Maintain, NoNewLog, InUse, Shape
  <2> QED
    BY <1>3, <2>1, SavedNamed DEF Maintain
<1>4. CASE MaintenanceDue \/ UNCHANGED vars
  BY <1>1, <1>4 DEF MaintenanceDue, vars
<1>5. ASSUME NEW w \in Workers, NEW d, NEW op, Receive(w, d, op) PROVE disk' \in [Dbs -> Directory] /\ Named'
  BY <1>1, <1>5 DEF Receive
<1> QED
  BY <1>2, <1>3, <1>4, <1>5, StartNamed, EndNamed DEF Next

-----------------------------------------------------------------------------
(* What a request holds is open. *)

LEMMA InUseInit ==
  ASSUME Init
  PROVE  InUse
<1>1. Workings
  BY RecordTypes DEF Init, Workings, Labels
<1>2. ToSet(map) = {} /\ MapOK
  BY DEF Init, MapOK, Distinct, ToSet
<1>3. Histories
  <2>1. 0 \in 0 .. MaxWrites
    BY RegistryAssumption
  <2> QED
    BY <2>1, RecordTypes DEF Init, Histories
<1>4. eng \in [Engines -> Engine] /\ disk \in [Dbs -> Directory]
  BY RecordTypes DEF Init
<1>5. OneEach /\ Held
  BY <1>2 DEF Init, OneEach, Held, Serving
<1>6. Named
  BY DEF Init, Named, Closed, NoDir
<1> QED
  BY <1>1, <1>2, <1>3, <1>4, <1>5, <1>6 DEF Init, InUse, Shape, Stopped

LEMMA InUseStep ==
  ASSUME InUse, [Next]_vars
  PROVE  InUse'
BY WorkingsStep, MapStep, HistoriesStep, EnginesStep, DirectoriesStep, HeldStep, StoppedStep DEF InUse, Shape

LEMMA InUseAlways == Spec => []InUse
BY InUseInit, InUseStep, PTL DEF Spec

\* What a worker or the maintenance thread holds is the one engine the map has
\* for its database: an eviction or a drop never closes a database that is in
\* use, and none is opened twice.
THEOREM InUseStaysOpen == Spec => []InUseIsOpen
<1>1. ASSUME InUse PROVE InUseIsOpen
  <2>1. ASSUME NEW w \in Workers, holds[w] # None PROVE OpenFor(job[w].db) = {holds[w]}
    BY <1>1, <2>1, HeldIs DEF InUse, Held
  <2> QED
    BY <1>1, <2>1 DEF InUseIsOpen, InUse, Held
<1> QED
  BY <1>1, InUseAlways, PTL
-----------------------------------------------------------------------------
(* Nothing is known that was not written: the types of the model. *)

LEMMA LeftIs ==
  ASSUME InUse, NEW V, NEW g, LeftBy(V, g), NEW x \in Dbs
  PROVE  /\ g[x].dir = disk[x].dir /\ g[x].facts = disk[x].facts /\ g[x].saved = disk[x].saved
         /\ g[x].sidecar = disk[x].sidecar /\ g[x].config = disk[x].config
         /\ (\A v \in V : eng[v].db # x) => g[x] = disk[x]
         /\ (\E v \in V : eng[v].db = x /\ eng[v].linked) => g[x].wal = "headed"
<1>1. disk[x] \in Directory
  BY DEF InUse, Shape
<1>2. CASE \E v \in V : eng[v].db = x /\ eng[v].linked
  <2>1. g[x] = [disk[x] EXCEPT !.wal = "headed"]
    BY <1>2 DEF LeftBy
  <2>2. /\ g[x].dir = disk[x].dir /\ g[x].facts = disk[x].facts /\ g[x].saved = disk[x].saved
        /\ g[x].sidecar = disk[x].sidecar /\ g[x].config = disk[x].config /\ g[x].wal = "headed"
    BY <1>1, <2>1 DEF Directory
  <2> QED
    BY <1>2, <2>2
<1>3. CASE ~\E v \in V : eng[v].db = x /\ eng[v].linked
  <2>1. g[x] = disk[x]
    BY <1>3 DEF LeftBy
  <2> QED
    BY <1>3, <2>1
<1> QED
  BY <1>2, <1>3

LEMMA ClosingLeft ==
  ASSUME InUse, NEW i \in ToSet(map), Idle(i)
  PROVE  LeftBy({i}, Closing(i))
<1>1. /\ disk \in [Dbs -> Directory] /\ eng[i].db \in Dbs
      /\ Closing(i) = IF eng[i].linked THEN [disk EXCEPT ![eng[i].db].wal = "headed"] ELSE disk
  BY ClosingIs DEF InUse, Shape
<1> QED
  BY <1>1 DEF LeftBy

Within(K, e) == e.facts \subseteq K /\ e.learned \subseteq K
FilesWithin(K, x) == x.facts \subseteq K /\ x.saved \subseteq K

LEMMA KnownIs ==
  ASSUME InUse, Known, [Next]_vars
  PROVE  LET K == 1 .. writes' IN
         /\ \A i \in Engines : Within(K, eng[i])
         /\ \A d \in Dbs : FilesWithin(K, disk[d])
         /\ Within(K, Closed) /\ FilesWithin(K, NoDir)
         /\ \A d \in Dbs : Within(K, Opened(d))
         /\ writes' = writes + Cardinality(News) => News \subseteq K
<1>1. /\ writes \in 0 .. MaxWrites /\ writes' \in 0 .. MaxWrites /\ writes <= writes'
      /\ MaxWrites \in Nat
  BY HistoriesStep, RegistryAssumption DEF InUse, Shape, Histories
<1>2. 1 .. writes \subseteq 1 .. writes'
  BY <1>1
<1>3. \A i \in Engines : Within(1 .. writes', eng[i])
  BY <1>2 DEF Known, Within
<1>4. \A d \in Dbs : FilesWithin(1 .. writes', disk[d])
  BY <1>2 DEF Known, FilesWithin
<1>5. \A d \in Dbs : Within(1 .. writes', Opened(d))
  BY <1>4 DEF FilesWithin, Within, Opened
<1>6. writes' = writes + Cardinality(News) => News \subseteq 1 .. writes'
  BY <1>1, NewsIs
<1> QED
  BY <1>3, <1>4, <1>5, <1>6 DEF Within, FilesWithin, Closed, NoDir

LEMMA EnginesKnown ==
  ASSUME InUse, Known, [Next]_vars, NEW i \in Engines
  PROVE  Within(1 .. writes', eng'[i])
<1> DEFINE K == 1 .. writes'
<1>0. Within(K, eng[i]) /\ Within(K, Closed) /\ \A d \in Dbs : Within(K, Opened(d))
  BY KnownIs
<1>1. CASE eng'[i] \in {eng[i], Closed} \cup {Opened(d) : d \in Dbs}
  BY <1>0, <1>1
<1>2. ASSUME NEW w \in Workers, Serve(w) PROVE Within(K, eng'[i])
  <2>1. CASE Ingest(w) \/ Touch(w) \/ Feedback(w) \/ Configure(w)
    <3>1. CASE i = holds[w]
      <4>1. Ingest(w) \/ Touch(w) \/ Feedback(w) => News \subseteq K
        BY KnownIs DEF Ingest, Touch, Feedback
      <4> QED
        BY <1>0, <2>1, <3>1, <4>1, HandlerIs DEF Within
    <3>2. CASE i # holds[w]
      BY <1>1, <2>1, <3>2, HandlerIs
    <3> QED
      BY <3>1, <3>2
  <2>2. CASE ResolveOpens(w)
    <3>1. PICK V \in SUBSET Victims, left \in [Dbs -> Directory] : OpensWith(w, V, left)
      BY <2>2, OpensIs
    <3>2. eng'[i] \in {eng[i], Closed, Opened(job[w].db)} /\ job[w].db \in Dbs
      BY <3>1, Target DEF OpensWith
    <3> QED
      BY <1>1, <3>2
  <2>3. ASSUME NEW j, eng' = WithoutEngine(j) PROVE Within(K, eng'[i])
    <3>1. eng'[i] \in {eng[i], Closed}
      BY <2>3 DEF WithoutEngine, InUse, Shape
    <3> QED
      BY <1>1, <3>1
  <2>4. CASE eng' = eng
    BY <1>1, <2>4
  <2>5. CASE Evict(w) \/ Drop(w)
    BY <2>3, <2>4, <2>5 DEF Evict, Drop
  <2>6. ASSUME NEW f, Unlink(w, f) PROVE Within(K, eng'[i])
    <3>1. eng'[i] = eng[i] \/ eng'[i] = [eng[i] EXCEPT !.linked = FALSE]
      BY <2>6 DEF Unlink, InUse, Shape
    <3>2. eng[i] \in Engine
      BY DEF InUse, Shape
    <3> QED
      BY <1>0, <3>1, <3>2 DEF Within, Engine
  <2>7. CASE ResolveHit(w) \/ ResolveRefused(w) \/ Capacity(w) \/ Recheck(w) \/ Read(w) \/ Configured(w) \/ Rmdir(w)
    BY <2>4, <2>7 DEF ResolveHit, ResolveRefused, Capacity, Recheck, Read, Configured, Rmdir
  <2> QED
    BY <1>2, <2>1, <2>2, <2>5, <2>6, <2>7 DEF Serve
<1>3. CASE Start
  <2>1. eng'[i] \in {eng[i], Opened(Default)} /\ Default \in Dbs
    BY <1>3, RegistryAssumption DEF Start, InUse, Shape
  <2> QED
    BY <1>1, <2>1
<1>4. CASE Shutdown \/ Crash
  BY <1>1, <1>4 DEF Shutdown, Crash
<1>5. CASE MaintenanceDue \/ (\E j \in Engines : Maintain(j)) \/ UNCHANGED vars
  BY <1>1, <1>5 DEF MaintenanceDue, Maintain, vars
<1>6. ASSUME NEW w \in Workers, NEW d, NEW op, Receive(w, d, op) PROVE Within(K, eng'[i])
  BY <1>1, <1>6 DEF Receive
<1> QED
  BY <1>2, <1>3, <1>4, <1>5, <1>6 DEF Next

LEMMA FilesKnown ==
  ASSUME InUse, Known, [Next]_vars, NEW d \in Dbs
  PROVE  FilesWithin(1 .. writes', disk'[d])
<1> DEFINE K == 1 .. writes'
<1>0. /\ FilesWithin(K, disk[d]) /\ FilesWithin(K, NoDir) /\ \A i \in Engines : Within(K, eng[i])
      /\ disk \in [Dbs -> Directory] /\ disk[d] \in Directory
  BY KnownIs DEF InUse, Shape
<1>1. CASE disk'[d].facts = disk[d].facts /\ disk'[d].saved = disk[d].saved
  BY <1>0, <1>1 DEF FilesWithin
<1>s. ASSUME NEW e \in Engine, Within(K, e), disk' = Saved(disk, e) PROVE FilesWithin(K, disk'[d])
  <2>1. CASE d = e.db
    BY <1>0, <1>s, <2>1, SavedIs DEF FilesWithin, Within
  <2>2. CASE d # e.db
    BY <1>0, <1>s, <2>2, SavedIs
  <2> QED
    BY <2>1, <2>2
<1>2. ASSUME NEW w \in Workers, Serve(w) PROVE FilesWithin(K, disk'[d])
  <2>0. CASE disk' = disk
    BY <1>1, <2>0
  <2>1. CASE Ingest(w)
    <3>1. News \subseteq K
      BY <2>1, KnownIs DEF Ingest
    <3>2. disk'[d] = disk[d] \/ disk'[d] = [disk[d] EXCEPT !.facts = @ \cup News, !.wal = "headed"]
      BY <1>0, <2>1 DEF Ingest
    <3> QED
      BY <1>0, <3>1, <3>2 DEF FilesWithin, Directory
  <2>2. CASE Feedback(w)
    <3>1. eng'[holds[w]] \in Engine /\ Within(K, eng'[holds[w]])
      BY <2>2, HandlerIs, EnginesKnown
    <3> QED
      BY <1>s, <2>2, <3>1 DEF Feedback
  <2>3. CASE Configure(w) \/ Configured(w) \/ ResolveRefused(w)
    <3>1. ASSUME NEW c, disk' = [disk EXCEPT ![job[w].db].config = c]
          PROVE  disk'[d].facts = disk[d].facts /\ disk'[d].saved = disk[d].saved
      <4>1. disk'[d] = disk[d] \/ disk'[d] = [disk[d] EXCEPT !.config = c]
        BY <1>0, <3>1
      <4> QED
        BY <1>0, <4>1 DEF Directory
    <3>2. ASSUME disk' = [disk EXCEPT ![job[w].db].dir = TRUE]
          PROVE  disk'[d].facts = disk[d].facts /\ disk'[d].saved = disk[d].saved
      <4>1. disk'[d] = disk[d] \/ disk'[d] = [disk[d] EXCEPT !.dir = TRUE]
        BY <1>0, <3>2
      <4> QED
        BY <1>0, <4>1 DEF Directory
    <3>3. \/ disk' = disk
          \/ \E c : disk' = [disk EXCEPT ![job[w].db].config = c]
          \/ disk' = [disk EXCEPT ![job[w].db].dir = TRUE]
      BY <2>3 DEF Configure, Configured, ResolveRefused
    <3> QED
      BY <1>1, <2>0, <3>1, <3>2, <3>3
  <2>4. CASE ResolveOpens(w)
    <3>1. PICK V \in SUBSET Victims, left \in [Dbs -> Directory] : OpensWith(w, V, left)
      BY <2>4, OpensIs
    <3>2. left[d].facts = disk[d].facts /\ left[d].saved = disk[d].saved
      <4>1. LeftBy(V, left)
        BY <3>1 DEF OpensWith
      <4> QED
        BY <4>1, LeftIs
    <3>3. disk'[d].facts = left[d].facts /\ disk'[d].saved = left[d].saved
      <4>1. \/ disk' = left
            \/ disk' = WithLog(left, job[w].db)
            \/ disk' = WithStrangeLog(left, job[w].db)
        BY <3>1 DEF OpensWith
      <4> QED
        BY <4>1, WithLogIs, StrangeLogIs, Target
    <3> QED
      BY <1>1, <3>2, <3>3
  <2>5. ASSUME NEW i \in ToSet(map), Idle(i), disk' = Closing(i) PROVE FilesWithin(K, disk'[d])
    <3>1. LeftBy({i}, disk')
      BY <2>5, ClosingLeft
    <3> QED
      BY <1>1, <3>1, LeftIs
  <2>6. CASE Evict(w)
    <3>1. Victims # {} => Victim \in ToSet(map) /\ Idle(Victim)
      BY VictimIs DEF Victims, InUse, Shape, MapOK
    <3> QED
      BY <2>0, <2>5, <2>6, <3>1 DEF Evict
  <2>7. CASE Drop(w)
    <3>1. \A i \in OpenFor(job[w].db) : ~DropBusy(job[w].db) => i \in ToSet(map) /\ Idle(i)
      BY OpenForIs DEF DropBusy
    <3> QED
      BY <2>0, <2>5, <2>7, <3>1 DEF Drop
  <2>8. ASSUME NEW f \in Files(job[w].db), Unlink(w, f) PROVE FilesWithin(K, disk'[d])
    <3>1. CASE d = job[w].db
      BY <1>0, <2>8, <3>1, UnlinkIs DEF FilesWithin
    <3>2. CASE d # job[w].db
      BY <1>0, <1>1, <2>8, <3>2, UnlinkIs
    <3> QED
      BY <3>1, <3>2
  <2>9. CASE Rmdir(w)
    <3>1. disk'[d] = disk[d] \/ disk'[d] = NoDir
      BY <1>0, <2>9 DEF Rmdir
    <3> QED
      BY <1>0, <3>1
  <2>10. CASE ResolveHit(w) \/ Capacity(w) \/ Recheck(w) \/ Read(w) \/ Touch(w)
    BY <2>0, <2>10 DEF ResolveHit, Capacity, Recheck, Read, Touch
  <2> QED
    BY <1>2, <2>1, <2>2, <2>3, <2>4, <2>6, <2>7, <2>8, <2>9, <2>10 DEF Serve
<1>3. ASSUME NEW i \in Engines, Maintain(i) PROVE FilesWithin(K, disk'[d])
  BY <1>0, <1>3, <1>s DEF Maintain, InUse, Shape
<1>4. CASE Start
  BY <1>0, <1>1, <1>4, WithLogIs, RegistryAssumption DEF Start
<1>5. CASE Shutdown
  <2>1. /\ disk'[d].facts = disk[d].facts
        /\ disk'[d].saved = disk[d].saved \/ \E i \in OpenFor(d) : disk'[d].saved = eng[i].learned
    BY <1>5, FlushedIs DEF Shutdown
  <2>2. OpenFor(d) \subseteq Engines
    BY OpenForIs
  <2> QED
    BY <1>0, <2>1, <2>2 DEF FilesWithin, Within
<1>6. CASE Crash
  <2>1. disk'[d] = disk[d] \/ disk'[d] = [disk[d] EXCEPT !.sidecar = "foreign"]
    BY <1>6 DEF Crash
  <2> QED
    BY <1>0, <1>1, <2>1 DEF Directory
<1>7. CASE MaintenanceDue \/ UNCHANGED vars
  BY <1>1, <1>7 DEF MaintenanceDue, vars
<1>8. ASSUME NEW w \in Workers, NEW x, NEW op, Receive(w, x, op) PROVE FilesWithin(K, disk'[d])
  BY <1>1, <1>8 DEF Receive
<1> QED
  BY <1>2, <1>3, <1>4, <1>5, <1>6, <1>7, <1>8 DEF Next

LEMMA KnownAlways == Spec => []Known
<1>1. ASSUME Init PROVE Known
  BY <1>1 DEF Init, Known, Closed, NoDir
<1>2. ASSUME InUse, Known, [Next]_vars PROVE Known'
  BY <1>2, EnginesKnown, FilesKnown DEF Known, Within, FilesWithin
<1> QED
  BY <1>1, <1>2, InUseAlways, PTL DEF Spec

\* Everything has its type: the map has at most max_open_dbs databases, a
\* directory that is not there has no files, and no fact or lesson, in memory or
\* on disk, is one that nobody wrote.
THEOREM TypeCorrect == Spec => []TypeOK
<1>1. ASSUME InUse, Known PROVE TypeOK
  <2>1. ToSet(map) \subseteq Engines /\ maint \subseteq Engines
    BY <1>1, OpenForIs DEF InUse, Held
  <2>2. \A i \in Engines : /\ eng[i].db \in Dbs
                           /\ eng[i].quarantined \in BOOLEAN /\ eng[i].linked \in BOOLEAN
    BY <1>1 DEF InUse, Shape, Engine
  <2>3. \A d \in Dbs : /\ disk[d].dir \in BOOLEAN /\ disk[d].wal \in {"none", "empty", "headed"}
                       /\ disk[d].sidecar \in {"none", "own", "foreign"}
                       /\ disk[d].config \in {"none", "torn", "good"}
    BY <1>1 DEF InUse, Shape, Directory
  <2>4. job \in [Workers -> [db : Dbs, op : Ops \cup {"none"}]] /\ holds \in [Workers -> Engines \cup {None}]
    BY <1>1 DEF InUse, Shape, Workings, Job
  <2>5. /\ maxOpen \in MaxOpens \cup {0} /\ Len(map) <= maxOpen
        /\ writes \in 0 .. MaxWrites /\ exposed \subseteq Dbs
    BY <1>1 DEF InUse, Shape, MapOK, Histories
  <2> QED
    BY <1>1, <2>1, <2>2, <2>3, <2>4, <2>5 DEF TypeOK, Known, InUse, Named
<1> QED
  BY <1>1, InUseAlways, KnownAlways, PTL
-----------------------------------------------------------------------------
(* One at a time configures a database. *)

\* Only a configuration starts to configure, only a drop to remove files.
LEMMA RolesOf ==
  ASSUME InUse, NEW w \in Workers, Serve(w)
  PROVE  /\ pc'[w] = "configure" => Configure(w) /\ job' = job
         /\ pc'[w] = "unlink" => job' = job /\ (Drop(w) \/ pc[w] = "unlink")
<1>0. pc \in [Workers -> Labels] /\ job \in [Workers -> Job]
  BY DEF InUse, Shape, Workings
<1>a. ASSUME Answer(w) PROVE pc'[w] = "idle"
  BY <1>0, <1>a DEF Answer, Goto
<1>g. ASSUME NEW l, Goto(w, l) PROVE pc'[w] = l
  BY <1>0, <1>g DEF Goto
<1>1. CASE ResolveHit(w)
  BY <1>1, <1>g, EntryIs DEF ResolveHit
<1>2. CASE ResolveOpens(w)
  BY <1>2, <1>a, <1>g, EntryIs DEF ResolveOpens
<1>3. CASE ResolveRefused(w) \/ Read(w) \/ Ingest(w) \/ Touch(w) \/ Feedback(w) \/ Configured(w) \/ Rmdir(w)
  <2>1. Answer(w)
    BY <1>3 DEF ResolveRefused, Read, Ingest, Touch, Feedback, Configured, Rmdir
  <2>2. pc'[w] = "idle"
    BY <1>a, <2>1, Zenon
  <2> QED
    BY <2>2
<1>4. CASE Capacity(w)
  BY <1>4, <1>a, <1>g DEF Capacity
<1>5. CASE Evict(w)
  BY <1>5, <1>g DEF Evict
<1>6. CASE Recheck(w)
  BY <1>6, <1>a, <1>g DEF Recheck
<1>7. CASE Configure(w)
  BY <1>7, <1>a, <1>g DEF Configure
<1>8. CASE Drop(w)
  BY <1>8, <1>a, <1>g DEF Drop
<1>9. ASSUME NEW f, Unlink(w, f) PROVE pc'[w] = "unlink" /\ pc[w] = "unlink" /\ job' = job
  BY <1>9 DEF Unlink
<1> QED
  BY <1>1, <1>2, <1>3, <1>4, <1>5, <1>6, <1>7, <1>8, <1>9 DEF Serve

LEMMA ReceivesRole ==
  ASSUME InUse, NEW w \in Workers, NEW d, NEW op, Receive(w, d, op)
  PROVE  pc[w] = "idle" /\ pc'[w] \notin {"configure", "unlink"}
<1>1. pc \in [Workers -> Labels]
  BY DEF InUse, Shape, Workings
<1> QED
  BY <1>1, EntryIs DEF Receive, Goto

LEMMA ConfiguresStep ==
  ASSUME InUse, OneConfigures, [Next]_vars
  PROVE  OneConfigures'
<1>1. ASSUME NEW w \in Workers, OnlyOf(w), pc'[w] = "configure" => Configure(w) /\ job' = job
      PROVE  OneConfigures'
  <2>0. \A x \in Workers \ {w} : pc'[x] = pc[x] /\ job'[x] = job[x]
    BY <1>1 DEF OnlyOf, InUse, Shape, Workings
  <2>1. ASSUME NEW x \in Workers \ {w}, pc'[x] = "configure", pc'[w] = "configure", job'[x].db = job'[w].db
        PROVE  FALSE
    <3>1. pc[x] = "configure" /\ job[x].db = job[w].db /\ Handling(w, "config")
      BY <1>1, <2>0, <2>1 DEF Configure
    <3>2. holds[x] = holds[w]
      <4>1. OpenFor(job[x].db) = {holds[x]} /\ OpenFor(job[w].db) = {holds[w]}
        BY <3>1, HeldIs, ServingIs
      <4> QED
        BY <3>1, <4>1
    <3> QED
      BY <3>1, <3>2 DEF Handling, Configuring
  <2> QED
    BY <2>0, <2>1 DEF OneConfigures
<1>2. CASE UNCHANGED <<pc, job>>
  BY <1>2 DEF OneConfigures
<1>3. CASE Crash
  BY <1>3 DEF Crash, OneConfigures
<1>4. ASSUME NEW w \in Workers, Serve(w) PROVE OneConfigures'
  BY <1>1, <1>4, OnlyOfWorker, RolesOf
<1>5. ASSUME NEW w \in Workers, NEW r \in Requests, Receive(w, r[1], r[2]) PROVE OneConfigures'
  BY <1>1, <1>5, OnlyOfWorker, ReceivesRole
<1> QED
  BY <1>2, <1>3, <1>4, <1>5 DEF Next, MaintenanceDue, Maintain, Start, Shutdown, process, vars

-----------------------------------------------------------------------------
(* What a step leaves alone. *)

FilesOf(x) == {f \in FileNames : x[f] # "none"}

LEMMA FilesOfIs ==
  ASSUME NEW x, NEW y
  PROVE  /\ x.wal = y.wal /\ x.sidecar = y.sidecar /\ x.config = y.config => FilesOf(x) = FilesOf(y)
         /\ FilesOf(x) = {} <=> x.wal = "none" /\ x.sidecar = "none" /\ x.config = "none"
         /\ FilesOf(x) \subseteq FileNames /\ FilesOf(NoDir) = {}
BY DEF FilesOf, FileNames, NoDir

\* No worker starts or ends to configure database d, or to remove its files.
SameRoles(d) ==
  \A x \in Workers :
    /\ pc'[x] = "unlink" /\ job'[x].db = d <=> pc[x] = "unlink" /\ job[x].db = d
    /\ pc'[x] = "configure" /\ job'[x].db = d <=> pc[x] = "configure" /\ job[x].db = d
    /\ pc[x] = "unlink" /\ job[x].db = d => toUnlink'[x] = toUnlink[x]

LEMMA RolesKept ==
  ASSUME InUse, NEW w \in Workers, Serve(w), NEW d,
         job[w].db # d \/ (pc[w] \notin {"unlink", "configure"} /\ pc'[w] \notin {"unlink", "configure"})
  PROVE  SameRoles(d)
<1>1. \A x \in Workers \ {w} : pc'[x] = pc[x] /\ job'[x] = job[x] /\ toUnlink'[x] = toUnlink[x]
  BY OnlyOfWorker DEF OnlyOf, InUse, Shape, Workings
<1>2. pc'[w] \in {"unlink", "configure"} => job'[w].db = job[w].db
  BY RolesOf
<1> QED
  BY <1>1, <1>2 DEF SameRoles

\* The same, but for the directory itself.
Alike(x, y) ==
  /\ x.wal = y.wal /\ x.facts = y.facts /\ x.sidecar = y.sidecar /\ x.saved = y.saved /\ x.config = y.config

LEMMA Framed ==
  ASSUME NEW d \in Dbs, Sound(d), SameRoles(d), Alike(disk'[d], disk[d]), acked'[d] = acked[d],
         OpenFor(d)' = OpenFor(d),
         \A i \in OpenFor(d) : eng'[i].linked = eng[i].linked /\ eng'[i].learned = eng[i].learned
  PROVE  Sound(d)'
<1>1. Files(d)' = Files(d)
  <2>1. Files(d)' = FilesOf(disk'[d]) /\ Files(d) = FilesOf(disk[d])
    BY DEF Files, FilesOf, FileNames
  <2> QED
    BY <2>1, FilesOfIs DEF Alike
<1>2. (Dropping(d)' <=> Dropping(d)) /\ (ConfiguringDb(d)' <=> ConfiguringDb(d))
  BY DEF SameRoles, Dropping, ConfiguringDb
<1>3. DroppedWhole(d)'
  BY <1>1, <1>2 DEF Sound, DroppedWhole, SameRoles
<1>4. Promised(d)'
  BY DEF Sound, Promised, Alike
<1>5. Matching(d)'
  BY <1>2 DEF Sound, Matching, Alike, NewLog
<1> QED
  BY <1>3, <1>4, <1>5 DEF Sound

\* A database that is open, or has one who configures it, is not being dropped.
LEMMA OpenIsKept ==
  ASSUME InUse, NEW d \in Dbs, Sound(d)
  PROVE  /\ OpenFor(d) # {} => ~Dropping(d)
         /\ ConfiguringDb(d) => OpenFor(d) # {}
         /\ \A w \in Workers : pc[w] \in Serving /\ job[w].db = d => OpenFor(d) = {holds[w]}
         /\ \A i \in OpenFor(d) : /\ i \in Engines /\ eng[i].db = d /\ eng[i].linked /\ OpenFor(d) = {i}
                                  /\ disk[d].dir /\ disk[d].wal # "none"
<1>1. OpenFor(d) # {} => ~Dropping(d)
  BY DEF Sound, DroppedWhole
<1>2. \A w \in Workers : pc[w] \in Serving /\ job[w].db = d => OpenFor(d) = {holds[w]}
  BY HeldIs
<1>3. ConfiguringDb(d) => OpenFor(d) # {}
  BY <1>2, ServingIs DEF ConfiguringDb
<1>4. ASSUME NEW i \in OpenFor(d)
      PROVE  /\ i \in Engines /\ eng[i].db = d /\ eng[i].linked /\ OpenFor(d) = {i}
             /\ disk[d].dir /\ disk[d].wal # "none"
  <2>1. i \in Engines /\ eng[i].db = d /\ OpenFor(d) = {i}
    BY OpenForIs
  <2> QED
    BY <2>1 DEF Sound, Promised, InUse, Named
<1> QED
  BY <1>1, <1>2, <1>3, <1>4
-----------------------------------------------------------------------------
(* What was promised of a database that is not exposed. *)

\* Engine i of database d is closed: its log and its sidecar are what the next
\* open finds; of what it learned the touches go that no sidecar has.
LEMMA ClosedSound ==
  ASSUME InUse, NEW d \in Dbs, Sound(d), SameRoles(d), NEW i \in OpenFor(d), OpenFor(d)' = {},
         disk'[d].wal = "headed", disk'[d].facts = disk[d].facts, disk'[d].sidecar = disk[d].sidecar,
         disk'[d].saved = disk[d].saved, disk'[d].config = disk[d].config,
         acked'[d] = [acked[d] EXCEPT !.touches = @ \cap disk[d].saved]
  PROVE  Sound(d)'
<1>1. ~Dropping(d) /\ ~Dropping(d)' /\ (ConfiguringDb(d)' <=> ConfiguringDb(d))
  BY OpenIsKept DEF SameRoles, Dropping, ConfiguringDb
<1>2. DroppedWhole(d)'
  BY <1>1 DEF DroppedWhole
<1>3. /\ acked'[d].facts = acked[d].facts /\ acked'[d].lessons = acked[d].lessons
      /\ acked'[d].quarantined = acked[d].quarantined
      /\ acked'[d].touches = acked[d].touches \cap disk[d].saved
  <2>1. acked[d] \in Acks
    BY DEF InUse, Shape, Histories
  <2> QED
    BY <2>1 DEF Acks
<1>4. Promised(d)'
  BY <1>3 DEF Sound, Promised
<1>5. Matching(d)'
  BY <1>1 DEF Sound, Matching, NewLog
<1> QED
  BY <1>2, <1>4, <1>5 DEF Sound

\* Database d is opened with what is on disk.
LEMMA OpenedSound ==
  ASSUME InUse, NEW d \in Dbs, Sound(d), ~Dropping(d), SameRoles(d), OpenFor(d) = {},
         disk'[d].wal # "none", disk'[d].facts = disk[d].facts, disk'[d].sidecar = disk[d].sidecar,
         disk'[d].saved = disk[d].saved, disk'[d].config = disk[d].config, acked'[d] = acked[d],
         NEW n, OpenFor(d)' = {n}, eng'[n].linked, eng'[n].learned = disk[d].saved
  PROVE  Sound(d)'
<1>1. ~Dropping(d)' /\ (ConfiguringDb(d)' <=> ConfiguringDb(d))
  BY DEF SameRoles, Dropping, ConfiguringDb
<1>2. DroppedWhole(d)'
  BY <1>1 DEF DroppedWhole
<1>3. Promised(d)'
  BY DEF Sound, Promised
<1>4. Matching(d)'
  BY <1>1 DEF Sound, Matching
<1> QED
  BY <1>2, <1>3, <1>4 DEF Sound

\* The sidecar of an open database is saved.
LEMMA SavedSound ==
  ASSUME InUse, NEW d \in Dbs, Sound(d), SameRoles(d), NEW i \in OpenFor(d), OpenFor(d)' = {i},
         eng'[i] \in Engine, eng'[i].db = d, eng'[i].linked = eng[i].linked,
         eng[i].learned \subseteq eng'[i].learned, disk' = Saved(disk, eng'[i]),
         acked'[d].facts = acked[d].facts, acked'[d].quarantined = acked[d].quarantined,
         acked'[d].touches = acked[d].touches,
         acked'[d].lessons \subseteq acked[d].lessons \cup eng'[i].learned
  PROVE  Sound(d)'
<1>1. ~Dropping(d) /\ ~Dropping(d)' /\ (ConfiguringDb(d)' <=> ConfiguringDb(d))
  BY OpenIsKept DEF SameRoles, Dropping, ConfiguringDb
<1>2. eng[i].linked /\ disk[d].dir /\ disk \in [Dbs -> Directory]
  BY OpenIsKept DEF InUse, Shape
<1>3. /\ disk'[d].facts = disk[d].facts /\ disk'[d].config = disk[d].config
      /\ disk'[d].saved = eng'[i].learned /\ disk'[d].sidecar = "own"
  BY <1>2, SavedIs
<1>4. DroppedWhole(d)'
  BY <1>1 DEF DroppedWhole
<1>5. Promised(d)'
  BY <1>2, <1>3 DEF Sound, Promised
<1>6. Matching(d)'
  BY <1>1, <1>3 DEF Sound, Matching
<1> QED
  BY <1>4, <1>5, <1>6 DEF Sound

\* A step that changes no engine, no file and no promise.
LEMMA QuietSound ==
  ASSUME NEW d \in Dbs, Sound(d), SameRoles(d), Alike(disk'[d], disk[d]), acked' = acked,
         ToSet(map') = ToSet(map), eng' = eng
  PROVE  Sound(d)'
<1>1. OpenFor(d)' = OpenFor(d)
  BY DEF OpenFor
<1> QED
  BY <1>1, Framed

\* An eviction.
LEMMA EvictedSound ==
  ASSUME InUse, NEW d \in Dbs, Sound(d), SameRoles(d), NEW v \in ToSet(map), Idle(v),
         map' = Without(map, v), eng' = WithoutEngine(v), disk' = Closing(v),
         acked' = WithoutTouches(eng[v].db)
  PROVE  Sound(d)'
<1>1. /\ ToSet(map') = ToSet(map) \ {v} /\ eng' = [eng EXCEPT ![v] = Closed]
      /\ LeftBy({v}, disk') /\ eng[v].db \in Dbs
      /\ acked \in [Dbs -> Acks] /\ eng \in [Engines -> Engine] /\ ToSet(map) \subseteq Engines
  BY WithoutDistinct, ClosingIs, ClosingLeft, OpenForIs DEF InUse, Shape, MapOK, Histories
<1>2. CASE d = eng[v].db
  <2>1. v \in OpenFor(d) /\ OpenFor(d) = {v} /\ eng[v].linked
    BY <1>2, OpenForIs, OpenIsKept
  <2>2. OpenFor(d)' = {}
    BY <1>1, <2>1 DEF OpenFor
  <2>3. /\ disk'[d].facts = disk[d].facts /\ disk'[d].saved = disk[d].saved
        /\ disk'[d].sidecar = disk[d].sidecar /\ disk'[d].config = disk[d].config
        /\ disk'[d].wal = "headed"
    BY <1>1, <1>2, <2>1, LeftIs
  <2>4. acked'[d] = [acked[d] EXCEPT !.touches = @ \cap disk[d].saved]
    BY <1>1, <1>2 DEF WithoutTouches
  <2> QED
    BY <2>1, <2>2, <2>3, <2>4, ClosedSound
<1>3. CASE d # eng[v].db
  <2>1. disk'[d] = disk[d] /\ acked'[d] = acked[d]
    BY <1>1, <1>3, LeftIs DEF WithoutTouches
  <2>2. OpenFor(d)' = OpenFor(d) /\ \A i \in OpenFor(d) : eng'[i] = eng[i]
    BY <1>1, <1>3 DEF OpenFor
  <2> QED
    BY <2>1, <2>2, Framed DEF Alike
<1> QED
  BY <1>2, <1>3
LEMMA OpensSound ==
  ASSUME InUse, NEW w \in Workers, ResolveOpens(w), NEW d \in Dbs \ exposed', Sound(d)
  PROVE  Sound(d)'
<1> DEFINE t == job[w].db
<1>1. PICK V \in SUBSET Victims, left \in [Dbs -> Directory] : OpensWith(w, V, left)
  BY OpensIs
<1>0. /\ t \in Dbs /\ eng \in [Engines -> Engine] /\ acked \in [Dbs -> Acks]
      /\ V \subseteq ToSet(map) /\ V \subseteq Engines /\ ToSet(map) \subseteq Engines
      /\ OpenFor(t) = {} /\ disk[t].config # "torn" /\ pc[w] = "open"
  BY Target, OpenForIs DEF InUse, Shape, Histories, Victims, ResolveOpens
<1>2. LeftBy(V, left) /\ V \subseteq {Victim} /\ \A v \in V : eng[v].db \in Dbs \ {t}
  <2>1. \A v \in V : eng[v].db \in Dbs /\ eng[v].db # t
    BY <1>0 DEF OpenFor, Engine
  <2> QED
    BY <1>1, <2>1 DEF OpensWith
<1>3. SameRoles(d)
  <2>1. pc'[w] \notin {"unlink", "configure"}
    BY <1>0, RolesOf DEF Serve, Drop, Configure, Handling
  <2> QED
    BY <1>0, <2>1, RolesKept DEF Serve
<1>4. d = t => ~Dropping(d)
  BY <1>1 DEF OpensWith
<1>5. d = t => Opens(d)
  <2> SUFFICES ASSUME d = t PROVE ~Refused(d) /\ ~Locked(d) /\ disk[d].config # "torn"
    BY DEF Opens
  <2>1. ~Refused(d)
    BY <1>0, <1>4 DEF Refused, Sound, Matching
  <2>2. ~Locked(d)
    <3>1. Live = ToSet(map)
      BY OpenForIs, RegistryAssumption DEF Live
    <3> QED
      BY <1>0, <3>1 DEF Locked, OpenFor
  <2> QED
    BY <1>0, <2>1, <2>2
<1>6. /\ d # t => disk'[d] = left[d]
      /\ d = t => disk' = WithLog(left, d)
  <2>1. \/ disk' = WithLog(left, t)
        \/ ~Opens(t) /\ (disk' = left \/ disk' = WithStrangeLog(left, t))
    BY <1>1 DEF OpensWith
  <2> QED
    BY <1>0, <1>5, <2>1, WithLogIs, StrangeLogIs
<1>7. acked'[d] = IF \E v \in V : eng[v].db = d THEN [acked[d] EXCEPT !.touches = @ \cap disk[d].saved] ELSE acked[d]
  <2>1. CASE V = {}
    BY <1>1, <2>1 DEF OpensWith
  <2>2. CASE V = {Victim}
    <3>1. acked' = WithoutTouches(eng[Victim].db)
      BY <1>1, <2>2 DEF OpensWith
    <3> QED
      BY <1>0, <1>2, <2>2, <3>1 DEF WithoutTouches
  <2> QED
    BY <1>2, <2>1, <2>2
<1>8. /\ d # t => OpenFor(d)' = OpenFor(d) \ V
      /\ d # t => \A i \in OpenFor(d) \ V : eng'[i] = eng[i]
      /\ d = t => \E n : OpenFor(d)' = {n} /\ eng'[n] = Opened(d)
  <2>1. CASE Opens(t) /\ \E n \in Engines \ ToSet(map) :
                /\ ToSet(map') = (ToSet(map) \ V) \cup {n}
                /\ eng' = [i \in Engines |-> IF i = n THEN Opened(t) ELSE IF i \in V THEN Closed ELSE eng[i]]
    <3>1. PICK n \in Engines \ ToSet(map) :
            /\ ToSet(map') = (ToSet(map) \ V) \cup {n}
            /\ eng' = [i \in Engines |-> IF i = n THEN Opened(t) ELSE IF i \in V THEN Closed ELSE eng[i]]
      BY <2>1
    <3>2. eng'[n] = Opened(t) /\ Opened(t).db = t /\ \A i \in ToSet(map) \ V : eng'[i] = eng[i]
      BY <1>0, <3>1 DEF Opened
    <3>3. OpenFor(d)' = {i \in ToSet(map') : eng'[i].db = d}
      BY DEF OpenFor
    <3>4. CASE d = t
      <4>1. OpenFor(d)' = {n}
        BY <1>0, <3>1, <3>2, <3>3, <3>4 DEF OpenFor
      <4> QED
        BY <3>2, <3>4, <4>1
    <3>5. CASE d # t
      <4>1. OpenFor(d)' = OpenFor(d) \ V
        BY <3>1, <3>2, <3>3, <3>5 DEF OpenFor
      <4> QED
        BY <3>2, <3>5, <4>1 DEF OpenFor
    <3> QED
      BY <3>4, <3>5
  <2>2. CASE ~Opens(t) /\ ToSet(map') = ToSet(map) \ V
             /\ eng' = [i \in Engines |-> IF i \in V THEN Closed ELSE eng[i]]
    <3>1. d # t /\ \A i \in ToSet(map) \ V : eng'[i] = eng[i]
      BY <1>0, <1>5, <2>2
    <3> QED
      BY <2>2, <3>1 DEF OpenFor
  <2> QED
    BY <1>1, <2>1, <2>2 DEF OpensWith
<1>9. CASE d = t
  <2>1. left[d] = disk[d] /\ ~\E v \in V : eng[v].db = d
    BY <1>2, <1>9, LeftIs
  <2>2. /\ disk'[d].wal # "none" /\ disk'[d].facts = disk[d].facts /\ disk'[d].sidecar = disk[d].sidecar
        /\ disk'[d].saved = disk[d].saved /\ disk'[d].config = disk[d].config
    BY <1>6, <1>9, <2>1, WithLogIs
  <2>3. PICK n : OpenFor(d)' = {n} /\ eng'[n] = Opened(d)
    BY <1>8, <1>9
  <2>4. eng'[n].linked /\ eng'[n].learned = disk[d].saved
    BY <2>3 DEF Opened
  <2> QED
    BY <1>0, <1>3, <1>4, <1>7, <1>9, <2>1, <2>2, <2>3, <2>4, OpenedSound
<1>10. CASE d # t /\ \E v \in V : eng[v].db = d
  <2>1. PICK v \in V : eng[v].db = d
    BY <1>10
  <2>5. v \in OpenFor(d)
    BY <1>0, <2>1 DEF OpenFor
  <2>2. v \in OpenFor(d) /\ OpenFor(d) = {v} /\ eng[v].linked
    BY <2>5, OpenIsKept
  <2>3. OpenFor(d)' = {}
    BY <1>8, <1>10, <2>1, <2>2
  <2>4. /\ disk'[d].facts = disk[d].facts /\ disk'[d].saved = disk[d].saved
        /\ disk'[d].sidecar = disk[d].sidecar /\ disk'[d].config = disk[d].config
        /\ disk'[d].wal = "headed"
    BY <1>2, <1>6, <1>10, <2>1, <2>2, LeftIs
  <2> QED
    BY <1>3, <1>7, <1>10, <2>2, <2>3, <2>4, ClosedSound
<1>11. CASE d # t /\ ~\E v \in V : eng[v].db = d
  <2>1. disk'[d] = disk[d] /\ acked'[d] = acked[d]
    BY <1>2, <1>6, <1>7, <1>11, LeftIs
  <2>2. OpenFor(d) \ V = OpenFor(d)
    BY <1>11 DEF OpenFor
  <2>3. OpenFor(d)' = OpenFor(d) /\ \A i \in OpenFor(d) : eng'[i] = eng[i]
    BY <1>8, <1>11, <2>2
  <2> QED
    BY <1>3, <2>1, <2>3, Framed DEF Alike
<1> QED
  BY <1>9, <1>10, <1>11
LEMMA HandlersSound ==
  ASSUME InUse, NEW w \in Workers, Ingest(w) \/ Touch(w) \/ Feedback(w), NEW d \in Dbs, Sound(d)
  PROVE  Sound(d)'
<1> DEFINE t == job[w].db
           i == holds[w]
<1>0. /\ disk \in [Dbs -> Directory] /\ acked \in [Dbs -> Acks] /\ disk[d] \in Directory /\ acked[d] \in Acks
      /\ t \in Dbs /\ ToSet(map) \subseteq Engines /\ eng[i].db = t /\ OpenFor(t) = {i}
  BY OpenForIs, HeldIs, ServingIs DEF InUse, Shape, Histories, Ingest, Touch, Feedback
<1>1. /\ i \in Engines /\ i \in ToSet(map) /\ map' = map /\ eng' \in [Engines -> Engine]
      /\ \A j \in Engines \ {i} : eng'[j] = eng[j]
      /\ eng'[i].db = eng[i].db /\ eng'[i].linked = eng[i].linked
      /\ eng'[i].learned = IF Touch(w) \/ Feedback(w) THEN eng[i].learned \cup News ELSE eng[i].learned
  BY HandlerIs
<1>2. SameRoles(d)
  <2>1. pc[w] = "handle" /\ Answer(w)
    BY DEF Ingest, Touch, Feedback, Handling
  <2>2. pc'[w] = "idle"
    BY <2>1 DEF Answer, Goto, InUse, Shape, Workings
  <2> QED
    BY <2>1, <2>2, RolesKept DEF Serve
<1>3. OpenFor(d)' = OpenFor(d)
  <2>1. \A j \in ToSet(map) : eng'[j].db = eng[j].db
    BY <1>0, <1>1
  <2> QED
    BY <1>1, <2>1 DEF OpenFor
<1>4. CASE d # t
  <2>1. acked'[d] = acked[d]
    BY <1>0, <1>4 DEF Ingest, Touch, Feedback
  <2>2. disk'[d] = disk[d]
    <3>1. CASE Ingest(w) \/ Touch(w)
      BY <1>0, <1>4, <3>1 DEF Ingest, Touch
    <3>2. CASE Feedback(w)
      <4>1. disk' = Saved(disk, eng'[i]) /\ eng'[i] \in Engine /\ eng'[i].db # d
        BY <1>0, <1>1, <1>4, <3>2 DEF Feedback
      <4> QED
        BY <1>0, <4>1, SavedIs
    <3> QED
      BY <3>1, <3>2
  <2>3. \A j \in OpenFor(d) : eng'[j] = eng[j]
    BY <1>0, <1>1, <1>4 DEF OpenFor
  <2> QED
    BY <1>2, <1>3, <2>1, <2>2, <2>3, Framed DEF Alike
<1>5. CASE d = t /\ Feedback(w)
  <2>1. disk[d].dir /\ i \in OpenFor(d) /\ OpenFor(d)' = {i}
    BY <1>0, <1>3, <1>5, OpenIsKept
  <2>2. acked' = [acked EXCEPT ![d].lessons = @ \cup News] /\ disk' = Saved(disk, eng'[i])
    BY <1>5, <2>1 DEF Feedback
  <2>3. /\ acked'[d].facts = acked[d].facts /\ acked'[d].quarantined = acked[d].quarantined
        /\ acked'[d].touches = acked[d].touches /\ acked'[d].lessons = acked[d].lessons \cup News
    BY <1>0, <2>2 DEF Acks
  <2>4. eng'[i] \in Engine /\ eng'[i].db = d /\ eng'[i].learned = eng[i].learned \cup News
    BY <1>0, <1>1, <1>5
  <2> QED
    BY <1>1, <1>2, <2>1, <2>2, <2>3, <2>4, SavedSound
<1>6. CASE d = t /\ ~Feedback(w)
  <2>0. /\ ~Dropping(d) /\ ~Dropping(d)' /\ (ConfiguringDb(d)' <=> ConfiguringDb(d))
        /\ eng[i].linked /\ OpenFor(d)' = {i} /\ OpenFor(d) = {i}
    <3>1. i \in OpenFor(d)
      BY <1>0, <1>6
    <3> QED
      BY <1>0, <1>2, <1>3, <1>6, <3>1, OpenIsKept DEF SameRoles, Dropping, ConfiguringDb
  <2>1. DroppedWhole(d)'
    BY <2>0 DEF DroppedWhole
  <2>2. CASE Ingest(w)
    <3>1. /\ disk' = [disk EXCEPT ![d].facts = @ \cup News, ![d].wal = "headed"]
          /\ acked' = [acked EXCEPT ![d].facts = @ \cup News]
      BY <1>6, <2>0, <2>2 DEF Ingest
    <3>2. /\ disk'[d].facts = disk[d].facts \cup News /\ disk'[d].sidecar = disk[d].sidecar
          /\ disk'[d].saved = disk[d].saved /\ disk'[d].config = disk[d].config
      <4>1. disk'[d] = [disk[d] EXCEPT !.facts = @ \cup News, !.wal = "headed"]
        BY <1>0, <3>1
      <4> QED
        BY <1>0, <4>1 DEF Directory
    <3>3. /\ acked'[d].facts = acked[d].facts \cup News /\ acked'[d].lessons = acked[d].lessons
          /\ acked'[d].touches = acked[d].touches /\ acked'[d].quarantined = acked[d].quarantined
      BY <1>0, <3>1 DEF Acks
    <3>4. eng[i].learned \subseteq eng'[i].learned
      BY <1>1
    <3>5. Promised(d)'
      BY <1>1, <2>0, <3>2, <3>3, <3>4 DEF Sound, Promised
    <3>6. Matching(d)'
      BY <2>0, <3>2 DEF Sound, Matching
    <3> QED
      BY <2>1, <3>5, <3>6 DEF Sound
  <2>3. CASE Touch(w)
    <3>1. disk' = disk /\ acked' = [acked EXCEPT ![d].touches = @ \cup News]
      BY <1>6, <2>3 DEF Touch
    <3>2. /\ acked'[d].facts = acked[d].facts /\ acked'[d].lessons = acked[d].lessons
          /\ acked'[d].touches = acked[d].touches \cup News /\ acked'[d].quarantined = acked[d].quarantined
      BY <1>0, <3>1 DEF Acks
    <3>3. eng'[i].learned = eng[i].learned \cup News
      BY <1>1, <2>3
    <3>4. Promised(d)'
      BY <1>1, <2>0, <3>1, <3>2, <3>3 DEF Sound, Promised
    <3>5. Matching(d)'
      BY <2>0, <3>1 DEF Sound, Matching
    <3> QED
      BY <2>1, <3>4, <3>5 DEF Sound
  <2> QED
    BY <1>6, <2>2, <2>3
<1> QED
  BY <1>4, <1>5, <1>6

\* config.json is written: torn, then good.
LEMMA ConfigSound ==
  ASSUME InUse, OneConfigures, NEW w \in Workers, Configure(w) \/ Configured(w), NEW d \in Dbs, Sound(d)
  PROVE  Sound(d)'
<1> DEFINE t == job[w].db
           i == holds[w]
<1>0. /\ disk \in [Dbs -> Directory] /\ acked \in [Dbs -> Acks] /\ disk[d] \in Directory /\ acked[d] \in Acks
      /\ t \in Dbs /\ ToSet(map) \subseteq Engines /\ OpenFor(t) = {i} /\ pc \in [Workers -> Labels]
      /\ pc[w] \in {"handle", "configure"} /\ job \in [Workers -> Job]
  BY OpenForIs, HeldIs, ServingIs DEF InUse, Shape, Workings, Histories, Configure, Configured, Handling
<1>1. map' = map /\ \A j \in Engines : eng'[j].db = eng[j].db /\ eng'[j].linked = eng[j].linked /\ eng'[j].learned = eng[j].learned
  <2>1. CASE Configure(w)
    <3>1. ~Touch(w) /\ ~Feedback(w)
      BY <2>1 DEF Configure, Touch, Feedback, Handling
    <3> QED
      BY <2>1, <3>1, HandlerIs
  <2>2. CASE Configured(w)
    BY <2>2 DEF Configured
  <2> QED
    BY <2>1, <2>2
<1>2. OpenFor(d)' = OpenFor(d)
  <2>1. \A j \in ToSet(map) : eng'[j].db = eng[j].db
    BY <1>0, <1>1
  <2> QED
    BY <1>1, <2>1 DEF OpenFor
<1>3. CASE d # t
  <2>1. SameRoles(d)
    BY <1>3, RolesKept DEF Serve
  <2>2. disk'[d] = disk[d] /\ acked'[d] = acked[d]
    BY <1>0, <1>3 DEF Configure, Configured, history
  <2>3. \A j \in OpenFor(d) : eng'[j].linked = eng[j].linked /\ eng'[j].learned = eng[j].learned
    BY <1>0, <1>1 DEF OpenFor
  <2> QED
    BY <1>2, <2>1, <2>2, <2>3, Framed DEF Alike
<1>4. CASE d = t
  <2>0. /\ ~Dropping(d) /\ eng[i].linked /\ eng'[i].linked /\ eng'[i].learned = eng[i].learned
        /\ disk[d].dir /\ OpenFor(d) = {i} /\ OpenFor(d)' = {i}
    <3>1. i \in OpenFor(d)
      BY <1>0, <1>4
    <3>2. i \in Engines /\ eng[i].linked /\ disk[d].dir /\ ~Dropping(d)
      BY <3>1, OpenIsKept
    <3> QED
      BY <1>0, <1>1, <1>2, <1>4, <3>2
  <2>1. \A x \in Workers \ {w} : pc'[x] = pc[x] /\ job'[x] = job[x]
    BY OnlyOfWorker DEF OnlyOf, InUse, Shape, Workings, Serve
  <2>2. Configure(w) => Goto(w, "configure") /\ job' = job /\ disk' = [disk EXCEPT ![d].config = "torn"]
                        /\ acked' = acked
    BY <1>4, <2>0 DEF Configure, history
  <2>3. Configured(w) => pc[w] = "configure" /\ Answer(w)
    BY DEF Configured
  <2>4. pc'[w] = IF Configure(w) THEN "configure" ELSE "idle"
    BY <1>0, <2>2, <2>3 DEF Answer, Goto
  <2>5. ~Dropping(d)'
    BY <2>0, <2>1, <2>4 DEF Dropping
  <2>6. DroppedWhole(d)'
    BY <2>5 DEF DroppedWhole
  <2>7. ConfiguringDb(d)' <=> Configure(w)
    <3>1. CASE Configure(w)
      BY <1>4, <2>2, <2>4, <3>1 DEF ConfiguringDb
    <3>2. CASE ~Configure(w)
      <4>1. \A x \in Workers \ {w} : ~(pc[x] = "configure" /\ job[x].db = d)
        BY <1>4, <2>3, <3>2 DEF OneConfigures
      <4> QED
        BY <2>1, <2>4, <3>2, <4>1 DEF ConfiguringDb
    <3> QED
      BY <3>1, <3>2
  <2>8. /\ disk'[d].facts = disk[d].facts /\ disk'[d].sidecar = disk[d].sidecar
        /\ disk'[d].saved = disk[d].saved /\ disk'[d].wal = disk[d].wal
        /\ disk'[d].config = IF Configure(w) THEN "torn" ELSE "good"
    <3>1. CASE Configure(w)
      <4>1. disk'[d] = [disk[d] EXCEPT !.config = "torn"]
        BY <1>0, <2>2, <3>1
      <4> QED
        BY <1>0, <3>1, <4>1 DEF Directory
    <3>2. CASE ~Configure(w)
      <4>1. disk[d].config = "torn"
        BY <1>4, <2>3, <3>2 DEF Sound, Matching, ConfiguringDb
      <4>2. disk'[d] = [disk[d] EXCEPT !.config = "good"]
        BY <1>0, <1>4, <3>2, <4>1 DEF Configured
      <4> QED
        BY <1>0, <3>2, <4>2 DEF Directory
    <3> QED
      BY <3>1, <3>2
  <2>9. /\ acked'[d].facts = acked[d].facts /\ acked'[d].lessons = acked[d].lessons
        /\ acked'[d].touches = acked[d].touches
    <3>1. acked' = acked \/ acked' = [acked EXCEPT ![d].quarantined = TRUE]
      BY <1>4, <2>2 DEF Configured
    <3> QED
      BY <1>0, <3>1 DEF Acks
  <2>10. Promised(d)'
    BY <2>0, <2>8, <2>9 DEF Sound, Promised
  <2>11. Matching(d)'
    BY <2>0, <2>5, <2>7, <2>8 DEF Sound, Matching
  <2> QED
    BY <2>6, <2>10, <2>11 DEF Sound
<1> QED
  BY <1>3, <1>4
\* The other workers go on, and the other databases.
LEMMA OthersRoles ==
  ASSUME InUse, NEW w \in Workers, Serve(w)
  PROVE  /\ \A x \in Workers \ {w} : pc'[x] = pc[x] /\ job'[x] = job[x] /\ toUnlink'[x] = toUnlink[x]
         /\ \A d : d # job[w].db => SameRoles(d)
BY OnlyOfWorker, RolesKept DEF OnlyOf, InUse, Shape, Workings

LEMMA DropSound ==
  ASSUME InUse, NEW w \in Workers, Drop(w), NEW d \in Dbs, Sound(d)
  PROVE  Sound(d)'
<1> DEFINE t == job[w].db
<1>0. /\ disk \in [Dbs -> Directory] /\ acked \in [Dbs -> Acks] /\ disk[d] \in Directory /\ t \in Dbs
      /\ eng \in [Engines -> Engine] /\ ToSet(map) \subseteq Engines /\ pc[w] = "drop"
      /\ pc \in [Workers -> Labels] /\ toUnlink \in [Workers -> SUBSET FileNames]
      /\ job \in [Workers -> Job]
  BY OpenForIs DEF InUse, Shape, Workings, Histories, Job, Drop
<1>1. CASE Answer(w) /\ UNCHANGED <<map, eng, disk, acked>>
  <2>1. pc'[w] = "idle"
    BY <1>0, <1>1 DEF Answer, Goto
  <2>2. SameRoles(d)
    BY <1>0, <2>1, RolesKept DEF Serve
  <2> QED
    BY <1>1, <2>2, QuietSound DEF Alike
<1>2. CASE /\ ~DropBusy(t)
           /\ IF OpenFor(t) = {} THEN UNCHANGED <<map, eng, disk>>
              ELSE \E i \in OpenFor(t) :
                     map' = Without(map, i) /\ eng' = WithoutEngine(i) /\ disk' = Closing(i)
           /\ acked' = [acked EXCEPT ![t] = NoAcks]
           /\ IF disk[t].dir
              THEN /\ toUnlink' = [toUnlink EXCEPT ![w] = Files(t)]
                   /\ Goto(w, "unlink") /\ UNCHANGED <<job, holds>>
              ELSE Answer(w)
  <2>1. /\ ToSet(map') = ToSet(map) \ OpenFor(t) /\ LeftBy(OpenFor(t), disk')
        /\ \A i \in ToSet(map) \ OpenFor(t) : eng'[i] = eng[i]
    <3>1. CASE OpenFor(t) = {}
      BY <1>2, <3>1 DEF LeftBy
    <3>2. ASSUME NEW i \in OpenFor(t),
                 map' = Without(map, i), eng' = WithoutEngine(i), disk' = Closing(i)
          PROVE  /\ ToSet(map') = ToSet(map) \ OpenFor(t) /\ LeftBy(OpenFor(t), disk')
                 /\ \A j \in ToSet(map) \ OpenFor(t) : eng'[j] = eng[j]
      <4>1. i \in ToSet(map) /\ eng[i].db = t /\ OpenFor(t) = {i} /\ Idle(i)
        BY <1>2, <3>2, OpenForIs DEF DropBusy
      <4>2. ToSet(map') = ToSet(map) \ {i}
        BY <3>2, <4>1, WithoutDistinct DEF InUse, Shape, MapOK
      <4>3. eng' = [eng EXCEPT ![i] = Closed] /\ LeftBy({i}, disk')
        BY <3>2, <4>1, ClosingIs, ClosingLeft
      <4> QED
        BY <1>0, <4>1, <4>2, <4>3
    <3> QED
      BY <1>2, <3>1, <3>2
  <2>2. OpenFor(d)' = OpenFor(d) \ OpenFor(t)
    <3>1. OpenFor(d)' = {i \in ToSet(map') : eng'[i].db = d}
      BY DEF OpenFor
    <3> QED
      BY <2>1, <3>1 DEF OpenFor
  <2>3. CASE d # t
    <3>1. OpenFor(d)' = OpenFor(d) /\ \A i \in OpenFor(d) : eng'[i] = eng[i]
      BY <2>1, <2>2, <2>3 DEF OpenFor
    <3>2. \A v \in OpenFor(t) : eng[v].db # d
      BY <2>3 DEF OpenFor
    <3>3. disk'[d] = disk[d] /\ acked'[d] = acked[d]
      BY <1>0, <1>2, <2>1, <2>3, <3>2, LeftIs
    <3>4. SameRoles(d)
      BY <2>3, OthersRoles DEF Serve
    <3> QED
      BY <3>1, <3>3, <3>4, Framed DEF Alike
  <2>4. CASE d = t
    <3>1. OpenFor(d)' = {} /\ acked'[d] = NoAcks
      BY <1>0, <1>2, <2>2, <2>4
    <3>2. /\ FilesOf(disk'[d]) = FilesOf(disk[d]) /\ disk'[d].config = disk[d].config
          /\ disk'[d].sidecar = disk[d].sidecar /\ disk'[d].wal \in {"headed", disk[d].wal}
      <4>1. CASE OpenFor(d) = {}
        BY <2>1, <2>4, <4>1, LeftIs
      <4>2. ASSUME NEW v \in OpenFor(d)
            PROVE  /\ FilesOf(disk'[d]) = FilesOf(disk[d]) /\ disk'[d].config = disk[d].config
                   /\ disk'[d].sidecar = disk[d].sidecar /\ disk'[d].wal \in {"headed", disk[d].wal}
        <5>1. disk[d].wal # "none" /\ eng[v].linked /\ eng[v].db = d
          BY OpenIsKept
        <5>2. /\ disk'[d].wal = "headed" /\ disk'[d].config = disk[d].config
              /\ disk'[d].sidecar = disk[d].sidecar
          BY <2>1, <2>4, <5>1, LeftIs
        <5> QED
          BY <5>1, <5>2 DEF FilesOf, FileNames
      <4> QED
        BY <4>1, <4>2
    <3>3. ~ConfiguringDb(d)
      <4> SUFFICES ASSUME NEW x \in Workers, pc[x] = "configure", job[x].db = d PROVE FALSE
        BY DEF ConfiguringDb
      <4>1. OpenFor(d) = {holds[x]}
        BY HeldIs, ServingIs
      <4> QED
        BY <1>2, <2>4, <4>1 DEF DropBusy, Idle
    <3>4. ~ConfiguringDb(d)' /\ disk'[d].config # "torn"
      <4>1. pc'[w] # "configure"
        BY <1>0, RolesOf DEF Serve, Configure, Handling
      <4> QED
        BY <3>2, <3>3, <4>1, OthersRoles DEF Serve, ConfiguringDb, Sound, Matching
    <3>5. Promised(d)'
      BY <3>1 DEF Promised, NoAcks
    <3>6. CASE disk[d].dir
      <4>1. /\ pc'[w] = "unlink" /\ job' = job /\ toUnlink'[w] = Files(d)
        BY <1>0, <1>2, <2>4, <3>6 DEF Goto
      <4>2. Dropping(d)'
        BY <2>4, <4>1 DEF Dropping
      <4>3. Files(d)' = Files(d)
        BY <3>2 DEF Files, FilesOf, FileNames
      <4>4. ASSUME NEW x \in Workers, pc'[x] = "unlink", job'[x].db = d PROVE Files(d)' \subseteq toUnlink'[x]
        <5>1. CASE x = w
          BY <4>1, <4>3, <5>1
        <5>2. CASE x # w
          <6>1. pc[x] = "unlink" /\ job[x].db = d /\ toUnlink'[x] = toUnlink[x]
            BY <4>4, <5>2, OthersRoles DEF Serve
          <6>2. Files(d) \subseteq toUnlink[x]
            BY <6>1 DEF Sound, DroppedWhole, Dropping
          <6> QED
            BY <4>3, <6>1, <6>2
        <5> QED
          BY <5>1, <5>2
      <4>5. DroppedWhole(d)'
        BY <3>1, <4>4 DEF DroppedWhole
      <4>6. Matching(d)'
        BY <3>4, <4>2 DEF Matching
      <4> QED
        BY <3>5, <4>5, <4>6 DEF Sound
    <3>7. CASE ~disk[d].dir
      <4>1. disk[d] = NoDir /\ OpenFor(d) = {}
        BY <3>7, OpenIsKept DEF InUse, Named
      <4>2. disk'[d] = NoDir
        BY <2>1, <2>4, <4>1, LeftIs
      <4>3. Files(d)' = {}
        <5>1. Files(d)' = FilesOf(disk'[d])
          BY DEF Files, FilesOf, FileNames
        <5> QED
          BY <4>2, <5>1, FilesOfIs
      <4>4. DroppedWhole(d)'
        BY <3>1, <4>3 DEF DroppedWhole
      <4>5. Matching(d)'
        BY <3>4, <4>2 DEF Matching, NoDir
      <4> QED
        BY <3>5, <4>4, <4>5 DEF Sound
    <3> QED
      BY <3>6, <3>7
  <2> QED
    BY <2>3, <2>4
<1> QED
  BY <1>1, <1>2 DEF Drop

LEMMA UnlinkSound ==
  ASSUME InUse, NEW w \in Workers, NEW f, f \in Files(job[w].db), Unlink(w, f), NEW d \in Dbs, Sound(d)
  PROVE  Sound(d)'
<1> DEFINE t == job[w].db
<1>0. /\ disk \in [Dbs -> Directory] /\ eng \in [Engines -> Engine] /\ t \in Dbs /\ Serve(w)
      /\ ToSet(map) \subseteq Engines /\ map' = map /\ acked' = acked /\ pc' = pc /\ job' = job
      /\ pc[w] = "unlink" /\ toUnlink \in [Workers -> SUBSET FileNames]
      /\ toUnlink' = [toUnlink EXCEPT ![w] = @ \ {f}]
  BY Target, OpenForIs DEF InUse, Shape, Workings, Serve, Unlink, history
<1>1. /\ \A i \in Engines : eng[i].db # t => eng'[i] = eng[i]
      /\ \A i \in Engines : eng'[i].db = eng[i].db
  <2>1. \A i \in Engines : eng'[i] = eng[i] \/ (eng[i].db = t /\ eng'[i] = [eng[i] EXCEPT !.linked = FALSE])
    BY <1>0 DEF Unlink
  <2>2. \A i \in Engines : [eng[i] EXCEPT !.linked = FALSE].db = eng[i].db
    BY <1>0 DEF Engine
  <2> QED
    BY <2>1, <2>2
<1>2. OpenFor(d)' = OpenFor(d)
  BY <1>0, <1>1 DEF OpenFor
<1>3. PICK x \in Directory :
        /\ disk' = [disk EXCEPT ![t] = x] /\ x.dir
        /\ x.wal = IF f = "wal" THEN "none" ELSE disk[t].wal
        /\ x.config = IF f = "config" THEN "none" ELSE disk[t].config
        /\ x.sidecar # "none" => (disk[t].sidecar # "none" /\ f # "sidecar")
  BY UnlinkIs
<1>4. CASE d # t
  <2>1. disk'[d] = disk[d] /\ \A i \in OpenFor(d) : eng'[i] = eng[i]
    BY <1>0, <1>1, <1>3, <1>4 DEF OpenFor
  <2> QED
    BY <1>0, <1>2, <1>4, <2>1, OthersRoles, Framed DEF Alike
<1>5. CASE d = t
  <2>1. Dropping(d) /\ Dropping(d)' /\ OpenFor(d)' = {} /\ acked'[d] = NoAcks
    BY <1>0, <1>2, <1>5 DEF Dropping, Sound, DroppedWhole
  <2>2. ~ConfiguringDb(d) /\ ~ConfiguringDb(d)'
    BY <1>0, <1>2, <2>1, OpenIsKept DEF ConfiguringDb
  <2>3. Files(d)' \subseteq Files(d) \ {f}
    <3>1. Files(d)' = FilesOf(x) /\ Files(d) = FilesOf(disk[d])
      BY <1>0, <1>3, <1>5 DEF Files, FilesOf, FileNames
    <3>2. FilesOf(x) \subseteq FilesOf(disk[d]) \ {f}
      BY <1>3, <1>5 DEF FilesOf, FileNames
    <3> QED
      BY <3>1, <3>2
  <2>4. ASSUME NEW y \in Workers, pc'[y] = "unlink", job'[y].db = d PROVE Files(d)' \subseteq toUnlink'[y]
    <3>1. Files(d) \subseteq toUnlink[y]
      BY <1>0, <2>1, <2>4 DEF Sound, DroppedWhole
    <3>2. toUnlink[y] \ {f} \subseteq toUnlink'[y]
      BY <1>0
    <3> QED
      BY <2>3, <3>1, <3>2
  <2>5. DroppedWhole(d)'
    BY <2>1, <2>4 DEF DroppedWhole
  <2>6. Promised(d)'
    BY <2>1 DEF Promised, NoAcks
  <2>7. disk'[d].config # "torn"
    BY <1>0, <1>3, <1>5, <2>2 DEF Sound, Matching
  <2>8. Matching(d)'
    BY <2>1, <2>2, <2>7 DEF Matching
  <2> QED
    BY <2>5, <2>6, <2>8 DEF Sound
<1> QED
  BY <1>4, <1>5
\* The directory is gone; or it stays, of a database that was opened meanwhile.
LEMMA RmdirSound ==
  ASSUME InUse, NEW w \in Workers, Rmdir(w), NEW d \in Dbs \ exposed',
         d \notin exposed => Sound(d)
  PROVE  Sound(d)'
<1> DEFINE t == job[w].db
<1>0. /\ disk \in [Dbs -> Directory] /\ t \in Dbs /\ Serve(w) /\ map' = map /\ eng' = eng /\ acked' = acked
      /\ pc[w] = "unlink" /\ pc \in [Workers -> Labels] /\ toUnlink[w] \cap Files(t) = {} /\ Answer(w)
  BY Target DEF InUse, Shape, Workings, Serve, Rmdir
<1>1. OpenFor(d)' = OpenFor(d)
  BY <1>0 DEF OpenFor
<1>2. CASE d # t
  <2>1. d \notin exposed /\ disk'[d] = disk[d]
    BY <1>0, <1>2 DEF Rmdir
  <2> QED
    BY <1>0, <1>2, <2>1, OthersRoles, QuietSound DEF Alike
<1>3. CASE d = t
  <2>1. Files(d) = {} /\ OpenFor(d) = {} /\ acked[d] = NoAcks
    <3>1. CASE d \in exposed
      BY <1>3, <3>1 DEF Rmdir
    <3>2. CASE d \notin exposed
      <4>1. Dropping(d) /\ Sound(d)
        BY <1>0, <1>3, <3>2 DEF Dropping
      <4>2. OpenFor(d) = {} /\ acked[d] = NoAcks /\ Files(d) \subseteq toUnlink[w]
        BY <1>0, <1>3, <4>1 DEF Sound, DroppedWhole
      <4> QED
        BY <1>0, <1>3, <4>2
    <3> QED
      BY <3>1, <3>2
  <2>2. disk'[d] = NoDir /\ OpenFor(d)' = {} /\ acked'[d] = NoAcks
    BY <1>0, <1>1, <1>3, <2>1 DEF Rmdir
  <2>3. Files(d)' = {}
    <3>1. Files(d)' = FilesOf(disk'[d])
      BY DEF Files, FilesOf, FileNames
    <3> QED
      BY <2>2, <3>1, FilesOfIs
  <2>4. ~ConfiguringDb(d)'
    <3>1. pc'[w] = "idle"
      BY <1>0 DEF Answer, Goto
    <3>2. \A x \in Workers : ~(pc[x] = "configure" /\ job[x].db = d)
      BY <2>1, HeldIs, ServingIs
    <3> QED
      BY <1>0, <3>1, <3>2, OthersRoles DEF ConfiguringDb
  <2>5. DroppedWhole(d)'
    BY <2>2, <2>3 DEF DroppedWhole
  <2>6. Promised(d)'
    BY <2>2 DEF Promised, NoAcks
  <2>7. Matching(d)'
    BY <2>2, <2>4 DEF Matching, NoDir
  <2> QED
    BY <2>5, <2>6, <2>7 DEF Sound
<1> QED
  BY <1>2, <1>3

LEMMA MaintainSound ==
  ASSUME InUse, NEW i \in Engines, Maintain(i), NEW d \in Dbs, Sound(d)
  PROVE  Sound(d)'
<1>0. /\ disk \in [Dbs -> Directory] /\ eng[i] \in Engine /\ i \in ToSet(map) /\ SameRoles(d)
      /\ map' = map /\ eng' = eng /\ acked' = acked /\ disk' = Saved(disk, eng[i])
  BY DEF InUse, Shape, Held, Maintain, SameRoles, process, history
<1>1. OpenFor(d)' = OpenFor(d)
  BY <1>0 DEF OpenFor
<1>2. CASE d = eng[i].db
  <2>1. i \in OpenFor(d) /\ OpenFor(d)' = {i}
    BY <1>0, <1>1, <1>2, OpenForIs
  <2> QED
    BY <1>0, <1>2, <2>1, SavedSound
<1>3. CASE d # eng[i].db
  BY <1>0, <1>3, SavedIs, QuietSound DEF Alike
<1> QED
  BY <1>2, <1>3

LEMMA StartSound ==
  ASSUME InUse, Start, NEW d \in Dbs, Sound(d)
  PROVE  Sound(d)'
<1>0. /\ disk \in [Dbs -> Directory] /\ eng \in [Engines -> Engine] /\ acked' = acked
      /\ \A w \in Workers : pc[w] = "idle" /\ pc'[w] = "idle"
      /\ disk' = WithLog(disk, Default) /\ Default \in Dbs
  BY RegistryAssumption DEF InUse, Shape, Stopped, Start, process, history
<1>1. ToSet(map) = {} /\ \A x : OpenFor(x) = {}
  <2>1. Len(map) = 0
    BY DEF Start, InUse, Shape, MapOK
  <2> QED
    BY <2>1, ToSetIs DEF OpenFor, InUse, Shape, MapOK
<1>2. NewEngine \in Engines /\ map' = <<NewEngine>> /\ eng'[NewEngine] = Opened(Default)
  BY <1>0, NewEngineIs DEF Start
<1>3. ToSet(map') = {NewEngine} /\ Opened(Default).db = Default
  BY <1>2 DEF ToSet, Opened
<1>4. SameRoles(d)
  BY <1>0 DEF SameRoles
<1>5. OpenFor(d)' = IF d = Default THEN {NewEngine} ELSE {}
  <2>1. OpenFor(d)' = {i \in ToSet(map') : eng'[i].db = d}
    BY DEF OpenFor
  <2> QED
    BY <1>2, <1>3, <2>1
<1>6. CASE d = Default
  <2>1. ~Dropping(d)
    BY <1>0 DEF Dropping
  <2>2. /\ disk'[d].wal # "none" /\ disk'[d].facts = disk[d].facts /\ disk'[d].sidecar = disk[d].sidecar
        /\ disk'[d].saved = disk[d].saved /\ disk'[d].config = disk[d].config
    BY <1>0, <1>6, WithLogIs
  <2>3. eng'[NewEngine].linked /\ eng'[NewEngine].learned = disk[d].saved
    BY <1>2, <1>6 DEF Opened
  <2> QED
    BY <1>0, <1>1, <1>4, <1>5, <1>6, <2>1, <2>2, <2>3, OpenedSound
<1>7. CASE d # Default
  <2>1. disk'[d] = disk[d]
    BY <1>0, <1>7, WithLogIs
  <2> QED
    BY <1>0, <1>1, <1>4, <1>5, <1>7, <2>1, Framed DEF Alike
<1> QED
  BY <1>6, <1>7

LEMMA ShutdownSound ==
  ASSUME InUse, Shutdown, NEW d \in Dbs, Sound(d)
  PROVE  Sound(d)'
<1>0. /\ \A w \in Workers : pc[w] = "idle" /\ pc'[w] = "idle"
      /\ disk' = Flushed /\ map' = <<>> /\ acked' = acked
  BY DEF Shutdown, process, history
<1>1. OpenFor(d)' = {}
  <2>1. ToSet(map') = {}
    BY <1>0 DEF ToSet
  <2> QED
    BY <2>1 DEF OpenFor
<1>2. SameRoles(d)
  BY <1>0 DEF SameRoles
<1>3. CASE OpenFor(d) = {}
  <2>1. disk'[d] = disk[d]
    BY <1>0, <1>3, FlushedIs
  <2> QED
    BY <1>0, <1>1, <1>2, <1>3, <2>1, Framed DEF Alike
<1>4. ASSUME NEW i \in OpenFor(d) PROVE Sound(d)'
  <2>1. eng[i].linked
    BY OpenIsKept
  <2>2. /\ disk'[d].facts = disk[d].facts /\ disk'[d].config = disk[d].config
        /\ disk'[d].saved = eng[i].learned /\ disk'[d].sidecar = "own" /\ disk'[d].wal = "headed"
    BY <1>0, <2>1, FlushedIs
  <2>3. ~Dropping(d)' /\ ~ConfiguringDb(d) /\ ~ConfiguringDb(d)'
    BY <1>0 DEF Dropping, ConfiguringDb
  <2>4. DroppedWhole(d)'
    BY <2>3 DEF DroppedWhole
  <2>5. Promised(d)'
    BY <1>0, <1>1, <2>2 DEF Sound, Promised
  <2>6. Matching(d)'
    BY <2>2, <2>3 DEF Sound, Matching, NewLog
  <2> QED
    BY <2>4, <2>5, <2>6 DEF Sound
<1> QED
  BY <1>3, <1>4

\* A kill: what it may break is exposed from then on.
LEMMA CrashSound ==
  ASSUME InUse, Crash, NEW d \in Dbs \ exposed', Sound(d)
  PROVE  Sound(d)'
<1>0. /\ disk[d] \in Directory /\ acked[d] \in Acks
      /\ disk'[d] = disk[d] /\ ~(disk[d].wal = "empty" /\ disk[d].sidecar # "none")
      /\ \A w \in Workers : ~(pc[w] \in {"configure", "unlink"} /\ job[w].db = d) /\ pc'[w] = "idle"
      /\ acked'[d] = WithoutTouches(d)[d]
  BY DEF Crash, InUse, Shape, Histories
<1>1. OpenFor(d)' = {}
  <2>1. ToSet(map') = {}
    BY DEF Crash, ToSet
  <2> QED
    BY <2>1 DEF OpenFor
<1>2. /\ ~Dropping(d) /\ ~Dropping(d)' /\ ~ConfiguringDb(d) /\ ~ConfiguringDb(d)'
  BY <1>0 DEF Dropping, ConfiguringDb
<1>3. /\ acked'[d].facts = acked[d].facts /\ acked'[d].lessons = acked[d].lessons
      /\ acked'[d].quarantined = acked[d].quarantined
      /\ acked'[d].touches = acked[d].touches \cap disk[d].saved
  <2>1. acked'[d] = [acked[d] EXCEPT !.touches = @ \cap disk[d].saved]
    BY <1>0 DEF WithoutTouches, InUse, Shape, Histories
  <2> QED
    BY <1>0, <2>1 DEF Acks
<1>4. NewLog(d) => disk[d].sidecar = "none"
  <2>1. disk[d].wal = "none" => OpenFor(d) = {}
    BY OpenIsKept
  <2> QED
    BY <1>0, <1>2, <2>1 DEF Sound, Matching, NewLog
<1>5. DroppedWhole(d)'
  BY <1>2 DEF DroppedWhole
<1>6. Promised(d)'
  BY <1>0, <1>1, <1>3 DEF Sound, Promised
<1>7. Matching(d)'
  BY <1>0, <1>2, <1>4 DEF Sound, Matching, NewLog
<1> QED
  BY <1>5, <1>6, <1>7 DEF Sound

LEMMA QuietServe ==
  ASSUME InUse, NEW w \in Workers, NEW d \in Dbs, Sound(d),
         ResolveHit(w) \/ ResolveRefused(w) \/ Capacity(w) \/ Recheck(w) \/ Read(w)
  PROVE  Sound(d)'
<1>0. Serve(w) /\ disk \in [Dbs -> Directory] /\ job[w].db \in Dbs
  BY Target DEF Serve
<1>1. pc[w] \notin {"unlink", "configure"}
  BY DEF ResolveHit, ResolveRefused, Capacity, Recheck, Read, Handling
<1>2. ~Drop(w) /\ ~Configure(w)
  <2>1. pc[w] = "drop" => ~(ResolveHit(w) \/ ResolveRefused(w) \/ Capacity(w) \/ Recheck(w) \/ Read(w))
    BY DEF ResolveHit, ResolveRefused, Capacity, Recheck, Read, Handling
  <2>2. Configure(w) => ~(ResolveHit(w) \/ ResolveRefused(w) \/ Capacity(w) \/ Recheck(w) \/ Read(w))
    BY DEF ResolveHit, ResolveRefused, Capacity, Recheck, Read, Handling, Configure
  <2> QED
    BY <2>1, <2>2 DEF Drop
<1>3. SameRoles(d)
  BY <1>0, <1>1, <1>2, RolesOf, RolesKept
<1>4. eng' = eng /\ acked' = acked
  BY DEF ResolveHit, ResolveRefused, Capacity, Recheck, Read, history
<1>5. ToSet(map') = ToSet(map)
  <2>1. CASE ResolveHit(w)
    <3>1. PICK i \in ToSet(map) : map' = Used(map, i)
      BY <2>1, OpenForIs DEF ResolveHit
    <3> QED
      BY <3>1, UsedDistinct DEF InUse, Shape, MapOK
  <2>2. CASE ResolveRefused(w) \/ Capacity(w) \/ Recheck(w) \/ Read(w)
    BY <2>2 DEF ResolveRefused, Capacity, Recheck, Read
  <2> QED
    BY <2>1, <2>2
<1>6. Alike(disk'[d], disk[d])
  <2>1. disk' = disk \/ disk' = [disk EXCEPT ![job[w].db].dir = TRUE]
    BY DEF ResolveHit, ResolveRefused, Capacity, Recheck, Read
  <2>2. disk'[d] = disk[d] \/ disk'[d] = [disk[d] EXCEPT !.dir = TRUE]
    BY <1>0, <2>1
  <2> QED
    BY <1>0, <2>2 DEF Alike, Directory
<1> QED
  BY <1>3, <1>4, <1>5, <1>6, QuietSound

LEMMA ReceiveSound ==
  ASSUME InUse, NEW w \in Workers, NEW r \in Requests, Receive(w, r[1], r[2]), NEW d \in Dbs, Sound(d)
  PROVE  Sound(d)'
<1>1. SameRoles(d)
  <2>1. \A x \in Workers \ {w} : pc'[x] = pc[x] /\ job'[x] = job[x] /\ toUnlink'[x] = toUnlink[x]
    BY OnlyOfWorker DEF OnlyOf, InUse, Shape, Workings
  <2> QED
    BY <2>1, ReceivesRole DEF SameRoles
<1>2. ToSet(map') = ToSet(map)
  <2>1. map' = map \/ \E i \in ToSet(map) : map' = Used(map, i)
    BY OpenForIs DEF Receive
  <2> QED
    BY <2>1, UsedDistinct DEF InUse, Shape, MapOK
<1>3. disk' = disk /\ eng' = eng /\ acked' = acked
  BY DEF Receive, history
<1> QED
  BY <1>1, <1>2, <1>3, QuietSound DEF Alike
LEMMA SoundStep ==
  ASSUME IInv, [Next]_vars, NEW d \in Dbs \ exposed'
  PROVE  Sound(d)'
<1>0. InUse /\ OneConfigures /\ (d \notin exposed => Sound(d))
  BY DEF IInv
<1>1. ASSUME NEW w \in Workers, Rmdir(w) PROVE Sound(d)'
  BY <1>0, <1>1, RmdirSound
<1>2. ASSUME NEW w \in Workers, Serve(w), ~Rmdir(w), Sound(d) PROVE Sound(d)'
  <2>1. CASE ResolveHit(w) \/ ResolveRefused(w) \/ Capacity(w) \/ Recheck(w) \/ Read(w)
    BY <1>0, <1>2, <2>1, QuietServe
  <2>2. CASE ResolveOpens(w)
    BY <1>0, <1>2, <2>2, OpensSound
  <2>3. CASE Evict(w)
    <3>1. SameRoles(d)
      <4>1. pc[w] = "evict" /\ ~Drop(w) /\ ~Configure(w)
        BY <2>3 DEF Evict, Drop, Configure, Handling
      <4> QED
        BY <1>0, <1>2, <4>1, RolesOf, RolesKept
    <3>2. CASE UNCHANGED <<map, eng, disk, acked>>
      BY <1>2, <3>1, <3>2, QuietSound DEF Alike
    <3>3. CASE Victims # {} /\ LET v == Victim
                               IN /\ map' = Without(map, v) /\ disk' = Closing(v) /\ eng' = WithoutEngine(v)
                                  /\ acked' = WithoutTouches(eng[v].db)
      <4>1. Victim \in ToSet(map) /\ Idle(Victim)
        BY <1>0, <3>3, VictimIs DEF Victims, InUse, Shape, MapOK
      <4> QED
        BY <1>0, <1>2, <3>1, <3>3, <4>1, EvictedSound
    <3> QED
      BY <2>3, <3>2, <3>3 DEF Evict
  <2>4. CASE Ingest(w) \/ Touch(w) \/ Feedback(w)
    BY <1>0, <1>2, <2>4, HandlersSound
  <2>5. CASE Configure(w) \/ Configured(w)
    BY <1>0, <1>2, <2>5, ConfigSound
  <2>6. CASE Drop(w)
    BY <1>0, <1>2, <2>6, DropSound
  <2>7. ASSUME NEW f \in Files(job[w].db), Unlink(w, f) PROVE Sound(d)'
    BY <1>0, <1>2, <2>7, UnlinkSound
  <2> QED
    BY <1>2, <2>1, <2>2, <2>3, <2>4, <2>5, <2>6, <2>7 DEF Serve
<1>3. CASE Crash
  <2>1. Sound(d)
    BY <1>0, <1>3 DEF Crash
  <2> QED
    BY <1>0, <1>3, <2>1, CrashSound
<1>4. CASE MaintenanceDue \/ UNCHANGED vars
  <2>1. CASE Sound(d)
    <3>1. SameRoles(d) /\ disk' = disk /\ map' = map /\ eng' = eng /\ acked' = acked
      BY <1>4 DEF MaintenanceDue, vars, process, history, SameRoles
    <3> QED
      BY <2>1, <3>1, QuietSound DEF Alike
  <2>2. exposed' = exposed
    BY <1>4 DEF MaintenanceDue, vars, history
  <2> QED
    BY <1>0, <2>1, <2>2
<1>5. CASE (\E i \in Engines : Maintain(i)) \/ Start \/ Shutdown
  <2>1. Sound(d)
    BY <1>0, <1>5 DEF Maintain, Start, Shutdown, history
  <2> QED
    BY <1>0, <1>5, <2>1, MaintainSound, StartSound, ShutdownSound
<1>6. ASSUME NEW w \in Workers, NEW r \in Requests, Receive(w, r[1], r[2]) PROVE Sound(d)'
  <2>1. Sound(d)
    BY <1>0, <1>6 DEF Receive, history
  <2> QED
    BY <1>0, <1>6, <2>1, ReceiveSound
<1>7. ASSUME NEW w \in Workers, Serve(w) PROVE Sound(d)'
  <2>1. CASE Rmdir(w)
    BY <1>1, <2>1
  <2>2. CASE ~Rmdir(w)
    <3>1. exposed \subseteq exposed'
      BY <1>7, <2>2, HistoriesOf
    <3> QED
      BY <1>0, <1>2, <1>7, <2>2, <3>1
  <2> QED
    BY <2>1, <2>2
<1> QED
  BY <1>3, <1>4, <1>5, <1>6, <1>7 DEF Next

LEMMA InductiveInvariant == Spec => []IInv
<1>1. ASSUME Init PROVE IInv
  <2>1. InUse
    BY <1>1, InUseInit
  <2>2. Known /\ OneConfigures
    BY <1>1 DEF Init, Known, Closed, NoDir, OneConfigures
  <2>3. ASSUME NEW d \in Dbs PROVE Sound(d)
    <3>1. OpenFor(d) = {} /\ ~Dropping(d) /\ ~ConfiguringDb(d) /\ acked[d] = NoAcks /\ disk[d] = NoDir
      BY <1>1 DEF Init, OpenFor, ToSet, Dropping, ConfiguringDb
    <3> QED
      BY <3>1 DEF Sound, DroppedWhole, Promised, Matching, NoAcks, NoDir
  <2> QED
    BY <2>1, <2>2, <2>3 DEF IInv
<1>2. ASSUME IInv, [Next]_vars PROVE IInv'
  <2>1. InUse' /\ OneConfigures'
    BY <1>2, InUseStep, ConfiguresStep DEF IInv
  <2>2. Known'
    BY <1>2, EnginesKnown, FilesKnown DEF IInv, Known, Within, FilesWithin
  <2> QED
    BY <1>2, <2>1, <2>2, SoundStep DEF IInv
<1> QED
  BY <1>1, <1>2, PTL DEF Spec

\* What was answered 200 is on disk, where the next open finds it, or, a touch,
\* with the open engine: through evictions, drops, shutdowns and kills, of every
\* database that was not opened while it was dropped, nor killed while its
\* config was written, its files removed or the header of its log still buffered.
THEOREM AnswersKept == Spec => []NothingLost
<1>1. ASSUME IInv PROVE NothingLost
  <2>1. ASSUME NEW d \in Dbs \ exposed, acked[d].quarantined, disk[d].config # "good"
        PROVE  ConfiguringDb(d)
    <3>1. Sound(d) /\ disk[d] \in Directory
      BY <1>1 DEF IInv, InUse, Shape
    <3> QED
      BY <2>1, <3>1 DEF Sound, Promised, Matching, Directory
  <2>2. AckedFound
    BY <1>1, <2>1 DEF AckedFound, IInv, Sound, Promised, ConfiguringDb
  <2>3. TouchKept
    BY <1>1 DEF TouchKept, IInv, Sound, Promised
  <2> QED
    BY <2>2, <2>3 DEF NothingLost
<1> QED
  BY <1>1, InductiveInvariant, PTL

\* A database that is closed can be opened again: neither its log and its sidecar
\* nor its config are left in a state that the next open refuses.
THEOREM AlwaysReopens == Spec => []ReopensUnlessExposed
<1>1. ASSUME IInv PROVE ReopensUnlessExposed
  <2> SUFFICES ASSUME NEW d \in Dbs \ exposed, OpenFor(d) = {}, ~Dropping(d)
               PROVE  ~Refused(d) /\ disk[d].config # "torn"
    BY DEF ReopensUnlessExposed, CanReopen
  <2>1. Sound(d) /\ ~ConfiguringDb(d)
    BY <1>1, OpenIsKept DEF IInv
  <2> QED
    BY <2>1 DEF Sound, Matching, Refused
<1> QED
  BY <1>1, InductiveInvariant, PTL
=============================================================================
