---------------------------- MODULE EngineProofs ----------------------------
(***************************************************************************)
(* Theorems about Engine: credit is learned by the edge it is for and      *)
(* stays learned, what a reader reaches has a column, and traces that were *)
(* answered are on the disk - for any number of edges, retrievals, traces  *)
(* kept, failures, rewrites and restarts.                                  *)
(***************************************************************************)
EXTENDS Engine, SequenceTheorems, FiniteSetTheorems, WellFoundedInduction, TLAPS

-----------------------------------------------------------------------------
(* The inductive invariant.                                                *)

Edges == [edge : Nat, open : BOOLEAN]
Columns == [dead : BOOLEAN, lessons : SUBSET Nat]
Traces == [r : Nat, pos : Nat]
Lines == [id : Nat, trace : Traces, nl : BOOLEAN]
Retrievals == [edge : Nat, id : Nat]

GraphTyped ==
  /\ graph \in Seq(Edges) /\ log \in Seq(Edges) /\ cols \in Seq(Columns)
  /\ GraphOK(graph) /\ GraphOK(log) /\ Len(cols) <= Len(graph)
  /\ \A i \in DOMAIN cols : ColumnOK(cols[i])
  /\ born \in 0 .. MaxEdges /\ credited \subseteq Nat \X (1 .. born)
  /\ wedged \in BOOLEAN /\ poisoned \in BOOLEAN /\ exposed \in BOOLEAN
  /\ step \in {"idle", "save", "clear"}

SidecarTyped ==
  /\ sidecar \in [DOMAIN sidecar -> Columns] /\ DOMAIN sidecar \subseteq 1 .. born
  /\ \A k \in DOMAIN sidecar : ColumnOK(sidecar[k])

StoreTyped ==
  /\ file \in Seq(Lines) /\ retrieved \in Seq(Retrievals) /\ Len(retrieved) <= MaxRetrievals
  /\ traces \in [DOMAIN traces -> Traces] /\ IsFiniteSet(DOMAIN traces)
  /\ Cardinality(DOMAIN traces) <= Cap /\ \A id \in DOMAIN traces : id \in 1 .. next - 1
  /\ next \in Nat \ {0} /\ lines \in Nat

\* A rewrite goes on only where nothing has failed, and finds every column.
Covered == (~wedged => Len(cols) = Len(graph)) /\ (step # "idle" => ~wedged)

\* A replay finds no edge that memory does not have.
LogInGraph == \A i \in DOMAIN log : \E j \in DOMAIN graph : log[i].edge = graph[j].edge

\* What was credited is with its edge, ended or not: in memory, and in the sidecar.
KeptInMemory ==
  \A c \in credited : \A i \in DOMAIN graph :
    graph[i].edge = c[2] => i \in DOMAIN cols /\ c[1] \in cols[i].lessons
KeptOnDisk ==
  \A c \in credited : \A i \in DOMAIN graph :
    graph[i].edge = c[2] => c[2] \in DOMAIN sidecar /\ c[1] \in sidecar[c[2]].lessons

\* Lessons belong to their edge, in memory and in the sidecar.
LandsInMemory ==
  ~exposed => \A i \in DOMAIN cols : \A r \in cols[i].lessons : graph[i].edge = retrieved[r].edge
LandsOnDisk ==
  ~exposed => \A k \in DOMAIN sidecar : \A r \in sidecar[k].lessons : k = retrieved[r].edge

\* A trace under an id: it is that of the retrieval that was answered the id, and
\* names the edge that this one fired - but for a rewrite that is under way.
Names(id, t) ==
  /\ \A r \in DOMAIN retrieved : retrieved[r].id = id => t.r = r
  /\ step = "idle" => t.pos \in DOMAIN graph /\ graph[t.pos].edge = retrieved[t.r].edge

Numbered ==
  /\ \A i \in DOMAIN file : file[i].id < next
  /\ \A i \in GoodLines(file) : file[i].trace.r \in DOMAIN retrieved
  /\ \A id \in DOMAIN traces : traces[id].r \in DOMAIN retrieved

Named ==
  ~exposed =>
    /\ \A r \in DOMAIN retrieved : retrieved[r].id < next
    /\ \A id \in DOMAIN traces : Names(id, traces[id])
    /\ \A i \in GoodLines(file) : Names(file[i].id, file[i].trace)

\* The next line may be glued only to a trace that was not answered.
LooseEnd ==
  \A i \in GoodLines(file) : ~file[i].nl => retrieved[file[i].trace.r].id = 0

Memory == GraphTyped /\ Covered /\ LogInGraph /\ KeptInMemory /\ LandsInMemory
Sidecar == SidecarTyped /\ KeptOnDisk /\ LandsOnDisk
Store == StoreTyped /\ Numbered /\ LooseEnd /\ TracesOnDisk
IInv == Memory /\ Sidecar /\ Store /\ Named

-----------------------------------------------------------------------------
(* Numbers in their order.                                                 *)

LEMMA Least ==
  ASSUME NEW S \in SUBSET Nat, S # {}
  PROVE \E n \in S : \A m \in S : n <= m
<1>1. \E n \in S : \A m \in S : <<m, n>> \notin {ss \in Nat \X Nat : ss[1] < ss[2]}
  <2> DEFINE R == {ss \in Nat \X Nat : ss[1] < ss[2]}
  <2>1. IsWellFoundedOn(R, Nat)
    BY NatLessThanWellFounded, Zenon DEF OpToRel
  <2> HIDE DEF R
  <2>2. \E n \in S : \A m \in S : <<m, n>> \notin R
    BY <2>1, WFMin, Zenon
  <2> QED
    BY <2>2 DEF R
<1>2. PICK n \in S : \A m \in S : <<m, n>> \notin {ss \in Nat \X Nat : ss[1] < ss[2]}
  BY <1>1
<1>3. ASSUME NEW m \in S PROVE n <= m
  <2>1. m \in Nat /\ n \in Nat
    OBVIOUS
  <2>2. ~(m < n)
    <3>1. SUFFICES ASSUME m < n PROVE <<m, n>> \in {ss \in Nat \X Nat : ss[1] < ss[2]}
      BY <1>2
    <3> DEFINE p == <<m, n>>
    <3>2. p \in Nat \X Nat /\ p[1] = m /\ p[2] = n
      BY <2>1
    <3> QED
      BY <3>1, <3>2
  <2> QED
    BY <2>1, <2>2
<1> QED
  BY <1>3

LEMMA Induction ==
  ASSUME NEW S \in SUBSET Nat, 0 \in S, \A n \in S : n + 1 \in S
  PROVE S = Nat
<1>1. SUFFICES ASSUME Nat \ S # {} PROVE FALSE
  OBVIOUS
<1>2. PICK n \in Nat \ S : \A m \in Nat \ S : n <= m
  BY <1>1, Least
<1>3. n - 1 \in S
  BY <1>2
<1> QED
  BY <1>2, <1>3

\* The greatest number, of some that are bounded.
LEMMA Greatest ==
  ASSUME NEW n \in Nat, NEW S \in SUBSET Nat, S # {}, \A s \in S : s <= n
  PROVE Max(S) \in S /\ \A s \in S : s <= Max(S)
<1> DEFINE T == {k \in Nat : \A s \in S : s <= k}
<1>1. n \in T
  OBVIOUS
<1>2. PICK k \in T : \A m \in T : k <= m
  BY <1>1, Least
<1>3. k \in S
  <2>1. SUFFICES ASSUME k \notin S PROVE FALSE
    OBVIOUS
  <2>2. PICK s \in S : TRUE
    OBVIOUS
  <2>3. \A x \in S : x <= k - 1
    BY <1>2, <2>1
  <2>4. k - 1 \in T
    BY <1>2, <2>2, <2>3
  <2> QED
    BY <1>2, <2>4
<1>4. \E x \in S : \A y \in S : x >= y
  BY <1>2, <1>3
<1>5. Max(S) \in S /\ \A y \in S : Max(S) >= y
  BY <1>4, Zenon DEF Max
<1> QED
  BY <1>5

Sorts(s, n, S) ==
  s \in [1 .. n -> S] /\ \A i, j \in 1 .. n : i < j => s[i] < s[j]

LEMMA SomeSorts ==
  ASSUME NEW S \in SUBSET Nat, IsFiniteSet(S)
  PROVE \E s : Sorts(s, Cardinality(S), S)
<1> DEFINE Good(n) == \A R \in SUBSET Nat :
             IsFiniteSet(R) /\ Cardinality(R) = n => \E s : Sorts(s, n, R)
           T == {n \in Nat : Good(n)}
<1>1. 0 \in T
  <2>1. SUFFICES ASSUME NEW R \in SUBSET Nat PROVE \E s : Sorts(s, 0, R)
    OBVIOUS
  <2>2. Sorts([i \in 1 .. 0 |-> i], 0, R)
    BY DEF Sorts
  <2> QED
    BY <2>2
<1>2. ASSUME NEW n \in T PROVE n + 1 \in T
  <2>1. n \in Nat /\ Good(n)
    BY <1>2
  <2>2. SUFFICES ASSUME NEW R \in SUBSET Nat, IsFiniteSet(R), Cardinality(R) = n + 1
                 PROVE \E s : Sorts(s, n + 1, R)
    BY <2>1
  <2>3. R # {}
    BY <2>1, <2>2, FS_EmptySet
  <2>4. PICK x \in R : \A y \in R : x <= y
    BY <2>3, Least
  <2>5. IsFiniteSet(R \ {x}) /\ Cardinality(R \ {x}) = n /\ R \ {x} \in SUBSET Nat
    <3>1. IsFiniteSet(R \ {x}) /\ Cardinality(R \ {x}) = Cardinality(R) - 1
      BY <2>2, <2>4, FS_RemoveElement, Zenon
    <3> QED
      BY <2>1, <2>2, <3>1
  <2>6. PICK s : Sorts(s, n, R \ {x})
    BY <2>1, <2>5
  <2> DEFINE t == [i \in 1 .. n + 1 |-> IF i = 1 THEN x ELSE s[i - 1]]
  <2>7. \A i \in 1 .. n + 1 : i # 1 => i - 1 \in 1 .. n
    BY <2>1
  <2>8. t \in [1 .. n + 1 -> R]
    BY <2>1, <2>6, <2>7 DEF Sorts
  <2>9. ASSUME NEW i \in 1 .. n + 1, NEW j \in 1 .. n + 1, i < j PROVE t[i] < t[j]
    <3>1. j # 1 /\ j - 1 \in 1 .. n /\ t[j] = s[j - 1]
      BY <2>1, <2>9
    <3>2. CASE i = 1
      <4>1. t[i] = x
        BY <3>2
      <4>2. s[j - 1] \in R \ {x}
        BY <2>6, <3>1 DEF Sorts
      <4>3. x \in Nat /\ s[j - 1] \in Nat /\ x <= s[j - 1] /\ x # s[j - 1]
        BY <2>4, <4>2
      <4> HIDE DEF t
      <4> QED
        BY <3>1, <4>1, <4>3
    <3>3. CASE i # 1
      <4>1. i - 1 \in 1 .. n /\ t[i] = s[i - 1] /\ i - 1 < j - 1
        BY <2>1, <2>9, <3>3
      <4> HIDE DEF t
      <4> QED
        BY <2>6, <3>1, <4>1 DEF Sorts
    <3> QED
      BY <3>2, <3>3
  <2> HIDE DEF t
  <2>10. Sorts(t, n + 1, R)
    BY <2>8, <2>9 DEF Sorts
  <2> QED
    BY <2>10
<1> HIDE DEF T
<1>3. T = Nat
  <2>1. T \in SUBSET Nat
    BY DEF T
  <2> QED
    BY <1>1, <1>2, <2>1, Induction
<1>4. Cardinality(S) \in Nat
  BY FS_CardinalityType
<1> QED
  BY <1>3, <1>4 DEF T

\* Ascending has each number once.
LEMMA AscendingHas ==
  ASSUME NEW S \in SUBSET Nat, IsFiniteSet(S)
  PROVE LET n == Cardinality(S)
            s == Ascending(S)
        IN /\ n \in Nat /\ s \in [1 .. n -> S] /\ DOMAIN s = 1 .. n
           /\ \A i, j \in 1 .. n : i # j => s[i] # s[j]
           /\ \A x \in S : \E i \in 1 .. n : s[i] = x
<1> DEFINE n == Cardinality(S)
           s == Ascending(S)
<1>1. n \in Nat
  BY FS_CardinalityType
<1>2. \E f \in [1 .. n -> S] : \A i, j \in DOMAIN f : i < j => f[i] < f[j]
  <2>1. PICK f : Sorts(f, n, S)
    BY SomeSorts
  <2> QED
    BY <2>1 DEF Sorts
<1>3. s \in [1 .. n -> S] /\ \A i, j \in DOMAIN s : i < j => s[i] < s[j]
  BY <1>2, Zenon DEF Ascending
<1> HIDE DEF s, n
<1>4. DOMAIN s = 1 .. n
  BY <1>3
<1>5. ASSUME NEW i \in 1 .. n, NEW j \in 1 .. n, i # j PROVE s[i] # s[j]
  <2>1. s[i] \in Nat /\ s[j] \in Nat
    BY <1>3
  <2>2. i < j \/ j < i
    BY <1>1, <1>5
  <2> QED
    BY <1>3, <1>4, <2>1, <2>2
<1>6. s \in Injection(1 .. n, S)
  BY <1>3, <1>5 DEF Injection, IsInjective
<1>7. Cardinality(1 .. n) = n
  BY <1>1, FS_Interval
<1>8. s \in Surjection(1 .. n, S)
  BY <1>6, <1>7, FS_Injection DEF n
<1>9. \A x \in S : \E i \in 1 .. n : s[i] = x
  BY <1>8 DEF Surjection
<1> QED
  BY <1>1, <1>3, <1>4, <1>5, <1>9 DEF n, s

-----------------------------------------------------------------------------
(* Graphs and columns.                                                     *)

SeqFacts(f, S) == Len(f) \in Nat /\ DOMAIN f = 1 .. Len(f) /\ \A i \in DOMAIN f : f[i] \in S

LEMMA SeqHas ==
  ASSUME NEW S, NEW f \in Seq(S)
  PROVE SeqFacts(f, S)
BY ElementOfSeq, LenProperties DEF SeqFacts

LEMMA SeqMade ==
  ASSUME NEW S, NEW n \in Nat, NEW f, f \in [1 .. n -> S]
  PROVE f \in Seq(S) /\ Len(f) = n
OBVIOUS

Distinct(g) == \A i, j \in DOMAIN g : i # j => g[i].edge # g[j].edge

\* A graph with the edges of another one under their numbers.
Numbers(h, g) ==
  /\ h \in Seq(Edges) /\ Len(g) <= Len(h)
  /\ \A i \in DOMAIN g : i \in DOMAIN h /\ h[i].edge = g[i].edge

LEMMA ObservedHas ==
  ASSUME NEW g \in Seq(Edges), NEW e \in Nat, Distinct(g), \A i \in DOMAIN g : g[i].edge # e
  PROVE LET h == Observed(g, e)
        IN /\ Numbers(h, g) /\ Distinct(h)
           /\ \A i \in DOMAIN h : i \in DOMAIN g \/ h[i].edge = e
           /\ \E i \in DOMAIN h : h[i].edge = e
<1> DEFINE x == [edge |-> e, open |-> TRUE]
           h == Append(g, x)
<1>1. x \in Edges /\ x.edge = e
  BY DEF Edges
<1>2. Len(g) \in Nat /\ DOMAIN g = 1 .. Len(g)
  BY LenProperties
<1> HIDE DEF x
<1>3. /\ h \in Seq(Edges) /\ Len(h) = Len(g) + 1
      /\ \A i \in 1 .. Len(g) : h[i] = g[i]
      /\ h[Len(g) + 1] = x
  BY <1>1, AppendProperties
<1>4. DOMAIN h = 1 .. Len(g) + 1
  BY <1>3, LenProperties
<1> HIDE DEF h
<1>5. \A i \in DOMAIN h : i \in DOMAIN g \/ i = Len(g) + 1
  BY <1>2, <1>4
<1>6. Numbers(h, g)
  BY <1>2, <1>3, <1>4 DEF Numbers
<1>7. Distinct(h)
  <2>1. ASSUME NEW i \in DOMAIN h, NEW j \in DOMAIN h, i # j PROVE h[i].edge # h[j].edge
    <3>1. CASE i \in DOMAIN g /\ j \in DOMAIN g
      BY <1>2, <1>3, <2>1, <3>1 DEF Distinct
    <3>2. CASE i \in DOMAIN g /\ j = Len(g) + 1
      BY <1>1, <1>2, <1>3, <3>2
    <3>3. CASE i = Len(g) + 1 /\ j \in DOMAIN g
      BY <1>1, <1>2, <1>3, <3>3
    <3> QED
      BY <1>5, <2>1, <3>1, <3>2, <3>3
  <2> QED
    BY <2>1 DEF Distinct
<1>8. h[Len(g) + 1].edge = e /\ Len(g) + 1 \in DOMAIN h
  BY <1>1, <1>2, <1>3, <1>4
<1> QED
  BY <1>5, <1>6, <1>7, <1>8 DEF Observed, h, x

LEMMA EndedHas ==
  ASSUME NEW g \in Seq(Edges), NEW es
  PROVE LET h == Ended(g, es)
        IN /\ Numbers(h, g) /\ Len(h) = Len(g) /\ DOMAIN h = DOMAIN g
           /\ Distinct(g) => Distinct(h)
<1> DEFINE h == Ended(g, es)
<1>1. Len(g) \in Nat /\ DOMAIN g = 1 .. Len(g) /\ \A i \in DOMAIN g : g[i] \in Edges
  BY SeqHas DEF SeqFacts
<1>2. DOMAIN h = DOMAIN g
  BY DEF Ended
<1>3. ASSUME NEW i \in DOMAIN g PROVE h[i] \in Edges /\ h[i].edge = g[i].edge
  <2>1. g[i] \in Edges
    BY <1>1
  <2>2. h[i] = [g[i] EXCEPT !.open = @ /\ g[i].edge \notin es]
    BY DEF Ended
  <2>3. PICK b \in BOOLEAN : b = (g[i].open /\ g[i].edge \notin es)
    OBVIOUS
  <2>4. h[i] = [g[i] EXCEPT !.open = b]
    BY <2>2, <2>3
  <2> QED
    BY <2>1, <2>4 DEF Edges
<1>4. h \in [1 .. Len(g) -> Edges]
  <2>1. h = [i \in 1 .. Len(g) |-> h[i]]
    BY <1>1 DEF Ended
  <2> HIDE DEF h
  <2> QED
    BY <1>1, <1>3, <2>1
<1> HIDE DEF h
<1>5. h \in Seq(Edges) /\ Len(h) = Len(g)
  BY <1>1, <1>4, SeqMade
<1>6. Numbers(h, g)
  BY <1>1, <1>2, <1>3, <1>5 DEF Numbers
<1>7. Distinct(g) => Distinct(h)
  BY <1>2, <1>3 DEF Distinct
<1> QED
  BY <1>2, <1>5, <1>6, <1>7 DEF h

LEMMA RewrittenHas ==
  ASSUME NEW g \in Seq(Edges), NEW dropped
  PROVE LET h == Rewritten(g, dropped)
        IN /\ h \in Seq(Edges)
           /\ \A i \in DOMAIN h : \E j \in DOMAIN g : h[i] = g[j]
           /\ Distinct(g) => Distinct(h)
<1> DEFINE S == {i \in DOMAIN g : g[i].open /\ g[i].edge \notin dropped}
           s == Ascending(S)
           n == Cardinality(S)
           h == [k \in DOMAIN s |-> g[s[k]]]
<1>1. Len(g) \in Nat /\ DOMAIN g = 1 .. Len(g) /\ \A i \in DOMAIN g : g[i] \in Edges
  BY SeqHas DEF SeqFacts
<1>2. S \in SUBSET Nat /\ S \subseteq DOMAIN g /\ \A x \in S : x <= Len(g)
  BY <1>1
<1> HIDE DEF S
<1>3. IsFiniteSet(S)
  BY <1>1, <1>2, FS_BoundedSetOfNaturals
<1>4. /\ n \in Nat /\ s \in [1 .. n -> S] /\ DOMAIN s = 1 .. n
      /\ \A i, j \in 1 .. n : i # j => s[i] # s[j]
  BY <1>2, <1>3, AscendingHas
<1> HIDE DEF s, n
<1>5. \A k \in 1 .. n : s[k] \in DOMAIN g
  BY <1>2, <1>4
<1>6. h \in [1 .. n -> Edges] /\ \A k \in 1 .. n : h[k] = g[s[k]]
  BY <1>1, <1>4, <1>5
<1>7. DOMAIN h = 1 .. n
  BY <1>4
<1> HIDE DEF h
<1>8. h \in Seq(Edges)
  BY <1>4, <1>6, SeqMade
<1>9. \A i \in DOMAIN h : \E j \in DOMAIN g : h[i] = g[j]
  BY <1>5, <1>6, <1>7
<1>10. ASSUME Distinct(g) PROVE Distinct(h)
  BY <1>4, <1>5, <1>6, <1>7, <1>10 DEF Distinct
<1> QED
  BY <1>8, <1>9, <1>10 DEF Rewritten, S, s, h

LEMMA FreshColumn ==
  Fresh \in Columns /\ Fresh.dead = FALSE /\ Fresh.lessons = {}
BY DEF Fresh, Columns

LEMMA SyncedHas ==
  ASSUME NEW c \in Seq(Columns), NEW g \in Seq(Edges), Len(c) <= Len(g)
  PROVE LET d == Synced(c, g)
        IN /\ d \in Seq(Columns) /\ Len(d) = Len(g) /\ DOMAIN d = DOMAIN g
           /\ \A i \in DOMAIN c : i \in DOMAIN d /\ d[i] = c[i]
           /\ \A i \in DOMAIN d : i \in DOMAIN c \/ d[i] = Fresh
<1> DEFINE m == Len(g) - Len(c)
           e == [i \in 1 .. m |-> Fresh]
           d == c \o e
<1>1. /\ Len(c) \in Nat /\ DOMAIN c = 1 .. Len(c)
      /\ Len(g) \in Nat /\ DOMAIN g = 1 .. Len(g)
  BY LenProperties
<1>2. m \in Nat
  BY <1>1
<1>3. e \in Seq(Columns) /\ Len(e) = m
  <2>1. e \in [1 .. m -> Columns]
    BY FreshColumn
  <2> HIDE DEF e, m
  <2> QED
    BY <1>2, <2>1, SeqMade
<1>4. \A i \in 1 .. m : e[i] = Fresh
  OBVIOUS
<1> HIDE DEF e
<1>5. /\ d \in Seq(Columns) /\ Len(d) = Len(c) + Len(e)
      /\ \A i \in 1 .. Len(c) + Len(e) : d[i] = IF i <= Len(c) THEN c[i] ELSE e[i - Len(c)]
  BY <1>3, ConcatProperties
<1> HIDE DEF d
<1>6. Len(d) = Len(g) /\ Len(c) + Len(e) = Len(g)
  BY <1>1, <1>3, <1>5
<1>7. DOMAIN d = DOMAIN g
  <2>1. DOMAIN d = 1 .. Len(d)
    BY <1>5, LenProperties
  <2> QED
    BY <1>1, <1>6, <2>1
<1>8. \A i \in DOMAIN c : i \in DOMAIN d /\ d[i] = c[i]
  BY <1>1, <1>5, <1>6, <1>7
<1>9. ASSUME NEW i \in DOMAIN d, i \notin DOMAIN c PROVE d[i] = Fresh
  <2>1. i \in 1 .. Len(g) /\ ~(i <= Len(c)) /\ i - Len(c) \in 1 .. m
    BY <1>1, <1>7, <1>9
  <2> QED
    BY <1>4, <1>5, <1>6, <2>1
<1> QED
  BY <1>5, <1>6, <1>7, <1>8, <1>9 DEF Synced, d, e

LEMMA SavedHas ==
  ASSUME NEW g \in Seq(Edges), NEW c \in Seq(Columns), Len(c) <= Len(g), Distinct(g)
  PROVE LET s == Saved(g, c)
        IN /\ s \in [DOMAIN s -> Columns]
           /\ \A k \in DOMAIN s : \E i \in DOMAIN c : i \in DOMAIN g /\ g[i].edge = k /\ s[k] = c[i]
           /\ \A i \in DOMAIN c : g[i].edge \in DOMAIN s /\ s[g[i].edge] = c[i]
<1> DEFINE s == Saved(g, c)
<1>1. /\ Len(c) \in Nat /\ DOMAIN c = 1 .. Len(c) /\ \A i \in DOMAIN c : c[i] \in Columns
      /\ Len(g) \in Nat /\ DOMAIN g = 1 .. Len(g)
  BY SeqHas DEF SeqFacts
<1>2. \A i \in DOMAIN c : i \in DOMAIN g
  BY <1>1
<1>3. s = [k \in {g[i].edge : i \in DOMAIN c} |-> c[CHOOSE i \in DOMAIN c : g[i].edge = k]]
  BY DEF Saved
<1> HIDE DEF s
<1>4. DOMAIN s = {g[i].edge : i \in DOMAIN c}
  BY <1>3
<1>5. ASSUME NEW i \in DOMAIN c PROVE g[i].edge \in DOMAIN s /\ s[g[i].edge] = c[i]
  <2>1. g[i].edge \in DOMAIN s
    BY <1>4
  <2> DEFINE j == CHOOSE k \in DOMAIN c : g[k].edge = g[i].edge
  <2>2. j \in DOMAIN c /\ g[j].edge = g[i].edge
    BY Zenon
  <2>3. s[g[i].edge] = c[j]
    BY <1>3, <1>4, <2>1
  <2> HIDE DEF j
  <2>4. j = i
    BY <1>2, <2>2 DEF Distinct
  <2> QED
    BY <2>1, <2>3, <2>4
<1>6. \A k \in DOMAIN s : \E i \in DOMAIN c : i \in DOMAIN g /\ g[i].edge = k /\ s[k] = c[i]
  BY <1>2, <1>4, <1>5
<1>7. s \in [DOMAIN s -> Columns]
  <2>1. s = [k \in DOMAIN s |-> s[k]]
    BY <1>3
  <2>2. \A k \in DOMAIN s : s[k] \in Columns
    BY <1>1, <1>6
  <2> QED
    BY <2>1, <2>2
<1> QED
  BY <1>5, <1>6, <1>7 DEF s

LEMMA LoadedHas ==
  ASSUME NEW g \in Seq(Edges), NEW s, s \in [DOMAIN s -> Columns]
  PROVE LET d == Loaded(g, s)
        IN /\ d \in Seq(Columns) /\ Len(d) = Len(g) /\ DOMAIN d = DOMAIN g
           /\ \A i \in DOMAIN g : d[i] = IF g[i].edge \in DOMAIN s THEN s[g[i].edge] ELSE Fresh
<1> DEFINE d == Loaded(g, s)
<1>1. Len(g) \in Nat /\ DOMAIN g = 1 .. Len(g)
  BY LenProperties
<1>2. d = [i \in 1 .. Len(g) |-> IF g[i].edge \in DOMAIN s THEN s[g[i].edge] ELSE Fresh]
  BY <1>1 DEF Loaded
<1> HIDE DEF d
<1>3. d \in [1 .. Len(g) -> Columns]
  BY <1>2, FreshColumn
<1>4. d \in Seq(Columns) /\ Len(d) = Len(g)
  BY <1>1, <1>3, SeqMade
<1> QED
  BY <1>1, <1>2, <1>4 DEF d

-----------------------------------------------------------------------------
(* The trace log.                                                          *)

IsAppended(h, f, line) ==
  /\ Len(h) = Len(f) + 1 /\ DOMAIN h = 1 .. Len(f) + 1
  /\ (\A i \in DOMAIN f : h[i] = f[i]) /\ h[Len(f) + 1] = line

IsGlued(h, f, line) ==
  /\ Len(f) \in DOMAIN f /\ ~f[Len(f)].nl
  /\ Len(h) = Len(f) /\ DOMAIN h = DOMAIN f
  /\ (\A i \in DOMAIN f : i # Len(f) => h[i] = f[i]) /\ h[Len(f)] = Garbled(line.nl)

LEMMA GarbledLine ==
  ASSUME NEW b \in BOOLEAN
  PROVE Garbled(b) \in Lines /\ Garbled(b).id = 0 /\ Garbled(b).nl = b
BY DEF Garbled, NoTrace, Lines, Traces

LEMMA WrittenHas ==
  ASSUME NEW f \in Seq(Lines), NEW line \in Lines
  PROVE LET h == Written(f, line)
        IN h \in Seq(Lines) /\ (IsAppended(h, f, line) \/ IsGlued(h, f, line))
<1> DEFINE h == Written(f, line)
<1>1. Len(f) \in Nat /\ DOMAIN f = 1 .. Len(f) /\ \A i \in DOMAIN f : f[i] \in Lines
  BY SeqHas DEF SeqFacts
<1>2. CASE f # <<>> /\ ~Last(f).nl
  <2> DEFINE s == SubSeq(f, 1, Len(f) - 1)
             x == Garbled(line.nl)
  <2>1. Len(f) \in Nat \ {0} /\ Len(f) - 1 \in Nat /\ Len(f) \in DOMAIN f
    BY <1>1, <1>2, EmptySeq
  <2>2. x \in Lines
    BY GarbledLine DEF Lines
  <2>3. /\ s \in Seq(Lines) /\ Len(s) = Len(f) - 1
        /\ \A i \in 1 .. Len(f) - 1 : s[i] = f[i]
    <3>1. PICK n \in Nat : n = Len(f) - 1
      BY <2>1
    <3>2. \A i \in 1 .. n : f[i] \in Lines
      BY <1>1, <2>1, <3>1
    <3>3. /\ SubSeq(f, 1, n) \in Seq(Lines)
          /\ Len(SubSeq(f, 1, n)) = IF 1 <= n THEN n - 1 + 1 ELSE 0
          /\ \A i \in 1 .. n - 1 + 1 : SubSeq(f, 1, n)[i] = f[1 + i - 1]
      BY <3>2, SubSeqProperties
    <3>4. s = SubSeq(f, 1, n)
      BY <3>1
    <3> HIDE DEF s
    <3>5. Len(s) = n /\ s \in Seq(Lines)
      BY <3>3, <3>4
    <3>6. ASSUME NEW i \in 1 .. n PROVE s[i] = f[i]
      <4>1. i \in 1 .. n - 1 + 1 /\ 1 + i - 1 = i
        OBVIOUS
      <4> QED
        BY <3>3, <3>4, <4>1
    <3> QED
      BY <3>1, <3>5, <3>6
  <2>4. h = Append(s, x)
    BY <1>2 DEF Written, Front
  <2>5. ~f[Len(f)].nl
    BY <1>2 DEF Last
  <2> HIDE DEF s, x
  <2>6. /\ Append(s, x) \in Seq(Lines) /\ Len(Append(s, x)) = Len(s) + 1
        /\ \A i \in 1 .. Len(s) : Append(s, x)[i] = s[i]
        /\ Append(s, x)[Len(s) + 1] = x
    BY <2>2, <2>3, AppendProperties
  <2> HIDE DEF h
  <2>7. Len(h) = Len(f) /\ h[Len(f)] = x /\ h \in Seq(Lines)
    BY <2>1, <2>3, <2>4, <2>6
  <2>8. DOMAIN h = DOMAIN f
    <3>1. DOMAIN h = 1 .. Len(h)
      BY <2>7, LenProperties
    <3> QED
      BY <1>1, <2>7, <3>1
  <2>9. ASSUME NEW i \in DOMAIN f, i # Len(f) PROVE h[i] = f[i]
    <3>1. i \in 1 .. Len(f) - 1 /\ i \in 1 .. Len(s)
      BY <1>1, <2>1, <2>3, <2>9
    <3> QED
      BY <2>3, <2>4, <2>6, <3>1
  <2>10. IsGlued(h, f, line)
    BY <2>1, <2>5, <2>7, <2>8, <2>9 DEF IsGlued, x
  <2> QED
    BY <2>7, <2>10 DEF h
<1>3. CASE ~(f # <<>> /\ ~Last(f).nl)
  <2>1. h = Append(f, line)
    BY <1>3 DEF Written
  <2>2. /\ Append(f, line) \in Seq(Lines) /\ Len(Append(f, line)) = Len(f) + 1
        /\ \A i \in 1 .. Len(f) : Append(f, line)[i] = f[i]
        /\ Append(f, line)[Len(f) + 1] = line
    BY AppendProperties
  <2> HIDE DEF h
  <2>3. DOMAIN h = 1 .. Len(h)
    BY <2>1, <2>2, LenProperties
  <2>4. IsAppended(h, f, line)
    BY <1>1, <2>1, <2>2, <2>3 DEF IsAppended
  <2> QED
    BY <2>1, <2>2, <2>4 DEF h
<1> QED
  BY <1>2, <1>3

LEMMA NewestHas ==
  ASSUME NEW m, m \in [DOMAIN m -> Traces], DOMAIN m \subseteq Nat, IsFiniteSet(DOMAIN m)
  PROVE LET n == Newest(m)
        IN /\ n \in [DOMAIN n -> Traces] /\ DOMAIN n \subseteq DOMAIN m
           /\ \A id \in DOMAIN n : n[id] = m[id]
           /\ IsFiniteSet(DOMAIN n) /\ Cardinality(DOMAIN n) <= Cap
<1> DEFINE n == Newest(m)
           Above(i) == {j \in DOMAIN m : j > i}
           T == {i \in DOMAIN m : Cardinality(Above(i)) < Cap}
<1>1. n = [id \in T |-> m[id]] /\ T \subseteq DOMAIN m
  BY DEF Newest
<1>2. IsFiniteSet(T) /\ Cardinality(T) \in Nat
  BY <1>1, FS_Subset, FS_CardinalityType
<1>3. Cap \in Nat \ {0}
  BY LimitsAssumption
<1>4. Cardinality(T) <= Cap
  <2>1. CASE T = {}
    <3>1. Cardinality(T) = 0
      BY <2>1, FS_EmptySet
    <3> QED
      BY <1>3, <3>1
  <2>2. CASE T # {}
    <3>1. PICK i \in T : \A j \in T : i <= j
      BY <1>1, <2>2, Least
    <3>2. Cardinality(Above(i)) < Cap /\ i \in Nat
      BY <3>1
    <3>3. IsFiniteSet(Above(i)) /\ Cardinality(Above(i)) \in Nat
      BY FS_Subset, FS_CardinalityType
    <3>4. T \ {i} \in SUBSET Above(i)
      <4>1. ASSUME NEW j \in T \ {i} PROVE j \in Above(i)
        <5>1. j \in DOMAIN m /\ j \in Nat /\ i <= j /\ j # i
          BY <1>1, <3>1
        <5> QED
          BY <3>2, <5>1
      <4> HIDE DEF T, Above
      <4> QED
        BY <4>1
    <3>5. Cardinality(T) = Cardinality(T \ {i}) + 1
      <4>1. Cardinality(T \ {i}) = Cardinality(T) - 1
        BY <1>2, <3>1, FS_RemoveElement, Zenon
      <4> QED
        BY <1>2, <4>1
    <3>6. Cardinality(T \ {i}) <= Cardinality(Above(i)) /\ Cardinality(T \ {i}) \in Nat
      <4> HIDE DEF T, Above
      <4>1. IsFiniteSet(T \ {i})
        BY <1>2, FS_RemoveElement
      <4>2. Cardinality(T \ {i}) <= Cardinality(Above(i))
        BY <3>3, <3>4, FS_Subset
      <4> QED
        BY <4>1, <4>2, FS_CardinalityType
    <3> HIDE DEF T, Above
    <3> QED
      BY <1>3, <3>2, <3>3, <3>5, <3>6
  <2> QED
    BY <2>1, <2>2
<1> HIDE DEF T
<1>5. DOMAIN n = T /\ \A id \in T : n[id] = m[id]
  BY <1>1
<1>6. n \in [T -> Traces]
  BY <1>1
<1> QED
  BY <1>1, <1>2, <1>4, <1>5, <1>6 DEF n

LEMMA LinesOfHas ==
  ASSUME NEW m, m \in [DOMAIN m -> Traces], DOMAIN m \subseteq Nat, IsFiniteSet(DOMAIN m)
  PROVE LET h == LinesOf(m)
        IN /\ h \in Seq(Lines)
           /\ \A i \in DOMAIN h : h[i].nl /\ h[i].id \in DOMAIN m /\ h[i].trace = m[h[i].id]
           /\ \A id \in DOMAIN m : \E i \in DOMAIN h : h[i].id = id /\ h[i].trace = m[id]
<1> DEFINE s == Ascending(DOMAIN m)
           n == Cardinality(DOMAIN m)
           h == LinesOf(m)
<1>1. /\ n \in Nat /\ s \in [1 .. n -> DOMAIN m] /\ DOMAIN s = 1 .. n
      /\ \A x \in DOMAIN m : \E i \in 1 .. n : s[i] = x
  BY AscendingHas
<1>2. h = [i \in DOMAIN s |-> Line(s[i], m[s[i]])]
  BY DEF LinesOf
<1> HIDE DEF s, n, h
<1>3. ASSUME NEW i \in 1 .. n
      PROVE h[i] \in Lines /\ h[i].nl /\ h[i].id = s[i] /\ h[i].trace = m[s[i]] /\ s[i] \in DOMAIN m
  <2>1. s[i] \in DOMAIN m /\ s[i] \in Nat /\ m[s[i]] \in Traces
    BY <1>1
  <2>2. h[i] = [id |-> s[i], trace |-> m[s[i]], nl |-> TRUE]
    BY <1>1, <1>2 DEF Line
  <2> QED
    BY <2>1, <2>2 DEF Lines
<1>4. DOMAIN h = 1 .. n
  BY <1>1, <1>2
<1>5. h \in [1 .. n -> Lines]
  BY <1>1, <1>2, <1>3
<1>6. h \in Seq(Lines)
  BY <1>1, <1>5, SeqMade
<1>7. \A i \in DOMAIN h : h[i].nl /\ h[i].id \in DOMAIN m /\ h[i].trace = m[h[i].id]
  BY <1>3, <1>4
<1>8. ASSUME NEW id \in DOMAIN m PROVE \E i \in DOMAIN h : h[i].id = id /\ h[i].trace = m[id]
  BY <1>1, <1>3, <1>4
<1> QED
  BY <1>6, <1>7, <1>8 DEF h

LEMMA ReplayedMapHas ==
  ASSUME NEW f \in Seq(Lines), NEW b \in Nat, \A i \in DOMAIN f : f[i].id < b
  PROVE LET m == ReplayedMap(f)
        IN /\ m \in [DOMAIN m -> Traces] /\ DOMAIN m \subseteq Nat \ {0}
           /\ \A id \in DOMAIN m : \E i \in GoodLines(f) : f[i].id = id /\ m[id] = f[i].trace
           /\ IsFiniteSet(DOMAIN m) /\ Cardinality(DOMAIN m) <= Cap
<1> DEFINE S == {f[i].id : i \in GoodLines(f)}
           a == [id \in S |-> f[CHOOSE i \in GoodLines(f) : f[i].id = id].trace]
<1>1. \A i \in DOMAIN f : f[i] \in Lines
  BY SeqHas DEF SeqFacts
<1>2. \A i \in GoodLines(f) : i \in DOMAIN f /\ f[i].id \in Nat \ {0} /\ f[i].trace \in Traces
  BY <1>1 DEF GoodLines, Lines
<1>3. S \in SUBSET Nat /\ S \subseteq Nat \ {0} /\ IsFiniteSet(S)
  <2>1. S \in SUBSET Nat /\ S \subseteq Nat \ {0} /\ \A x \in S : x <= b
    BY <1>2
  <2> HIDE DEF S
  <2> QED
    BY <2>1, FS_BoundedSetOfNaturals
<1>4. ASSUME NEW id \in S
      PROVE \E i \in GoodLines(f) : f[i].id = id /\ a[id] = f[i].trace
  <2> DEFINE j == CHOOSE i \in GoodLines(f) : f[i].id = id
  <2>1. \E i \in GoodLines(f) : f[i].id = id
    OBVIOUS
  <2>2. j \in GoodLines(f) /\ f[j].id = id
    BY <2>1, Zenon
  <2>3. a[id] = f[j].trace
    OBVIOUS
  <2> HIDE DEF j, a, S
  <2> QED
    BY <2>2, <2>3
<1>5. DOMAIN a = S
  OBVIOUS
<1>6. a \in [S -> Traces]
  <2>1. a = [id \in S |-> a[id]]
    OBVIOUS
  <2> HIDE DEF a, S
  <2> QED
    BY <1>2, <1>4, <2>1
<1>7. ReplayedMap(f) = Newest(a)
  BY DEF ReplayedMap
<1> HIDE DEF a, S
<1> DEFINE m == Newest(a)
<1>8. /\ m \in [DOMAIN m -> Traces] /\ DOMAIN m \subseteq DOMAIN a
      /\ \A id \in DOMAIN m : m[id] = a[id]
      /\ IsFiniteSet(DOMAIN m) /\ Cardinality(DOMAIN m) <= Cap
  BY <1>3, <1>5, <1>6, NewestHas
<1> HIDE DEF m
<1>9. DOMAIN m \subseteq Nat \ {0}
  BY <1>3, <1>5, <1>8
<1>10. \A id \in DOMAIN m : \E i \in GoodLines(f) : f[i].id = id /\ m[id] = f[i].trace
  <2>1. SUFFICES ASSUME NEW id \in DOMAIN m
                 PROVE \E i \in GoodLines(f) : f[i].id = id /\ m[id] = f[i].trace
    OBVIOUS
  <2>2. id \in S /\ m[id] = a[id]
    BY <1>5, <1>8
  <2> QED
    BY <1>4, <2>2
<1> QED
  BY <1>7, <1>8, <1>9, <1>10 DEF m

LEMMA ReplayedNextHas ==
  ASSUME NEW f \in Seq(Lines), NEW b \in Nat, \A i \in DOMAIN f : f[i].id < b
  PROVE ReplayedNext(f) \in Nat \ {0} /\ \A i \in DOMAIN f : f[i].id < ReplayedNext(f)
<1> DEFINE S == {f[i].id : i \in DOMAIN f} \cup {0}
<1>1. \A i \in DOMAIN f : f[i].id \in Nat
  <2>1. \A i \in DOMAIN f : f[i] \in Lines
    BY SeqHas DEF SeqFacts
  <2> QED
    BY <2>1 DEF Lines
<1>2. S \in SUBSET Nat /\ S # {} /\ \A x \in S : x <= b
  BY <1>1
<1>3. \A i \in DOMAIN f : f[i].id \in S
  OBVIOUS
<1>4. ReplayedNext(f) = Max(S) + 1
  BY DEF ReplayedNext
<1> HIDE DEF S
<1>5. Max(S) \in S /\ \A x \in S : x <= Max(S)
  BY <1>2, Greatest
<1>6. Max(S) \in Nat
  BY <1>2, <1>5
<1>7. ASSUME NEW i \in DOMAIN f PROVE f[i].id < ReplayedNext(f)
  BY <1>1, <1>3, <1>4, <1>5, <1>6
<1> QED
  BY <1>4, <1>6, <1>7

-----------------------------------------------------------------------------
(* What steps have in common.                                              *)

LEMMA GraphFacts ==
  ASSUME GraphTyped
  PROVE /\ Distinct(graph) /\ Distinct(log) /\ born \in Nat
        /\ Len(graph) \in Nat /\ DOMAIN graph = 1 .. Len(graph)
        /\ Len(cols) \in Nat /\ DOMAIN cols = 1 .. Len(cols) /\ DOMAIN cols \subseteq DOMAIN graph
        /\ \A i \in DOMAIN graph : graph[i].edge \in 1 .. born
        /\ \A i \in DOMAIN log : log[i].edge \in 1 .. born
        /\ \A i \in DOMAIN cols : cols[i] \in Columns
<1>1. graph \in Seq(Edges) /\ cols \in Seq(Columns) /\ Len(cols) <= Len(graph)
  BY DEF GraphTyped
<1>2. /\ Len(graph) \in Nat /\ DOMAIN graph = 1 .. Len(graph)
      /\ Len(cols) \in Nat /\ DOMAIN cols = 1 .. Len(cols)
      /\ \A i \in DOMAIN cols : cols[i] \in Columns
  BY <1>1, SeqHas DEF SeqFacts
<1>3. DOMAIN cols \subseteq DOMAIN graph
  BY <1>1, <1>2
<1>4. Distinct(graph) /\ Distinct(log)
  BY DEF GraphTyped, GraphOK, Distinct
<1>5. /\ \A i \in DOMAIN graph : graph[i].edge \in 1 .. born
      /\ \A i \in DOMAIN log : log[i].edge \in 1 .. born
  BY DEF GraphTyped, GraphOK
<1>6. born \in Nat
  BY LimitsAssumption DEF GraphTyped
<1> QED
  BY <1>2, <1>3, <1>4, <1>5, <1>6

LEMMA StoreFacts ==
  ASSUME StoreTyped
  PROVE /\ SeqFacts(file, Lines) /\ SeqFacts(retrieved, Retrievals)
        /\ DOMAIN traces \subseteq Nat /\ next \in Nat \ {0}
        /\ \A id \in DOMAIN traces : traces[id] \in Traces /\ id \in Nat \ {0} /\ id < next
<1>1. SeqFacts(file, Lines) /\ SeqFacts(retrieved, Retrievals)
  BY SeqHas DEF StoreTyped
<1>2. next \in Nat \ {0} /\ \A id \in DOMAIN traces : id \in 1 .. next - 1
  BY DEF StoreTyped
<1>3. \A id \in DOMAIN traces : traces[id] \in Traces
  BY DEF StoreTyped
<1> QED
  BY <1>1, <1>2, <1>3

RetrievalsStay ==
  \A r \in DOMAIN retrieved : r \in DOMAIN retrieved' /\ retrieved'[r].edge = retrieved[r].edge

\* Columns are saved.
LEMMA Saves ==
  ASSUME GraphTyped', KeptInMemory', LandsInMemory', SaveSidecar
  PROVE Sidecar'
<1> DEFINE s == Saved(graph', cols')
<1>1. /\ graph' \in Seq(Edges) /\ cols' \in Seq(Columns) /\ Len(cols') <= Len(graph')
      /\ Distinct(graph')
  BY DEF GraphTyped, GraphOK, Distinct
<1>2. sidecar' = s
  BY DEF SaveSidecar
<1>3. /\ s \in [DOMAIN s -> Columns]
      /\ \A k \in DOMAIN s :
           \E i \in DOMAIN cols' : i \in DOMAIN graph' /\ graph'[i].edge = k /\ s[k] = cols'[i]
      /\ \A i \in DOMAIN cols' : graph'[i].edge \in DOMAIN s /\ s[graph'[i].edge] = cols'[i]
  BY <1>1, SavedHas
<1> HIDE DEF s
<1>4. ASSUME NEW k \in DOMAIN s
      PROVE k \in 1 .. born' /\ s[k].dead \in BOOLEAN /\ s[k].lessons \subseteq DOMAIN retrieved'
  <2>1. PICK i \in DOMAIN cols' : i \in DOMAIN graph' /\ graph'[i].edge = k /\ s[k] = cols'[i]
    BY <1>3
  <2>2. graph'[i].edge \in 1 .. born'
    BY <2>1 DEF GraphTyped, GraphOK
  <2>3. cols'[i].dead \in BOOLEAN /\ cols'[i].lessons \subseteq DOMAIN retrieved'
    BY <2>1 DEF GraphTyped, ColumnOK
  <2> QED
    BY <2>1, <2>2, <2>3
<1>5. SidecarTyped'
  BY <1>2, <1>3, <1>4 DEF SidecarTyped, ColumnOK
<1>6. KeptOnDisk'
  <2>1. SUFFICES ASSUME NEW c \in credited', NEW i \in DOMAIN graph', graph'[i].edge = c[2]
                 PROVE c[2] \in DOMAIN s /\ c[1] \in s[c[2]].lessons
    BY <1>2 DEF KeptOnDisk
  <2>2. i \in DOMAIN cols' /\ c[1] \in cols'[i].lessons
    BY <2>1 DEF KeptInMemory
  <2> QED
    BY <1>3, <2>1, <2>2
<1>7. LandsOnDisk'
  <2>1. SUFFICES ASSUME ~exposed', NEW k \in DOMAIN s, NEW r \in s[k].lessons
                 PROVE k = retrieved'[r].edge
    BY <1>2 DEF LandsOnDisk
  <2>2. PICK i \in DOMAIN cols' : graph'[i].edge = k /\ s[k] = cols'[i]
    BY <1>3
  <2> QED
    BY <2>1, <2>2 DEF LandsInMemory
<1> QED
  BY <1>5, <1>6, <1>7 DEF Sidecar

\* The sidecar stays as it is.
LEMMA SidecarStays ==
  ASSUME Sidecar, GraphTyped, UNCHANGED <<sidecar, credited>>, RetrievalsStay,
         exposed => exposed', born \in Nat, born' \in Nat, born <= born',
         \A i \in DOMAIN graph' : \/ graph'[i].edge \notin 1 .. born
                                  \/ \E j \in DOMAIN graph : graph[j].edge = graph'[i].edge
  PROVE Sidecar'
<1>1. SidecarTyped /\ KeptOnDisk /\ LandsOnDisk
  BY DEF Sidecar
<1>2. \A k \in DOMAIN sidecar : \A r \in sidecar[k].lessons : r \in DOMAIN retrieved
  BY <1>1 DEF SidecarTyped, ColumnOK
<1>3. SidecarTyped'
  <2>1. \A k \in DOMAIN sidecar : k \in 1 .. born'
    BY <1>1 DEF SidecarTyped
  <2>2. \A k \in DOMAIN sidecar : ColumnOK(sidecar[k])'
    BY <1>1 DEF SidecarTyped, ColumnOK, RetrievalsStay
  <2> QED
    BY <1>1, <2>1, <2>2 DEF SidecarTyped
<1>4. KeptOnDisk'
  <2>1. SUFFICES ASSUME NEW c \in credited, NEW i \in DOMAIN graph', graph'[i].edge = c[2]
                 PROVE c[2] \in DOMAIN sidecar /\ c[1] \in sidecar[c[2]].lessons
    BY DEF KeptOnDisk
  <2>2. c[2] \in 1 .. born
    BY DEF GraphTyped
  <2>3. PICK j \in DOMAIN graph : graph[j].edge = c[2]
    BY <2>1, <2>2
  <2> QED
    BY <1>1, <2>3 DEF KeptOnDisk
<1>5. LandsOnDisk'
  BY <1>1, <1>2 DEF LandsOnDisk, RetrievalsStay
<1> QED
  BY <1>3, <1>4, <1>5 DEF Sidecar

\* Edges keep their numbers, and what they have learned.
LEMMA NumbersStay ==
  ASSUME Memory, Numbers(graph', graph), UNCHANGED credited, RetrievalsStay, exposed => exposed',
         \A i \in DOMAIN graph' : i \in DOMAIN graph \/ graph'[i].edge \notin 1 .. born,
         \A i \in DOMAIN cols : i \in DOMAIN cols' /\ cols'[i].lessons = cols[i].lessons,
         \A i \in DOMAIN cols' : i \in DOMAIN cols \/ cols'[i].lessons = {}
  PROVE KeptInMemory' /\ LandsInMemory'
<1>1. GraphTyped /\ KeptInMemory /\ LandsInMemory
  BY DEF Memory
<1>2. KeptInMemory'
  <2>1. SUFFICES ASSUME NEW c \in credited, NEW i \in DOMAIN graph', graph'[i].edge = c[2]
                 PROVE i \in DOMAIN cols' /\ c[1] \in cols'[i].lessons
    BY DEF KeptInMemory
  <2>2. c[2] \in 1 .. born
    BY <1>1 DEF GraphTyped
  <2>3. i \in DOMAIN graph /\ graph[i].edge = c[2]
    BY <2>1, <2>2 DEF Numbers
  <2> QED
    BY <1>1, <2>3 DEF KeptInMemory
<1>3. LandsInMemory'
  <2>1. SUFFICES ASSUME ~exposed', NEW i \in DOMAIN cols', NEW r \in cols'[i].lessons
                 PROVE graph'[i].edge = retrieved'[r].edge
    BY DEF LandsInMemory
  <2>2. i \in DOMAIN cols /\ r \in cols[i].lessons
    BY <2>1
  <2>3. i \in DOMAIN graph /\ r \in DOMAIN retrieved
    BY <1>1, <2>2, GraphFacts DEF GraphTyped, ColumnOK
  <2> QED
    BY <1>1, <2>1, <2>2, <2>3 DEF LandsInMemory, Numbers, RetrievalsStay
<1> QED
  BY <1>2, <1>3

LEMMA StoreStays ==
  ASSUME Store, UNCHANGED <<store, retrieved>>
  PROVE Store'
<1>1. UNCHANGED <<traces, next, lines, file, retrieved>>
  BY DEF store
<1>2. StoreTyped /\ Numbered /\ LooseEnd /\ TracesOnDisk
  BY DEF Store
<1>3. StoreTyped'
  BY <1>1, <1>2 DEF StoreTyped
<1>4. Numbered' /\ LooseEnd'
  BY <1>1, <1>2 DEF Numbered, LooseEnd
<1>5. TracesOnDisk'
  BY <1>1, <1>2 DEF TracesOnDisk
<1> QED
  BY <1>3, <1>4, <1>5 DEF Store

LEMMA NamedStays ==
  ASSUME Named, UNCHANGED <<store, retrieved>>, exposed => exposed',
         ~exposed' /\ step' = "idle" =>
           \/ step = "idle" /\ Numbers(graph', graph)
           \/ DOMAIN traces = {} /\ GoodLines(file) = {}
  PROVE Named'
<1>1. UNCHANGED <<traces, next, lines, file, retrieved>>
  BY DEF store
<1>2. SUFFICES ASSUME ~exposed' PROVE Named'
  BY DEF Named
<1>3. /\ \A r \in DOMAIN retrieved : retrieved[r].id < next
      /\ \A id \in DOMAIN traces : Names(id, traces[id])
      /\ \A i \in GoodLines(file) : Names(file[i].id, file[i].trace)
  BY <1>2 DEF Named
<1>4. ASSUME NEW id, NEW t, Names(id, t), DOMAIN traces # {} \/ GoodLines(file) # {}
      PROVE Names(id, t)'
  BY <1>1, <1>2, <1>4 DEF Names, Numbers
<1>5. \A id \in DOMAIN traces : Names(id, traces[id])'
  BY <1>1, <1>3, <1>4
<1>6. \A i \in GoodLines(file) : Names(file[i].id, file[i].trace)'
  BY <1>1, <1>3, <1>4
<1> QED
  BY <1>1, <1>3, <1>5, <1>6 DEF Named

-----------------------------------------------------------------------------
(* The graph, its log and its columns.                                     *)

LEMMA ChangedHas ==
  ASSUME GraphTyped, NEW c \in Changes, Counted(c), NEW g, g \in Seq(Edges), GraphOK(g)
  PROVE LET h == Changed(g, c)
        IN /\ Numbers(h, g) /\ Distinct(h)
           /\ born' \in 0 .. MaxEdges /\ born <= born'
           /\ \A i \in DOMAIN h : h[i].edge \in 1 .. born' /\ h[i].open \in BOOLEAN
           /\ \A i \in DOMAIN h : \/ i \in DOMAIN g
                                  \/ c.op = "observe" /\ h[i].edge = c.edge /\ c.edge \notin 1 .. born
           /\ c.op = "observe" => \E i \in DOMAIN h : h[i].edge = c.edge
<1> DEFINE h == Changed(g, c)
<1>1. born \in Nat /\ born \in 0 .. MaxEdges /\ MaxEdges \in Nat
  BY GraphFacts, LimitsAssumption DEF GraphTyped
<1>2. Distinct(g) /\ \A i \in DOMAIN g : g[i].edge \in 1 .. born
  BY DEF GraphOK, Distinct
<1>3. \A k \in Seq(Edges) : \A i \in DOMAIN k : k[i] \in Edges
  BY SeqHas DEF SeqFacts
<1>4. CASE c.op = "observe"
  <2>1. c.edge = born + 1 /\ born + 1 \in 1 .. MaxEdges /\ born' = born + 1
    BY <1>4 DEF Changes, Counted
  <2>2. h = Observed(g, c.edge)
    BY <1>4 DEF Changed
  <2>3. c.edge \in Nat /\ \A i \in DOMAIN g : g[i].edge # c.edge
    BY <1>1, <1>2, <2>1
  <2>4. /\ Numbers(h, g) /\ Distinct(h)
        /\ \A i \in DOMAIN h : i \in DOMAIN g \/ h[i].edge = c.edge
        /\ \E i \in DOMAIN h : h[i].edge = c.edge
    BY <1>2, <2>2, <2>3, ObservedHas
  <2> HIDE DEF h
  <2>5. ASSUME NEW i \in DOMAIN h PROVE h[i].edge \in 1 .. born' /\ h[i].open \in BOOLEAN
    <3>1. h[i] \in Edges
      BY <1>3, <2>4 DEF Numbers
    <3>2. h[i].edge \in 1 .. born \/ h[i].edge = born + 1
      BY <1>2, <2>1, <2>4 DEF Numbers
    <3> QED
      BY <1>1, <2>1, <3>1, <3>2 DEF Edges
  <2>6. born' \in 0 .. MaxEdges /\ born <= born' /\ c.edge \notin 1 .. born
    BY <1>1, <2>1
  <2> QED
    BY <1>4, <2>4, <2>5, <2>6 DEF h
<1>5. CASE c.op # "observe"
  <2>1. born' = born
    BY <1>5 DEF Counted
  <2>2. h = Ended(g, {c.edge})
    BY <1>5 DEF Changed
  <2>3. Numbers(h, g) /\ Distinct(h) /\ DOMAIN h = DOMAIN g
    BY <1>2, <2>2, EndedHas
  <2> HIDE DEF h
  <2>4. ASSUME NEW i \in DOMAIN h PROVE h[i].edge \in 1 .. born' /\ h[i].open \in BOOLEAN
    <3>1. h[i] \in Edges
      BY <1>3, <2>3 DEF Numbers
    <3>2. h[i].edge \in 1 .. born
      BY <1>2, <2>3 DEF Numbers
    <3> QED
      BY <2>1, <3>1, <3>2 DEF Edges
  <2> QED
    BY <1>1, <1>5, <2>1, <2>3, <2>4 DEF h
<1> QED
  BY <1>4, <1>5

\* A batch, and its journal or none.
LEMMA BatchHas ==
  ASSUME Memory, NEW c \in Changes, Counted(c),
         graph' = Changed(graph, c), log' = Changed(log, c) \/ log' = log
  PROVE /\ Numbers(graph', graph) /\ log' \in Seq(Edges) /\ GraphOK(graph)' /\ GraphOK(log)'
        /\ born' \in 0 .. MaxEdges /\ born <= born' /\ LogInGraph'
        /\ \A i \in DOMAIN graph' : i \in DOMAIN graph \/ graph'[i].edge \notin 1 .. born
<1>1. /\ GraphTyped /\ LogInGraph /\ graph \in Seq(Edges) /\ log \in Seq(Edges)
      /\ GraphOK(graph) /\ GraphOK(log) /\ born \in Nat
  BY GraphFacts DEF Memory, GraphTyped
<1>2. /\ Numbers(graph', graph) /\ Distinct(graph')
      /\ born' \in 0 .. MaxEdges /\ born <= born'
      /\ \A i \in DOMAIN graph' : graph'[i].edge \in 1 .. born' /\ graph'[i].open \in BOOLEAN
      /\ \A i \in DOMAIN graph' :
           \/ i \in DOMAIN graph
           \/ c.op = "observe" /\ graph'[i].edge = c.edge /\ c.edge \notin 1 .. born
      /\ c.op = "observe" => \E i \in DOMAIN graph' : graph'[i].edge = c.edge
  BY <1>1, ChangedHas
<1>3. GraphOK(graph)'
  BY <1>2 DEF GraphOK, Distinct
<1>4. ASSUME NEW i \in DOMAIN log PROVE \E j \in DOMAIN graph' : log[i].edge = graph'[j].edge
  <2>1. PICK j \in DOMAIN graph : log[i].edge = graph[j].edge
    BY <1>1 DEF LogInGraph
  <2> QED
    BY <1>2, <2>1 DEF Numbers
<1>5. CASE log' = log
  <2>1. GraphOK(log)'
    BY <1>1, <1>2, <1>5 DEF GraphOK
  <2>2. LogInGraph'
    BY <1>4, <1>5 DEF LogInGraph
  <2> QED
    BY <1>1, <1>2, <1>3, <1>5, <2>1, <2>2
<1>6. CASE log' = Changed(log, c)
  <2>1. /\ Numbers(log', log) /\ Distinct(log')
        /\ \A i \in DOMAIN log' : log'[i].edge \in 1 .. born' /\ log'[i].open \in BOOLEAN
        /\ \A i \in DOMAIN log' :
             \/ i \in DOMAIN log
             \/ c.op = "observe" /\ log'[i].edge = c.edge /\ c.edge \notin 1 .. born
    BY <1>1, <1>6, ChangedHas
  <2>2. GraphOK(log)' /\ log' \in Seq(Edges)
    BY <2>1 DEF GraphOK, Distinct, Numbers
  <2>3. ASSUME NEW i \in DOMAIN log' PROVE \E j \in DOMAIN graph' : log'[i].edge = graph'[j].edge
    <3>1. CASE i \in DOMAIN log
      BY <1>4, <2>1, <3>1 DEF Numbers
    <3>2. CASE i \notin DOMAIN log
      BY <1>2, <2>1, <3>2
    <3> QED
      BY <3>1, <3>2
  <2>4. LogInGraph'
    BY <2>3 DEF LogInGraph
  <2> QED
    BY <1>2, <1>3, <2>2, <2>4
<1> QED
  BY <1>5, <1>6

LEMMA IngestStep ==
  ASSUME IInv, NEW c \in Changes, Ingest(c)
  PROVE IInv'
<1>1. Memory /\ Sidecar /\ Store /\ Named /\ GraphTyped /\ Covered
  BY DEF IInv, Memory
<1>2. /\ Counted(c) /\ graph' = Changed(graph, c) /\ log' = Changed(log, c)
      /\ cols' = Synced(cols, graph') /\ step = "idle" /\ ~wedged
      /\ UNCHANGED <<sidecar, store, wedged, poisoned, step, retrieved, credited, exposed>>
  BY DEF Ingest, Writing, Serving
<1>3. /\ Numbers(graph', graph) /\ log' \in Seq(Edges) /\ GraphOK(graph)' /\ GraphOK(log)'
      /\ born' \in 0 .. MaxEdges /\ born <= born' /\ LogInGraph'
      /\ \A i \in DOMAIN graph' : i \in DOMAIN graph \/ graph'[i].edge \notin 1 .. born
  BY <1>1, <1>2, BatchHas
<1>4. /\ cols' \in Seq(Columns) /\ Len(cols') = Len(graph')
      /\ \A i \in DOMAIN cols : i \in DOMAIN cols' /\ cols'[i] = cols[i]
      /\ \A i \in DOMAIN cols' : i \in DOMAIN cols \/ cols'[i] = Fresh
  <2>1. Len(cols) <= Len(graph')
    <3>1. Len(graph') \in Nat
      BY <1>3, LenProperties DEF Numbers
    <3> QED
      BY <1>1, <1>3, <3>1, GraphFacts DEF Numbers, GraphTyped
  <2> QED
    BY <1>1, <1>2, <1>3, <2>1, SyncedHas DEF Numbers, GraphTyped
<1>5. RetrievalsStay
  BY <1>2 DEF RetrievalsStay
<1>6. KeptInMemory' /\ LandsInMemory'
  <2>1. /\ \A i \in DOMAIN cols : i \in DOMAIN cols' /\ cols'[i].lessons = cols[i].lessons
        /\ \A i \in DOMAIN cols' : i \in DOMAIN cols \/ cols'[i].lessons = {}
    BY <1>4, FreshColumn
  <2> QED
    BY <1>1, <1>2, <1>3, <1>5, <2>1, NumbersStay
<1>7. GraphTyped'
  <2>1. ASSUME NEW i \in DOMAIN cols' PROVE ColumnOK(cols[i])'
    <3>1. CASE i \in DOMAIN cols
      BY <1>1, <1>2, <1>4, <3>1 DEF GraphTyped, ColumnOK
    <3>2. CASE i \notin DOMAIN cols
      BY <1>4, <3>2, FreshColumn DEF ColumnOK
    <3> QED
      BY <3>1, <3>2
  <2>2. credited' \subseteq Nat \X (1 .. born')
    BY <1>1, <1>2, <1>3, GraphFacts DEF GraphTyped
  <2>3. Len(cols') <= Len(graph')
    BY <1>4, LenProperties
  <2> QED
    BY <1>1, <1>2, <1>3, <1>4, <2>1, <2>2, <2>3 DEF GraphTyped, Numbers
<1>8. Memory'
  BY <1>1, <1>2, <1>3, <1>4, <1>6, <1>7 DEF Memory, Covered
<1>9. Sidecar'
  <2>1. born \in Nat /\ born' \in Nat
    BY <1>1, <1>3, GraphFacts, LimitsAssumption
  <2>2. \A i \in DOMAIN graph' : \/ graph'[i].edge \notin 1 .. born
                                 \/ \E j \in DOMAIN graph : graph[j].edge = graph'[i].edge
    BY <1>3 DEF Numbers
  <2> QED
    BY <1>1, <1>2, <1>3, <1>5, <2>1, <2>2, SidecarStays
<1>10. Store' /\ Named'
  BY <1>1, <1>2, <1>3, StoreStays, NamedStays
<1> QED
  BY <1>8, <1>9, <1>10 DEF IInv

LEMMA IngestFailsStep ==
  ASSUME IInv, NEW c \in Changes, IngestFails(c)
  PROVE IInv'
<1>1. Memory /\ Sidecar /\ Store /\ Named /\ GraphTyped /\ Covered
  BY DEF IInv, Memory
<1>2. /\ Counted(c) /\ graph' = Changed(graph, c) /\ (log' = Changed(log, c) \/ log' = log)
      /\ step = "idle" /\ wedged' = TRUE
      /\ UNCHANGED <<cols, sidecar, store, poisoned, step, retrieved, credited, exposed>>
  BY DEF IngestFails, Writing, Serving
<1>3. /\ Numbers(graph', graph) /\ log' \in Seq(Edges) /\ GraphOK(graph)' /\ GraphOK(log)'
      /\ born' \in 0 .. MaxEdges /\ born <= born' /\ LogInGraph'
      /\ \A i \in DOMAIN graph' : i \in DOMAIN graph \/ graph'[i].edge \notin 1 .. born
  BY <1>1, <1>2, BatchHas
<1>4. RetrievalsStay
  BY <1>2 DEF RetrievalsStay
<1>5. KeptInMemory' /\ LandsInMemory'
  BY <1>1, <1>2, <1>3, <1>4, NumbersStay
<1>6. GraphTyped'
  <2>1. ASSUME NEW i \in DOMAIN cols' PROVE ColumnOK(cols[i])'
    BY <1>1, <1>2 DEF GraphTyped, ColumnOK
  <2>2. credited' \subseteq Nat \X (1 .. born')
    BY <1>1, <1>2, <1>3, GraphFacts DEF GraphTyped
  <2>3. Len(cols') <= Len(graph')
    <3>1. Len(graph') \in Nat
      BY <1>3, LenProperties DEF Numbers
    <3> QED
      BY <1>1, <1>2, <1>3, <3>1, GraphFacts DEF Numbers, GraphTyped
  <2> QED
    BY <1>1, <1>2, <1>3, <2>1, <2>2, <2>3 DEF GraphTyped, Numbers
<1>7. Memory'
  BY <1>2, <1>3, <1>5, <1>6 DEF Memory, Covered
<1>8. Sidecar'
  <2>1. born \in Nat /\ born' \in Nat
    BY <1>1, <1>3, GraphFacts, LimitsAssumption
  <2>2. \A i \in DOMAIN graph' : \/ graph'[i].edge \notin 1 .. born
                                 \/ \E j \in DOMAIN graph : graph[j].edge = graph'[i].edge
    BY <1>3 DEF Numbers
  <2> QED
    BY <1>1, <1>2, <1>3, <1>4, <2>1, <2>2, SidecarStays
<1>9. Store' /\ Named'
  BY <1>1, <1>2, <1>3, StoreStays, NamedStays
<1> QED
  BY <1>7, <1>8, <1>9 DEF IInv

LEMMA SameNumbers ==
  ASSUME GraphTyped
  PROVE Numbers(graph, graph)
BY GraphFacts DEF Numbers, GraphTyped

\* The graph and what it has learned stay; the log may be rewritten.
LEMMA MemoryStays ==
  ASSUME Memory, UNCHANGED <<graph, cols, born, credited>>, RetrievalsStay, exposed => exposed',
         log' = log \/ log' = Rewritten(graph, {}),
         wedged' \in BOOLEAN, poisoned' \in BOOLEAN, exposed' \in BOOLEAN,
         step' \in {"idle", "save", "clear"}, step' # "idle" => ~wedged',
         wedged' \/ Len(cols) = Len(graph)
  PROVE Memory'
<1>1. GraphTyped /\ LogInGraph /\ graph \in Seq(Edges)
  BY DEF Memory, GraphTyped
<1>2. KeptInMemory' /\ LandsInMemory'
  <2>1. Numbers(graph', graph)
    BY <1>1, SameNumbers
  <2> QED
    BY <1>1, <2>1, NumbersStay
<1>3. log' \in Seq(Edges) /\ GraphOK(log)' /\ LogInGraph'
  <2>1. CASE log' = log
    BY <1>1, <2>1 DEF GraphTyped, GraphOK, LogInGraph
  <2>2. CASE log' = Rewritten(graph, {})
    <3> DEFINE h == Rewritten(graph, {})
    <3>4. Distinct(graph)
      BY <1>1 DEF GraphTyped, GraphOK, Distinct
    <3>5. /\ h \in Seq(Edges) /\ Distinct(h)
          /\ \A i \in DOMAIN h : \E j \in DOMAIN graph : h[i] = graph[j]
      BY <1>1, <3>4, RewrittenHas
    <3>6. log' = h
      BY <2>2
    <3> HIDE DEF h
    <3>1. /\ log' \in Seq(Edges) /\ Distinct(log')
          /\ \A i \in DOMAIN log' : \E j \in DOMAIN graph : log'[i] = graph[j]
      BY <3>5, <3>6
    <3>2. \A i \in DOMAIN graph : graph[i].edge \in 1 .. born /\ graph[i].open \in BOOLEAN
      BY <1>1 DEF GraphTyped, GraphOK
    <3>3. GraphOK(log)'
      BY <3>1, <3>2 DEF GraphOK, Distinct
    <3> QED
      BY <3>1, <3>3 DEF LogInGraph
  <2> QED
    BY <2>1, <2>2
<1>4. ASSUME NEW i \in DOMAIN cols' PROVE ColumnOK(cols[i])'
  BY <1>1 DEF GraphTyped, ColumnOK, RetrievalsStay
<1>5. GraphTyped'
  BY <1>1, <1>3, <1>4 DEF GraphTyped, GraphOK
<1>6. Covered'
  BY DEF Covered
<1> QED
  BY <1>2, <1>3, <1>5, <1>6 DEF Memory

LEMMA SameGraphSidecar ==
  ASSUME Memory, Sidecar, UNCHANGED <<graph, sidecar, born, credited>>, RetrievalsStay,
         exposed => exposed'
  PROVE Sidecar'
<1>1. GraphTyped /\ born \in Nat /\ born <= born'
  BY GraphFacts DEF Memory
<1> QED
  BY <1>1, SidecarStays

LEMMA PanicStep ==
  ASSUME IInv, RetrievePanics
  PROVE IInv'
<1>1. Memory /\ Sidecar /\ Store /\ Named /\ GraphTyped /\ Covered
  BY DEF IInv, Memory
<1>2. /\ UNCHANGED <<graph, log, cols, sidecar, store, wedged, step, born, retrieved, credited, exposed>>
      /\ poisoned' = TRUE /\ step = "idle"
  BY DEF RetrievePanics, history, Serving
<1>3. RetrievalsStay /\ Numbers(graph', graph)
  BY <1>1, <1>2, SameNumbers DEF RetrievalsStay
<1>4. wedged' \in BOOLEAN /\ exposed' \in BOOLEAN /\ (wedged' \/ Len(cols) = Len(graph))
  BY <1>1, <1>2 DEF GraphTyped, Covered
<1>5. Memory'
  BY <1>1, <1>2, <1>3, <1>4, MemoryStays
<1>6. Sidecar'
  BY <1>1, <1>2, <1>3, SameGraphSidecar
<1>7. Store' /\ Named'
  BY <1>1, <1>2, <1>3, StoreStays, NamedStays
<1> QED
  BY <1>5, <1>6, <1>7 DEF IInv

LEMMA RewriteFailsStep ==
  ASSUME IInv, RewriteFails
  PROVE IInv'
<1>1. Memory /\ Sidecar /\ Store /\ Named /\ GraphTyped
  BY DEF IInv, Memory
<1>2. /\ UNCHANGED <<graph, log, cols, sidecar, store, poisoned, step, born, retrieved, credited, exposed>>
      /\ wedged' = TRUE /\ step = "idle"
  BY DEF RewriteFails, history, Writing, Serving
<1>3. RetrievalsStay /\ Numbers(graph', graph)
  BY <1>1, <1>2, SameNumbers DEF RetrievalsStay
<1>4. poisoned' \in BOOLEAN /\ exposed' \in BOOLEAN
  BY <1>1, <1>2 DEF GraphTyped
<1>5. Memory'
  BY <1>1, <1>2, <1>3, <1>4, MemoryStays
<1>6. Sidecar'
  BY <1>1, <1>2, <1>3, SameGraphSidecar
<1>7. Store' /\ Named'
  BY <1>1, <1>2, <1>3, StoreStays, NamedStays
<1> QED
  BY <1>5, <1>6, <1>7 DEF IInv

LEMMA CheckpointStep ==
  ASSUME IInv, Checkpoint
  PROVE IInv'
<1>1. Memory /\ Sidecar /\ Store /\ Named /\ GraphTyped /\ Covered
  BY DEF IInv, Memory
<1>2. /\ UNCHANGED <<graph, cols, sidecar, store, wedged, poisoned, born, retrieved, credited, exposed>>
      /\ log' = Rewritten(graph, {}) /\ step' = "save" /\ ~wedged
  BY DEF Checkpoint, history, Writing
<1>3. RetrievalsStay
  BY <1>2 DEF RetrievalsStay
<1>4. /\ wedged' \in BOOLEAN /\ poisoned' \in BOOLEAN /\ exposed' \in BOOLEAN
      /\ Len(cols) = Len(graph)
  BY <1>1, <1>2 DEF GraphTyped, Covered
<1>5. Memory'
  BY <1>1, <1>2, <1>3, <1>4, MemoryStays
<1>6. Sidecar'
  BY <1>1, <1>2, <1>3, SameGraphSidecar
<1>7. Store' /\ Named'
  BY <1>1, <1>2, StoreStays, NamedStays
<1> QED
  BY <1>5, <1>6, <1>7 DEF IInv

LEMMA FlushAllStep ==
  ASSUME IInv, FlushAll
  PROVE IInv'
<1>1. Memory /\ Sidecar /\ Store /\ Named /\ GraphTyped /\ Covered
  BY DEF IInv, Memory
<1>2. /\ UNCHANGED <<graph, log, cols, store, wedged, poisoned, step, born, retrieved, credited, exposed>>
      /\ SaveSidecar /\ step = "idle"
  BY DEF FlushAll, history, Serving
<1>3. RetrievalsStay /\ Numbers(graph', graph)
  BY <1>1, <1>2, SameNumbers DEF RetrievalsStay
<1>4. /\ wedged' \in BOOLEAN /\ poisoned' \in BOOLEAN /\ exposed' \in BOOLEAN
      /\ (wedged' \/ Len(cols) = Len(graph))
  BY <1>1, <1>2 DEF GraphTyped, Covered
<1>5. Memory'
  BY <1>1, <1>2, <1>3, <1>4, MemoryStays
<1>6. Sidecar'
  BY <1>2, <1>5, Saves DEF Memory
<1>7. Store' /\ Named'
  BY <1>1, <1>2, <1>3, StoreStays, NamedStays
<1> QED
  BY <1>5, <1>6, <1>7 DEF IInv

LEMMA SaveAfterRewriteStep ==
  ASSUME IInv, SaveAfterRewrite
  PROVE IInv'
<1>1. Memory /\ Sidecar /\ Store /\ Named /\ GraphTyped /\ Covered
  BY DEF IInv, Memory
<1>2. /\ UNCHANGED <<graph, log, cols, store, poisoned, born, retrieved, credited>>
      /\ step = "save"
  BY DEF SaveAfterRewrite, history
<1>3. RetrievalsStay
  BY <1>2 DEF RetrievalsStay
<1>4. ~wedged /\ Len(cols) = Len(graph) /\ exposed \in BOOLEAN /\ poisoned' \in BOOLEAN
  BY <1>1, <1>2 DEF Covered, GraphTyped
<1>5. CASE SaveSidecar /\ step' = "clear" /\ UNCHANGED <<wedged, exposed>>
  <2>1. wedged' = FALSE
    BY <1>1, <1>4, <1>5 DEF GraphTyped
  <2>2. Memory'
    BY <1>1, <1>2, <1>3, <1>4, <1>5, <2>1, MemoryStays
  <2>3. Sidecar'
    BY <1>5, <2>2, Saves DEF Memory
  <2>4. Store' /\ Named'
    BY <1>1, <1>2, <1>5, StoreStays, NamedStays
  <2> QED
    BY <2>2, <2>3, <2>4 DEF IInv
<1>6. CASE /\ SaveFails /\ step' = "idle" /\ wedged' \in BOOLEAN
           /\ exposed' = (exposed \/ DOMAIN traces # {} \/ GoodLines(file) # {})
  <2>1. sidecar' = sidecar
    BY <1>6 DEF SaveFails
  <2>2. exposed' \in BOOLEAN /\ (exposed => exposed')
    BY <1>4, <1>6
  <2>3. Memory'
    BY <1>1, <1>2, <1>3, <1>4, <1>6, <2>2, MemoryStays
  <2>4. Sidecar'
    BY <1>1, <1>2, <1>3, <2>1, <2>2, SameGraphSidecar
  <2>5. Store' /\ Named'
    BY <1>1, <1>2, <1>6, StoreStays, NamedStays
  <2> QED
    BY <2>3, <2>4, <2>5 DEF IInv
<1> QED
  BY <1>5, <1>6 DEF SaveAfterRewrite

LEMMA ClearTracesStep ==
  ASSUME IInv, ClearTraces
  PROVE IInv'
<1>1. Memory /\ Sidecar /\ Store /\ Named /\ GraphTyped /\ Covered
  BY DEF IInv, Memory
<1>2. /\ UNCHANGED <<graph, log, cols, sidecar, next, poisoned, born, retrieved, credited>>
      /\ step = "clear" /\ step' = "idle" /\ traces' = <<>> /\ lines' = 0
  BY DEF ClearTraces, history
<1>3. RetrievalsStay
  BY <1>2 DEF RetrievalsStay
<1>4. ~wedged /\ Len(cols) = Len(graph) /\ exposed \in BOOLEAN /\ poisoned' \in BOOLEAN /\ wedged \in BOOLEAN
  BY <1>1, <1>2 DEF Covered, GraphTyped
<1>5. /\ wedged' \in BOOLEAN /\ exposed' \in BOOLEAN /\ (exposed => exposed')
      /\ file' = <<>> \/ (file' = file /\ (exposed' \/ GoodLines(file) = {}))
  BY <1>4 DEF ClearTraces
<1>6. Memory'
  BY <1>1, <1>2, <1>3, <1>4, <1>5, MemoryStays
<1>7. Sidecar'
  BY <1>1, <1>2, <1>3, <1>5, SameGraphSidecar
<1>8. StoreTyped /\ Numbered /\ LooseEnd
  BY <1>1 DEF Store
<1>9. DOMAIN traces' = {} /\ traces' \in [{} -> Traces]
  BY <1>2
<1>10. IsFiniteSet({}) /\ Cardinality({}) = 0
  BY FS_EmptySet
<1>11. file' \in Seq(Lines) /\ DOMAIN file' \subseteq DOMAIN file /\ \A i \in DOMAIN file' : file'[i] = file[i]
  <2>1. CASE file' = <<>>
    <3>1. file' \in Seq(Lines) /\ DOMAIN file' = {}
      BY <2>1
    <3> QED
      BY <3>1
  <2>2. CASE file' = file
    BY <1>8, <2>2 DEF StoreTyped
  <2> QED
    BY <1>5, <2>1, <2>2
<1>12. StoreTyped'
  BY <1>2, <1>8, <1>9, <1>10, <1>11, LimitsAssumption DEF StoreTyped
<1>13. Numbered' /\ LooseEnd'
  BY <1>2, <1>8, <1>9, <1>11 DEF Numbered, LooseEnd, GoodLines
<1>14. TracesOnDisk'
  <2> DEFINE G == {i \in DOMAIN file' : file'[i].id = 0 /\ file'[i].nl}
             A == {id \in DOMAIN traces' : retrieved'[traces'[id].r].id = id}
             OnDisk(id) == \E i \in DOMAIN file' : file'[i].id = id /\ file'[i].trace = traces'[id]
  <2>1. {id \in A : ~OnDisk(id)} = {}
    BY <1>9
  <2>2. IsFiniteSet(G)
    <3>1. DOMAIN file' = 1 .. Len(file') /\ Len(file') \in Nat
      BY <1>11, LenProperties
    <3>2. IsFiniteSet(DOMAIN file')
      BY <3>1, FS_Interval
    <3> QED
      BY <3>2, FS_Subset
  <2>3. Cardinality(G) \in Nat
    BY <2>2, FS_CardinalityType
  <2>4. Cardinality({id \in A : ~OnDisk(id)}) <= Cardinality(G)
    <3>1. Cardinality({id \in A : ~OnDisk(id)}) = 0
      BY <1>10, <2>1
    <3> HIDE DEF G
    <3>2. 0 <= Cardinality(G)
      BY <2>3
    <3> QED
      BY <3>1, <3>2
  <2> QED
    BY <2>4 DEF TracesOnDisk
<1>15. Named'
  <2>1. SUFFICES ASSUME ~exposed' PROVE Named'
    BY DEF Named
  <2>2. GoodLines(file)' = {}
    BY <1>5, <2>1 DEF GoodLines
  <2>3. \A r \in DOMAIN retrieved : retrieved[r].id < next
    BY <1>1, <1>5, <2>1 DEF Named
  <2> QED
    BY <1>2, <1>9, <2>2, <2>3 DEF Named
<1> QED
  BY <1>6, <1>7, <1>12, <1>13, <1>14, <1>15 DEF IInv, Store

\* Edges end; their end is in the log, or not.
LEMMA EndedStays ==
  ASSUME GraphTyped, LogInGraph, NEW es, graph' = Ended(graph, es),
         log' = log \/ log' = Ended(log, es), born' = born
  PROVE /\ Numbers(graph', graph) /\ Len(graph') = Len(graph) /\ DOMAIN graph' = DOMAIN graph
        /\ log' \in Seq(Edges) /\ GraphOK(graph)' /\ GraphOK(log)' /\ LogInGraph'
<1>1. graph \in Seq(Edges) /\ log \in Seq(Edges) /\ GraphOK(graph) /\ GraphOK(log)
  BY DEF GraphTyped
<1>2. \A k \in Seq(Edges) : \A i \in DOMAIN k : k[i] \in Edges
  BY SeqHas DEF SeqFacts
<1> DEFINE h == Ended(graph, es)
           k == Ended(log, es)
<1>3. Distinct(graph) /\ Distinct(log)
  BY <1>1 DEF GraphOK, Distinct
<1>4. Numbers(h, graph) /\ Len(h) = Len(graph) /\ DOMAIN h = DOMAIN graph /\ Distinct(h)
  BY <1>1, <1>3, EndedHas
<1>5. Numbers(k, log) /\ DOMAIN k = DOMAIN log /\ Distinct(k)
  BY <1>1, <1>3, EndedHas
<1>6. graph' = h /\ (log' = log \/ log' = k)
  OBVIOUS
<1> HIDE DEF h, k
<1>7. ASSUME NEW f \in Seq(Edges), NEW g \in Seq(Edges), Numbers(g, f), DOMAIN g = DOMAIN f,
             Distinct(g), GraphOK(f)
      PROVE /\ \A i \in DOMAIN g : g[i].edge \in 1 .. born' /\ g[i].open \in BOOLEAN
            /\ \A i, j \in DOMAIN g : i # j => g[i].edge # g[j].edge
  <2>1. ASSUME NEW i \in DOMAIN g PROVE g[i].edge \in 1 .. born' /\ g[i].open \in BOOLEAN
    <3>1. g[i] \in Edges
      BY <1>2
    <3>2. f[i].edge \in 1 .. born /\ g[i].edge = f[i].edge
      BY <1>7 DEF Numbers, GraphOK
    <3> QED
      BY <3>1, <3>2 DEF Edges
  <2> QED
    BY <1>7, <2>1 DEF Distinct
<1>8. GraphOK(graph)'
  <2>1. h \in Seq(Edges)
    BY <1>4 DEF Numbers
  <2>2. /\ \A i \in DOMAIN h : h[i].edge \in 1 .. born' /\ h[i].open \in BOOLEAN
        /\ \A i, j \in DOMAIN h : i # j => h[i].edge # h[j].edge
    BY <1>1, <1>4, <1>7, <2>1
  <2> QED
    BY <1>6, <2>2 DEF GraphOK
<1>9. Numbers(log', log) /\ DOMAIN log' = DOMAIN log /\ GraphOK(log)'
  <2>1. CASE log' = log
    <3>1. Numbers(log, log)
      <4>1. Len(log) \in Nat
        BY <1>1, LenProperties
      <4> QED
        BY <1>1, <4>1 DEF Numbers
    <3> QED
      BY <1>1, <2>1, <3>1 DEF GraphOK
  <2>2. CASE log' = k
    <3>1. k \in Seq(Edges)
      BY <1>5 DEF Numbers
    <3>2. /\ \A i \in DOMAIN k : k[i].edge \in 1 .. born' /\ k[i].open \in BOOLEAN
          /\ \A i, j \in DOMAIN k : i # j => k[i].edge # k[j].edge
      BY <1>1, <1>5, <1>7, <3>1
    <3> QED
      BY <1>5, <2>2, <3>2 DEF GraphOK
  <2> QED
    BY <1>6, <2>1, <2>2
<1>10. LogInGraph'
  BY <1>4, <1>6, <1>9 DEF LogInGraph, Numbers
<1> QED
  BY <1>4, <1>6, <1>8, <1>9, <1>10 DEF Numbers

Pruned(c, pruned) == [i \in DOMAIN c |-> [c[i] EXCEPT !.dead = @ \/ i \in pruned]]

LEMMA PrunedHas ==
  ASSUME NEW c \in Seq(Columns), NEW pruned, NEW d, d = Pruned(c, pruned)
  PROVE /\ d \in Seq(Columns) /\ Len(d) = Len(c) /\ DOMAIN d = DOMAIN c
        /\ \A i \in DOMAIN c : d[i].lessons = c[i].lessons
<1>1. Len(c) \in Nat /\ DOMAIN c = 1 .. Len(c) /\ \A i \in DOMAIN c : c[i] \in Columns
  BY SeqHas DEF SeqFacts
<1>2. ASSUME NEW i \in DOMAIN c PROVE d[i] \in Columns /\ d[i].lessons = c[i].lessons
  <2>1. PICK b \in BOOLEAN : b = (c[i].dead \/ i \in pruned)
    OBVIOUS
  <2>2. d[i] = [c[i] EXCEPT !.dead = b]
    BY <2>1 DEF Pruned
  <2>3. c[i] \in Columns
    BY <1>1
  <2> QED
    BY <2>2, <2>3 DEF Columns
<1>3. d = [i \in 1 .. Len(c) |-> d[i]]
  BY <1>1 DEF Pruned
<1>4. d \in [1 .. Len(c) -> Columns]
  BY <1>1, <1>2, <1>3
<1>5. d \in Seq(Columns) /\ Len(d) = Len(c)
  BY <1>1, <1>4, SeqMade
<1>6. DOMAIN d = DOMAIN c
  BY <1>1, <1>3
<1> QED
  BY <1>2, <1>5, <1>6

LEMMA LearnedHas ==
  ASSUME NEW c \in Seq(Columns), NEW i \in DOMAIN c, NEW r \in Nat
  PROVE LET d == [c EXCEPT ![i].lessons = @ \cup {r}]
        IN /\ d \in Seq(Columns) /\ Len(d) = Len(c) /\ DOMAIN d = DOMAIN c
           /\ \A j \in DOMAIN c : j # i => d[j] = c[j]
           /\ d[i].dead = c[i].dead /\ d[i].lessons = c[i].lessons \cup {r}
<1> DEFINE x == [c[i] EXCEPT !.lessons = @ \cup {r}]
           d == [c EXCEPT ![i] = x]
<1>1. Len(c) \in Nat /\ DOMAIN c = 1 .. Len(c) /\ \A j \in DOMAIN c : c[j] \in Columns
  BY SeqHas DEF SeqFacts
<1>2. x \in Columns /\ x.dead = c[i].dead /\ x.lessons = c[i].lessons \cup {r}
  BY <1>1 DEF Columns
<1>3. [c EXCEPT ![i].lessons = @ \cup {r}] = d
  OBVIOUS
<1> HIDE DEF x
<1>4. /\ DOMAIN d = DOMAIN c /\ d[i] = x /\ \A j \in DOMAIN c : j # i => d[j] = c[j]
      /\ d = [j \in DOMAIN c |-> d[j]]
  OBVIOUS
<1> HIDE DEF d
<1>5. d \in [1 .. Len(c) -> Columns]
  BY <1>1, <1>2, <1>4
<1>6. d \in Seq(Columns) /\ Len(d) = Len(c)
  BY <1>1, <1>5, SeqMade
<1> QED
  BY <1>2, <1>3, <1>4, <1>6

LEMMA ConsolidateStep ==
  ASSUME IInv, NEW pruned, NEW superseded, Consolidate(pruned, superseded)
  PROVE IInv'
<1>1. Memory /\ Sidecar /\ Store /\ Named /\ GraphTyped /\ Covered /\ LogInGraph
  BY DEF IInv, Memory
<1>2. /\ cols' = Pruned(cols, pruned)
      /\ graph' = Ended(graph, superseded)
      /\ step = "idle" /\ ~wedged
      /\ UNCHANGED <<store, poisoned, step, born, retrieved, credited, exposed>>
      /\ \/ log' = Ended(log, superseded) /\ (SaveSidecar \/ SaveFails) /\ wedged' = wedged
         \/ log' \in {log, Ended(log, superseded)} /\ wedged' = TRUE /\ sidecar' = sidecar
  BY DEF Consolidate, Writing, Serving, history, Pruned
<1>3. /\ Numbers(graph', graph) /\ Len(graph') = Len(graph) /\ DOMAIN graph' = DOMAIN graph
      /\ log' \in Seq(Edges) /\ GraphOK(graph)' /\ GraphOK(log)' /\ LogInGraph'
  <2>1. (log' = log \/ log' = Ended(log, superseded)) /\ born' = born
    BY <1>2
  <2> QED
    BY <1>1, <1>2, <2>1, EndedStays
<1>4. /\ cols' \in Seq(Columns) /\ Len(cols') = Len(cols) /\ DOMAIN cols' = DOMAIN cols
      /\ \A i \in DOMAIN cols : cols'[i].lessons = cols[i].lessons
  <2>1. cols \in Seq(Columns)
    BY <1>1 DEF GraphTyped
  <2> QED
    BY <1>2, <2>1, PrunedHas
<1>5. RetrievalsStay
  BY <1>2 DEF RetrievalsStay
<1>6. KeptInMemory' /\ LandsInMemory'
  BY <1>1, <1>2, <1>3, <1>4, <1>5, NumbersStay
<1>7. GraphTyped'
  <2>1. ASSUME NEW i \in DOMAIN cols' PROVE ColumnOK(cols[i])'
    <3>1. cols'[i] \in Columns
      BY <1>4, SeqHas DEF SeqFacts
    <3>2. cols'[i].lessons \subseteq DOMAIN retrieved'
      BY <1>1, <1>2, <1>4 DEF GraphTyped, ColumnOK
    <3> QED
      BY <3>1, <3>2 DEF ColumnOK, Columns
  <2>2. Len(cols') <= Len(graph') /\ wedged' \in BOOLEAN
    BY <1>1, <1>2, <1>3, <1>4 DEF GraphTyped
  <2> QED
    BY <1>1, <1>2, <1>3, <1>4, <2>1, <2>2 DEF GraphTyped, Numbers
<1>8. Covered'
  BY <1>1, <1>2, <1>3, <1>4 DEF Covered
<1>9. Memory'
  BY <1>3, <1>6, <1>7, <1>8 DEF Memory
<1>10. Sidecar'
  <2>1. CASE SaveSidecar
    BY <1>6, <1>7, <2>1, Saves
  <2>2. CASE sidecar' = sidecar
    <3>1. born \in Nat /\ born' \in Nat /\ born <= born'
      BY <1>1, <1>2, GraphFacts
    <3>2. \A i \in DOMAIN graph' : \/ graph'[i].edge \notin 1 .. born
                                   \/ \E j \in DOMAIN graph : graph[j].edge = graph'[i].edge
      BY <1>3 DEF Numbers
    <3> QED
      BY <1>1, <1>2, <1>5, <2>2, <3>1, <3>2, SidecarStays
  <2> QED
    BY <1>2, <2>1, <2>2 DEF SaveFails
<1>11. Store' /\ Named'
  BY <1>1, <1>2, <1>3, StoreStays, NamedStays
<1> QED
  BY <1>9, <1>10, <1>11 DEF IInv

LEMMA FeedbackStep ==
  ASSUME IInv, NEW r \in DOMAIN retrieved, Feedback(r)
  PROVE IInv'
<1> DEFINE id == retrieved[r].id
           i == traces[id].pos
           learns == i \in DOMAIN cols /\ ~cols[i].dead
<1>1. Memory /\ Sidecar /\ Store /\ Named /\ GraphTyped /\ Covered /\ LogInGraph /\ StoreTyped
  BY DEF IInv, Memory, Store
<1>2. /\ id \in DOMAIN traces /\ step = "idle"
      /\ cols' = IF learns THEN [cols EXCEPT ![i].lessons = @ \cup {r}] ELSE cols
      /\ UNCHANGED <<graph, log, store, wedged, poisoned, step, born, retrieved, exposed>>
      /\ \/ SaveSidecar /\ credited' = credited \cup IF learns THEN {<<r, graph[i].edge>>} ELSE {}
         \/ SaveFails /\ credited' = credited
  BY Zenon DEF Feedback, Writing, Serving
<1>3. r \in Nat
  BY <1>1, StoreFacts DEF SeqFacts
<1>4. /\ cols' \in Seq(Columns) /\ Len(cols') = Len(cols) /\ DOMAIN cols' = DOMAIN cols
      /\ \A j \in DOMAIN cols : /\ cols'[j].dead = cols[j].dead
                                /\ cols[j].lessons \subseteq cols'[j].lessons
                                /\ \A x \in cols'[j].lessons :
                                     x \in cols[j].lessons \/ (x = r /\ j = i /\ learns)
      /\ learns => r \in cols'[i].lessons
  <2>1. CASE learns
    <3> DEFINE d == [cols EXCEPT ![i].lessons = @ \cup {r}]
    <3>1. i \in DOMAIN cols /\ cols \in Seq(Columns)
      BY <1>1, <2>1 DEF GraphTyped
    <3> HIDE DEF i
    <3>2. /\ d \in Seq(Columns) /\ Len(d) = Len(cols) /\ DOMAIN d = DOMAIN cols
          /\ \A j \in DOMAIN cols : j # i => d[j] = cols[j]
          /\ d[i].dead = cols[i].dead /\ d[i].lessons = cols[i].lessons \cup {r}
      BY <1>3, <3>1, LearnedHas
    <3>3. cols' = d
      BY <1>2, <2>1
    <3> HIDE DEF d
    <3> QED
      BY <2>1, <3>2, <3>3
  <2>2. CASE ~learns
    <3>1. cols' = cols
      BY <1>2, <2>2
    <3> QED
      BY <1>1, <2>2, <3>1 DEF GraphTyped
  <2> QED
    BY <2>1, <2>2
<1>5. RetrievalsStay
  BY <1>2 DEF RetrievalsStay
<1>6. learns => i \in DOMAIN graph /\ graph[i].edge \in 1 .. born
  BY <1>1, GraphFacts
<1>7. ~exposed => graph[i].edge = retrieved[r].edge
  <2>1. SUFFICES ASSUME ~exposed PROVE graph[i].edge = retrieved[r].edge
    OBVIOUS
  <2>2. Names(id, traces[id])
    BY <1>1, <1>2, <2>1 DEF Named
  <2>3. traces[id].r = r
    BY <2>2 DEF Names
  <2> QED
    BY <1>2, <2>2, <2>3 DEF Names
<1>8. \A c \in credited' : c \in credited \/ (learns /\ c = <<r, graph[i].edge>>)
  BY <1>2
<1> HIDE DEF i, id, learns
<1>9. KeptInMemory'
  <2>1. SUFFICES ASSUME NEW c \in credited', NEW j \in DOMAIN graph, graph[j].edge = c[2]
                 PROVE j \in DOMAIN cols' /\ c[1] \in cols'[j].lessons
    BY <1>2 DEF KeptInMemory
  <2>2. CASE c \in credited
    BY <1>1, <1>4, <2>1, <2>2 DEF Memory, KeptInMemory
  <2>3. CASE learns /\ c = <<r, graph[i].edge>>
    <3>1. i \in DOMAIN cols /\ i \in DOMAIN graph
      BY <1>6, <2>3 DEF learns
    <3>2. graph[j].edge = graph[i].edge
      BY <2>1, <2>3
    <3>3. j = i
      BY <1>1, <2>1, <3>1, <3>2 DEF GraphTyped, GraphOK
    <3> QED
      BY <1>4, <2>3, <3>1, <3>3
  <2> QED
    BY <1>8, <2>1, <2>2, <2>3
<1>10. LandsInMemory'
  BY <1>1, <1>2, <1>4, <1>7 DEF Memory, LandsInMemory
<1>11. GraphTyped'
  <2>1. ASSUME NEW j \in DOMAIN cols' PROVE ColumnOK(cols[j])'
    BY <1>1, <1>2, <1>4 DEF GraphTyped, ColumnOK
  <2>2. credited' \subseteq Nat \X (1 .. born)
    BY <1>1, <1>3, <1>6, <1>8 DEF GraphTyped
  <2>3. GraphOK(graph)' /\ GraphOK(log)'
    BY <1>1, <1>2 DEF GraphTyped, GraphOK
  <2> QED
    BY <1>1, <1>2, <1>4, <2>1, <2>2, <2>3 DEF GraphTyped
<1>12. Covered' /\ LogInGraph'
  BY <1>1, <1>2, <1>4 DEF Covered, LogInGraph
<1>13. Memory'
  BY <1>9, <1>10, <1>11, <1>12 DEF Memory
<1>14. Sidecar'
  <2>1. CASE SaveSidecar
    BY <1>9, <1>10, <1>11, <2>1, Saves
  <2>2. CASE SaveFails /\ credited' = credited
    BY <1>1, <1>2, <1>5, <2>2, SameGraphSidecar DEF SaveFails
  <2> QED
    BY <1>2, <2>1, <2>2
<1>15. Store' /\ Named'
  <2>1. Numbers(graph', graph)
    BY <1>1, <1>2, SameNumbers
  <2> QED
    BY <1>1, <1>2, <2>1, StoreStays, NamedStays
<1> QED
  BY <1>13, <1>14, <1>15 DEF IInv

LEMMA PurgeStep ==
  ASSUME IInv, NEW dropped, Purge(dropped)
  PROVE IInv'
<1> DEFINE s == Saved(graph, cols)
           h == Rewritten(graph, dropped)
<1>1. Memory /\ Sidecar /\ Store /\ Named /\ GraphTyped /\ Covered /\ LogInGraph
  BY DEF IInv, Memory
<1>2. /\ UNCHANGED <<sidecar, store, wedged, poisoned, born, retrieved, credited, exposed>>
      /\ log' = h /\ graph' = h /\ cols' = Loaded(h, s) /\ step' = "save" /\ ~wedged
  BY DEF Purge, Writing, history
<1>3. /\ graph \in Seq(Edges) /\ cols \in Seq(Columns) /\ Len(cols) = Len(graph)
      /\ DOMAIN cols = DOMAIN graph /\ Distinct(graph) /\ Len(graph) \in Nat
  BY <1>1, <1>2, GraphFacts DEF GraphTyped, Covered
<1>4. /\ s \in [DOMAIN s -> Columns]
      /\ \A i \in DOMAIN cols : graph[i].edge \in DOMAIN s /\ s[graph[i].edge] = cols[i]
  BY <1>3, SavedHas
<1>5. /\ h \in Seq(Edges) /\ Distinct(h)
      /\ \A i \in DOMAIN h : \E j \in DOMAIN graph : h[i] = graph[j]
  BY <1>3, RewrittenHas, SMTT(30)
<1> HIDE DEF s, h
<1>6. /\ Loaded(h, s) \in Seq(Columns) /\ Len(Loaded(h, s)) = Len(h)
      /\ DOMAIN Loaded(h, s) = DOMAIN h
      /\ \A i \in DOMAIN h : Loaded(h, s)[i] = IF h[i].edge \in DOMAIN s THEN s[h[i].edge] ELSE Fresh
  BY <1>4, <1>5, LoadedHas
<1>7. DOMAIN graph' = DOMAIN cols' /\ Len(cols') = Len(graph') /\ cols' \in Seq(Columns)
  BY <1>2, <1>6
<1>8. ASSUME NEW i \in DOMAIN graph'
      PROVE \E j \in DOMAIN cols : j \in DOMAIN graph /\ graph'[i] = graph[j] /\ cols'[i] = cols[j]
  BY <1>2, <1>3, <1>4, <1>5, <1>6
<1>9. RetrievalsStay
  BY <1>2 DEF RetrievalsStay
<1>10. KeptInMemory'
  BY <1>1, <1>2, <1>7, <1>8 DEF Memory, KeptInMemory
<1>11. LandsInMemory'
  BY <1>1, <1>2, <1>7, <1>8 DEF Memory, LandsInMemory
<1>12. GraphOK(graph)' /\ GraphOK(log)'
  <2>1. ASSUME NEW i \in DOMAIN h PROVE h[i].edge \in 1 .. born /\ h[i].open \in BOOLEAN
    BY <1>1, <1>5 DEF GraphTyped, GraphOK
  <2> QED
    BY <1>2, <1>5, <2>1 DEF GraphOK, Distinct
<1>13. GraphTyped'
  <2>1. ASSUME NEW i \in DOMAIN cols' PROVE ColumnOK(cols[i])'
    <3>1. PICK j \in DOMAIN cols : cols'[i] = cols[j]
      BY <1>7, <1>8
    <3> QED
      BY <1>1, <1>2, <3>1 DEF GraphTyped, ColumnOK
  <2>2. Len(cols') <= Len(graph')
    BY <1>7, LenProperties
  <2> QED
    BY <1>1, <1>2, <1>5, <1>7, <1>12, <2>1, <2>2 DEF GraphTyped
<1>14. LogInGraph' /\ Covered'
  BY <1>2, <1>7 DEF LogInGraph, Covered
<1>15. Memory'
  BY <1>10, <1>11, <1>13, <1>14 DEF Memory
<1>16. Sidecar'
  <2>1. born \in Nat /\ born' \in Nat /\ born <= born'
    BY <1>1, <1>2, GraphFacts
  <2>2. \A i \in DOMAIN graph' : \E j \in DOMAIN graph : graph[j].edge = graph'[i].edge
    BY <1>8
  <2> QED
    BY <1>1, <1>2, <1>9, <2>1, <2>2, SidecarStays
<1>17. Store' /\ Named'
  BY <1>1, <1>2, StoreStays, NamedStays
<1> QED
  BY <1>15, <1>16, <1>17 DEF IInv

-----------------------------------------------------------------------------
(* A retrieval and its trace.                                              *)

\* A retrieval that fired edge e is recorded: trace t, answered with id a or none.
IsPut(t, a, e) ==
  /\ next' = next + 1 /\ lines' \in Nat
  /\ retrieved' = Append(retrieved, [edge |-> e, id |-> a])
  /\ traces' \in [DOMAIN traces' -> Traces] /\ IsFiniteSet(DOMAIN traces')
  /\ Cardinality(DOMAIN traces') <= Cap
  /\ \A id \in DOMAIN traces' : \/ id \in DOMAIN traces /\ traces'[id] = traces[id]
                                \/ id = next /\ traces'[id] = t
  /\ file' \in Seq(Lines)
  /\ \/ file' = file /\ a = 0
     \/ \E line \in Lines :
          /\ IsAppended(file', file, line) \/ IsGlued(file', file, line)
          /\ line.id = 0 \/ (line.id = next /\ line.trace = t)
          /\ a # 0 => line.id = next /\ line.nl
     \/ /\ \A j \in DOMAIN file' :
             file'[j].nl /\ file'[j].id \in DOMAIN traces' /\ file'[j].trace = traces'[file'[j].id]
        /\ \A id \in DOMAIN traces' :
             \E j \in DOMAIN file' : file'[j].id = id /\ file'[j].trace = traces'[id]

\* The map with one more trace.
LEMMA OneMore ==
  ASSUME StoreTyped, NEW t \in Traces, NEW m, m = Newest(Inserted(traces, next, t))
  PROVE /\ m \in [DOMAIN m -> Traces] /\ DOMAIN m \subseteq Nat
        /\ IsFiniteSet(DOMAIN m) /\ Cardinality(DOMAIN m) <= Cap
        /\ \A id \in DOMAIN m : \/ id \in DOMAIN traces /\ m[id] = traces[id]
                                \/ id = next /\ m[id] = t
<1> DEFINE f == Inserted(traces, next, t)
<1>1. /\ DOMAIN traces \subseteq Nat /\ next \in Nat \ {0}
      /\ \A id \in DOMAIN traces : traces[id] \in Traces
  BY StoreFacts
<1>2. f = [x \in DOMAIN traces \cup {next} |-> IF x = next THEN t ELSE traces[x]]
  BY DEF Inserted
<1> HIDE DEF f
<1>3. /\ DOMAIN f = DOMAIN traces \cup {next}
      /\ \A id \in DOMAIN f : \/ id \in DOMAIN traces /\ f[id] = traces[id]
                              \/ id = next /\ f[id] = t
  BY <1>2
<1>4. f \in [DOMAIN f -> Traces]
  BY <1>1, <1>2
<1>5. DOMAIN f \subseteq Nat
  BY <1>1, <1>3
<1>6. IsFiniteSet(DOMAIN f)
  <2>1. IsFiniteSet(DOMAIN traces)
    BY DEF StoreTyped
  <2>2. IsFiniteSet(DOMAIN traces \cup {next})
    BY <2>1, FS_AddElement
  <2> QED
    BY <1>3, <2>2
<1>7. m = Newest(f)
  BY DEF f
<1>8. /\ m \in [DOMAIN m -> Traces] /\ DOMAIN m \subseteq DOMAIN f
      /\ \A id \in DOMAIN m : m[id] = f[id]
      /\ IsFiniteSet(DOMAIN m) /\ Cardinality(DOMAIN m) <= Cap
  BY <1>4, <1>5, <1>6, <1>7, NewestHas
<1> QED
  BY <1>3, <1>5, <1>8

LEMMA PutHas ==
  ASSUME StoreTyped, NEW i \in Nat, NEW e, e = graph[i].edge, Put(i),
         NEW t, t = [r |-> Len(retrieved) + 1, pos |-> i]
  PROVE \E a \in {0, next} : IsPut(t, a, e)
<1> DEFINE line == Line(next, t)
           torn == [line EXCEPT !.nl = FALSE]
           rest == Garbled(FALSE)
           Answered(id) == retrieved' = Append(retrieved, [edge |-> graph[i].edge, id |-> id])
           Wrote(l) == /\ IsAppended(file', file, l) \/ IsGlued(file', file, l)
                       /\ file' \in Seq(Lines)
<1>1. /\ file \in Seq(Lines) /\ Len(retrieved) \in Nat /\ next \in Nat \ {0} /\ lines \in Nat
      /\ traces \in [DOMAIN traces -> Traces] /\ IsFiniteSet(DOMAIN traces)
      /\ Cardinality(DOMAIN traces) <= Cap
  BY StoreFacts DEF StoreTyped, SeqFacts
<1>2. t \in Traces
  BY <1>1 DEF Traces
<1>3. line \in Lines /\ line.id = next /\ line.trace = t /\ line.nl = TRUE
  BY <1>1, <1>2 DEF Line, Lines
<1>4. torn \in Lines /\ torn.id = next /\ torn.trace = t /\ torn.nl = FALSE
  BY <1>1, <1>2 DEF Line, Lines
<1>5. rest \in Lines /\ rest.id = 0 /\ rest.nl = FALSE
  BY GarbledLine
<1>6. /\ next' = next + 1
      /\ \/ /\ traces' = Newest(Inserted(traces, next, t))
            /\ \/ file' = Written(file, line) /\ lines' = lines + 1 /\ Answered(next)
               \/ file' = LinesOf(traces') /\ lines' = Len(file') /\ Answered(next)
               \/ file' = Written(file, line) /\ lines' = lines + 1 /\ Answered(0)
         \/ /\ file' \in {file, Written(file, line), Written(file, rest), Written(file, torn)}
            /\ Answered(0) /\ traces' = traces /\ lines' = lines
  BY Zenon DEF Put
<1> HIDE DEF line, torn, rest
<1>7. ASSUME NEW l \in Lines, file' = Written(file, l) PROVE Wrote(l)
  BY <1>1, <1>7, WrittenHas
<1>8. CASE /\ traces' = Newest(Inserted(traces, next, t))
           /\ \/ file' = Written(file, line) /\ lines' = lines + 1 /\ Answered(next)
              \/ file' = LinesOf(traces') /\ lines' = Len(file') /\ Answered(next)
              \/ file' = Written(file, line) /\ lines' = lines + 1 /\ Answered(0)
  <2>1. /\ traces' \in [DOMAIN traces' -> Traces] /\ DOMAIN traces' \subseteq Nat
        /\ IsFiniteSet(DOMAIN traces') /\ Cardinality(DOMAIN traces') <= Cap
        /\ \A id \in DOMAIN traces' : \/ id \in DOMAIN traces /\ traces'[id] = traces[id]
                                      \/ id = next /\ traces'[id] = t
    BY <1>2, <1>8, OneMore
  <2>2. CASE file' = Written(file, line) /\ lines' = lines + 1 /\ (Answered(next) \/ Answered(0))
    <3>1. Wrote(line) /\ lines' \in Nat
      BY <1>1, <1>3, <1>7, <2>2
    <3> QED
      BY <1>3, <1>6, <2>1, <2>2, <3>1 DEF IsPut
  <2>3. CASE file' = LinesOf(traces') /\ lines' = Len(file') /\ Answered(next)
    <3> DEFINE h == LinesOf(traces')
    <3>3. /\ h \in Seq(Lines)
          /\ \A j \in DOMAIN h : h[j].nl /\ h[j].id \in DOMAIN traces' /\ h[j].trace = traces'[h[j].id]
          /\ \A id \in DOMAIN traces' : \E j \in DOMAIN h : h[j].id = id /\ h[j].trace = traces'[id]
      BY <2>1, LinesOfHas
    <3>4. file' = h
      BY <2>3
    <3> HIDE DEF h
    <3>1. /\ file' \in Seq(Lines)
          /\ \A j \in DOMAIN file' :
               file'[j].nl /\ file'[j].id \in DOMAIN traces' /\ file'[j].trace = traces'[file'[j].id]
          /\ \A id \in DOMAIN traces' :
               \E j \in DOMAIN file' : file'[j].id = id /\ file'[j].trace = traces'[id]
      BY <3>3, <3>4
    <3>2. lines' \in Nat
      BY <2>3, <3>1, LenProperties
    <3> QED
      BY <1>6, <2>1, <2>3, <3>1, <3>2 DEF IsPut
  <2> QED
    BY <1>8, <2>2, <2>3
<1>9. CASE /\ file' \in {file, Written(file, line), Written(file, rest), Written(file, torn)}
           /\ Answered(0) /\ traces' = traces /\ lines' = lines
  <2>1. /\ traces' \in [DOMAIN traces' -> Traces] /\ IsFiniteSet(DOMAIN traces')
        /\ Cardinality(DOMAIN traces') <= Cap /\ lines' \in Nat
        /\ \A id \in DOMAIN traces' : id \in DOMAIN traces /\ traces'[id] = traces[id]
    BY <1>1, <1>9
  <2>2. CASE file' = file
    BY <1>1, <1>6, <1>9, <2>1, <2>2 DEF IsPut
  <2>3. ASSUME NEW l \in {line, rest, torn}, file' = Written(file, l)
        PROVE \E a \in {0, next} : IsPut(t, a, e)
    <3>1. l \in Lines /\ (l.id = 0 \/ (l.id = next /\ l.trace = t))
      BY <1>3, <1>4, <1>5, <2>3
    <3>2. Wrote(l)
      BY <1>7, <2>3, <3>1
    <3>3. IsPut(t, 0, e)
      BY <1>6, <1>9, <2>1, <3>1, <3>2 DEF IsPut
    <3> QED
      BY <3>3
  <2> QED
    BY <1>9, <2>2, <2>3
<1> QED
  BY <1>6, <1>8, <1>9

\* What the lines of the log are after it.
LEMMA PutLines ==
  ASSUME StoreTyped, NEW t, NEW a, NEW e, IsPut(t, a, e), NEW j \in DOMAIN file'
  PROVE \/ j \in DOMAIN file /\ file'[j] = file[j]
        \/ file'[j].id = 0
        \/ file'[j].id = next /\ file'[j].trace = t /\ (~file'[j].nl => a = 0)
        \/ file'[j].nl /\ file'[j].id \in DOMAIN traces' /\ file'[j].trace = traces'[file'[j].id]
<1>1. Len(file) \in Nat /\ DOMAIN file = 1 .. Len(file)
  BY StoreFacts DEF SeqFacts
<1>2. CASE file' = file
  BY <1>2
<1>3. ASSUME NEW line \in Lines, IsAppended(file', file, line) \/ IsGlued(file', file, line),
             line.id = 0 \/ (line.id = next /\ line.trace = t), a # 0 => line.id = next /\ line.nl
      PROVE \/ j \in DOMAIN file /\ file'[j] = file[j]
            \/ file'[j].id = 0
            \/ file'[j].id = next /\ file'[j].trace = t /\ (~file'[j].nl => a = 0)
  <2>1. CASE IsAppended(file', file, line)
    <3>1. j \in DOMAIN file \/ j = Len(file) + 1
      BY <1>1, <2>1 DEF IsAppended
    <3> QED
      BY <1>3, <2>1, <3>1 DEF IsAppended
  <2>2. CASE IsGlued(file', file, line)
    <3>1. CASE j = Len(file)
      <4>1. file'[j] = Garbled(line.nl)
        BY <2>2, <3>1 DEF IsGlued
      <4> QED
        BY <4>1 DEF Garbled
    <3>2. CASE j # Len(file)
      BY <2>2, <3>2 DEF IsGlued
    <3> QED
      BY <3>1, <3>2
  <2> QED
    BY <1>3, <2>1, <2>2
<1>4. CASE \A k \in DOMAIN file' :
             file'[k].nl /\ file'[k].id \in DOMAIN traces' /\ file'[k].trace = traces'[file'[k].id]
  BY <1>4
<1> QED
  BY <1>2, <1>3, <1>4 DEF IsPut

LEMMA PutRetrieved ==
  ASSUME StoreTyped, NEW t, NEW e \in Nat, NEW a \in {0, next}, IsPut(t, a, e)
  PROVE LET n == Len(retrieved) + 1
        IN /\ retrieved' \in Seq(Retrievals) /\ Len(retrieved') = n
           /\ DOMAIN retrieved' = DOMAIN retrieved \cup {n} /\ n \notin DOMAIN retrieved /\ n \in Nat
           /\ \A r \in DOMAIN retrieved : retrieved'[r] = retrieved[r]
           /\ retrieved'[n].edge = e /\ retrieved'[n].id = a
<1> DEFINE n == Len(retrieved) + 1
           x == [edge |-> e, id |-> a]
           s == Append(retrieved, x)
<1>1. retrieved \in Seq(Retrievals) /\ next \in Nat
  BY DEF StoreTyped
<1>2. Len(retrieved) \in Nat /\ DOMAIN retrieved = 1 .. Len(retrieved)
  BY <1>1, LenProperties
<1>3. x \in Retrievals /\ x.edge = e /\ x.id = a
  BY <1>1 DEF Retrievals
<1>4. retrieved' = s
  BY DEF IsPut
<1> HIDE DEF x
<1>5. /\ s \in Seq(Retrievals) /\ Len(s) = Len(retrieved) + 1
      /\ \A i \in 1 .. Len(retrieved) : s[i] = retrieved[i]
      /\ s[Len(retrieved) + 1] = x
  BY <1>1, <1>3, AppendProperties
<1> HIDE DEF s
<1>6. DOMAIN s = 1 .. Len(retrieved) + 1
  BY <1>5, LenProperties
<1>7. DOMAIN s = DOMAIN retrieved \cup {n} /\ n \notin DOMAIN retrieved /\ n \in Nat
  BY <1>2, <1>6
<1> QED
  BY <1>2, <1>3, <1>4, <1>5, <1>7

\* An answered trace that is not on the disk has a line that nothing can be read from.
LEMMA PutOnDisk ==
  ASSUME Store, NEW t \in Traces, t.r = Len(retrieved) + 1, NEW e \in Nat, NEW a \in {0, next},
         IsPut(t, a, e)
  PROVE TracesOnDisk'
<1> DEFINE n == Len(retrieved) + 1
           Missing == {id \in {i \in DOMAIN traces : retrieved[traces[i].r].id = i} :
                         ~\E i \in DOMAIN file : file[i].id = id /\ file[i].trace = traces[id]}
           Missing2 == {id \in {i \in DOMAIN traces' : retrieved'[traces'[i].r].id = i} :
                          ~\E i \in DOMAIN file' : file'[i].id = id /\ file'[i].trace = traces'[id]}
           G == {i \in DOMAIN file : file[i].id = 0 /\ file[i].nl}
           G2 == {i \in DOMAIN file' : file'[i].id = 0 /\ file'[i].nl}
<1>1. StoreTyped /\ Numbered /\ LooseEnd /\ Cardinality(Missing) <= Cardinality(G)
  BY DEF Store, TracesOnDisk
<1>2. /\ SeqFacts(file, Lines) /\ next \in Nat \ {0}
      /\ \A id \in DOMAIN traces : id \in Nat \ {0} /\ id < next
  BY <1>1, StoreFacts
<1>3. /\ DOMAIN retrieved' = DOMAIN retrieved \cup {n} /\ n \notin DOMAIN retrieved
      /\ \A r \in DOMAIN retrieved : retrieved'[r] = retrieved[r]
      /\ retrieved'[n].id = a
  BY <1>1, PutRetrieved
<1>4. ASSUME NEW id \in Missing2
      PROVE \/ id \in DOMAIN traces /\ traces'[id] = traces[id] /\ retrieved[traces[id].r].id = id
            \/ id = next /\ a = next
  <2>1. id \in DOMAIN traces' /\ retrieved'[traces'[id].r].id = id
    OBVIOUS
  <2>2. CASE id \in DOMAIN traces /\ traces'[id] = traces[id]
    BY <1>1, <1>3, <2>1, <2>2 DEF Numbered
  <2>3. CASE id = next /\ traces'[id] = t
    <3>1. retrieved'[n].id = id
      BY <2>1, <2>3
    <3> QED
      BY <1>2, <1>3, <2>3, <3>1
  <2> QED
    BY <2>1, <2>2, <2>3 DEF IsPut
<1>5. IsFiniteSet(Missing) /\ IsFiniteSet(G) /\ IsFiniteSet(G2)
  <2>1. IsFiniteSet(DOMAIN traces)
    BY <1>1 DEF StoreTyped
  <2>2. DOMAIN file = 1 .. Len(file) /\ Len(file) \in Nat
    BY <1>2 DEF SeqFacts
  <2>3. DOMAIN file' = 1 .. Len(file') /\ Len(file') \in Nat
    BY LenProperties DEF IsPut
  <2>4. IsFiniteSet(DOMAIN file) /\ IsFiniteSet(DOMAIN file')
    BY <2>2, <2>3, FS_Interval
  <2>5. Missing \in SUBSET DOMAIN traces /\ G \in SUBSET DOMAIN file /\ G2 \in SUBSET DOMAIN file'
    OBVIOUS
  <2> HIDE DEF Missing, G, G2
  <2> QED
    BY <2>1, <2>4, <2>5, FS_Subset
<1>6. CASE Missing2 \subseteq Missing /\ G \subseteq G2
  <2> HIDE DEF Missing, Missing2, G, G2
  <2>1. Cardinality(Missing2) <= Cardinality(Missing) /\ IsFiniteSet(Missing2)
    BY <1>5, <1>6, FS_Subset
  <2>2. Cardinality(G) <= Cardinality(G2)
    BY <1>5, <1>6, FS_Subset
  <2>3. /\ Cardinality(Missing) \in Nat /\ Cardinality(Missing2) \in Nat
        /\ Cardinality(G) \in Nat /\ Cardinality(G2) \in Nat
    BY <1>5, <2>1, FS_CardinalityType
  <2>4. Cardinality(Missing2) <= Cardinality(G2)
    BY <1>1, <2>1, <2>2, <2>3
  <2> QED
    BY <2>4 DEF TracesOnDisk, Missing2, G2
<1>7. ASSUME NEW k, k \notin G, G \cup {k} \subseteq G2, Missing2 \subseteq Missing \cup {next}
      PROVE TracesOnDisk'
  <2> HIDE DEF Missing, Missing2, G, G2
  <2>1. /\ IsFiniteSet(Missing \cup {next}) /\ IsFiniteSet(G \cup {k})
        /\ Cardinality(G \cup {k}) = Cardinality(G) + 1
    BY <1>5, <1>7, FS_AddElement
  <2>2. Cardinality(Missing \cup {next}) <= Cardinality(Missing) + 1
    <3>1. CASE next \in Missing
      <4>1. Missing \cup {next} = Missing
        BY <3>1
      <4>2. Cardinality(Missing \cup {next}) = Cardinality(Missing)
        BY <4>1, Zenon
      <4>3. Cardinality(Missing) \in Nat
        BY <1>5, FS_CardinalityType
      <4> QED
        BY <4>2, <4>3
    <3>2. CASE next \notin Missing
      <4>1. Cardinality(Missing \cup {next}) = Cardinality(Missing) + 1
        BY <1>5, <3>2, FS_AddElement
      <4>2. Cardinality(Missing) \in Nat
        BY <1>5, FS_CardinalityType
      <4> QED
        BY <4>1, <4>2
    <3> QED
      BY <3>1, <3>2
  <2>3. Cardinality(Missing2) <= Cardinality(Missing \cup {next}) /\ IsFiniteSet(Missing2)
    BY <1>7, <2>1, FS_Subset
  <2>4. Cardinality(G \cup {k}) <= Cardinality(G2)
    BY <1>5, <1>7, FS_Subset
  <2>5. /\ Cardinality(Missing) \in Nat /\ Cardinality(Missing2) \in Nat
        /\ Cardinality(G) \in Nat /\ Cardinality(G2) \in Nat
        /\ Cardinality(Missing \cup {next}) \in Nat /\ Cardinality(G \cup {k}) \in Nat
    BY <1>5, <2>1, <2>3, FS_CardinalityType
  <2>6. Cardinality(Missing2) <= Cardinality(G2)
    BY <1>1, <2>1, <2>2, <2>3, <2>4, <2>5
  <2> QED
    BY <2>6 DEF TracesOnDisk, Missing2, G2
<1>8. CASE file' = file /\ a = 0
  <2>1. Missing2 \subseteq Missing
    BY <1>2, <1>4, <1>8
  <2>2. G \subseteq G2
    BY <1>8
  <2> QED
    BY <1>6, <2>1, <2>2
<1>9. ASSUME NEW line \in Lines, IsAppended(file', file, line),
             line.id = 0 \/ (line.id = next /\ line.trace = t), a # 0 => line.id = next /\ line.nl
      PROVE TracesOnDisk'
  <2>1. \A i \in DOMAIN file : i \in DOMAIN file' /\ file'[i] = file[i]
    BY <1>2, <1>9 DEF IsAppended, SeqFacts
  <2>2. ASSUME NEW id \in Missing2 PROVE id \in Missing
    <3>1. CASE id = next /\ a = next
      <4>1. line.id = next /\ line.trace = t
        BY <1>2, <1>9, <3>1
      <4>2. Len(file) + 1 \in DOMAIN file' /\ file'[Len(file) + 1] = line
        BY <1>2, <1>9 DEF IsAppended, SeqFacts
      <4>3. traces'[next] = t
        BY <1>2, <2>2, <3>1 DEF IsPut
      <4> QED
        BY <2>2, <3>1, <4>1, <4>2, <4>3
    <3>2. CASE id \in DOMAIN traces /\ traces'[id] = traces[id] /\ retrieved[traces[id].r].id = id
      BY <2>1, <2>2, <3>2
    <3> QED
      BY <1>4, <2>2, <3>1, <3>2
  <2>3. G \subseteq G2
    BY <2>1
  <2> QED
    BY <1>6, <2>2, <2>3
<1>10. ASSUME NEW line \in Lines, IsGlued(file', file, line),
              a # 0 => line.id = next /\ line.nl
       PROVE TracesOnDisk'
  <2> DEFINE k == Len(file)
  <2>1. /\ k \in DOMAIN file /\ ~file[k].nl /\ DOMAIN file' = DOMAIN file
        /\ \A i \in DOMAIN file : i # k => file'[i] = file[i]
        /\ file'[k].id = 0 /\ file'[k].nl = line.nl
    BY <1>10 DEF IsGlued, Garbled
  <2> HIDE DEF k
  <2>2. G \subseteq G2 /\ k \notin G
    BY <2>1
  <2>3. ASSUME NEW id \in Missing2 PROVE id \in Missing \/ (id = next /\ a = next)
    <3>1. SUFFICES ASSUME id \in DOMAIN traces, traces'[id] = traces[id],
                          retrieved[traces[id].r].id = id
                   PROVE id \in Missing
      BY <1>4, <2>3
    <3>2. SUFFICES ASSUME NEW i \in DOMAIN file, file[i].id = id, file[i].trace = traces[id]
                   PROVE FALSE
      BY <3>1
    <3>3. id # 0
      BY <1>2, <3>1
    <3>4. CASE i = k
      BY <1>1, <2>1, <3>1, <3>2, <3>3, <3>4 DEF LooseEnd, GoodLines
    <3>5. CASE i # k
      BY <2>1, <2>3, <3>1, <3>2, <3>5
    <3> QED
      BY <3>4, <3>5
  <2>4. CASE a = 0
    BY <1>2, <1>6, <2>2, <2>3, <2>4
  <2>5. CASE a # 0
    <3>1. k \in G2
      BY <1>10, <2>1, <2>5
    <3>2. G \cup {k} \subseteq G2 /\ Missing2 \subseteq Missing \cup {next}
      BY <2>2, <2>3, <3>1
    <3> QED
      BY <1>7, <2>2, <3>2
  <2> QED
    BY <2>4, <2>5
<1>11. CASE \A id \in DOMAIN traces' :
              \E j \in DOMAIN file' : file'[j].id = id /\ file'[j].trace = traces'[id]
  <2>1. Missing2 = {}
    BY <1>11
  <2>2. Cardinality(Missing2) = 0
    BY <2>1, FS_EmptySet
  <2>3. Cardinality(G2) \in Nat
    BY <1>5, FS_CardinalityType
  <2> HIDE DEF Missing2, G2
  <2>4. Cardinality(Missing2) <= Cardinality(G2)
    BY <2>2, <2>3
  <2> QED
    BY <2>4 DEF TracesOnDisk, Missing2, G2
<1> QED
  BY <1>8, <1>9, <1>10, <1>11 DEF IsPut

LEMMA RetrieveStep ==
  ASSUME IInv, NEW i \in DOMAIN graph, Retrieve(i)
  PROVE IInv'
<1> DEFINE n == Len(retrieved) + 1
           t == [r |-> n, pos |-> i]
           e == graph[i].edge
           NamesNow(id, u) ==
             /\ \A r \in DOMAIN retrieved' : retrieved'[r].id = id => u.r = r
             /\ u.pos \in DOMAIN graph /\ graph[u.pos].edge = retrieved'[u.r].edge
<1>1. Memory /\ Sidecar /\ Store /\ Named /\ GraphTyped /\ Covered /\ StoreTyped /\ Numbered /\ LooseEnd
  BY DEF IInv, Memory, Store
<1>2. /\ UNCHANGED <<graph, log, cols, sidecar, wedged, poisoned, step, born, credited, exposed>>
      /\ step = "idle" /\ Len(retrieved) < MaxRetrievals /\ Put(i)
  BY DEF Retrieve, Serving
<1>3. i \in Nat /\ e \in Nat
  BY <1>1, GraphFacts
<1>4. PICK a \in {0, next} : IsPut(t, a, e)
  BY <1>1, <1>2, <1>3, PutHas
<1>5. n \in Nat /\ t \in Traces /\ t.r = n /\ t.pos = i /\ next \in Nat \ {0}
  BY <1>1, <1>3, StoreFacts DEF Traces, SeqFacts
<1> HIDE DEF t, e
<1>6. /\ retrieved' \in Seq(Retrievals) /\ Len(retrieved') = n
      /\ DOMAIN retrieved' = DOMAIN retrieved \cup {n} /\ n \notin DOMAIN retrieved
      /\ \A r \in DOMAIN retrieved : retrieved'[r] = retrieved[r]
      /\ retrieved'[n].edge = e /\ retrieved'[n].id = a
  BY <1>1, <1>3, <1>4, PutRetrieved
<1>7. /\ \A id \in DOMAIN traces : id \in Nat \ {0} /\ id < next
      /\ SeqFacts(file, Lines)
  BY <1>1, StoreFacts
<1>8. /\ next' = next + 1 /\ file' \in Seq(Lines)
      /\ \A id \in DOMAIN traces' : \/ id \in DOMAIN traces /\ traces'[id] = traces[id]
                                    \/ id = next /\ traces'[id] = t
  BY <1>4 DEF IsPut
<1>9. StoreTyped'
  <2>1. Len(retrieved') <= MaxRetrievals
    <3>1. Len(retrieved) \in Nat /\ MaxRetrievals \in Nat
      BY <1>1, StoreFacts, LimitsAssumption DEF SeqFacts
    <3> QED
      BY <1>2, <1>6, <3>1
  <2>2. \A id \in DOMAIN traces' : id \in 1 .. next' - 1
    BY <1>5, <1>7, <1>8
  <2>3. next' \in Nat \ {0}
    BY <1>5, <1>8
  <2> QED
    BY <1>4, <1>6, <2>1, <2>2, <2>3 DEF StoreTyped, IsPut
<1>10. ASSUME NEW j \in DOMAIN file'
       PROVE \/ j \in DOMAIN file /\ file'[j] = file[j]
             \/ file'[j].id = 0
             \/ file'[j].id = next /\ file'[j].trace = t /\ (~file'[j].nl => a = 0)
             \/ /\ file'[j].nl /\ file'[j].id \in DOMAIN traces'
                /\ file'[j].trace = traces'[file'[j].id]
  BY <1>1, <1>4, PutLines
<1>11. \A id \in DOMAIN traces' : traces'[id].r \in DOMAIN retrieved'
  BY <1>1, <1>5, <1>6, <1>8 DEF Numbered
<1>12. Numbered'
  <2>1. ASSUME NEW j \in DOMAIN file'
        PROVE file'[j].id < next' /\ (file'[j].id # 0 => file'[j].trace.r \in DOMAIN retrieved')
    <3>1. CASE j \in DOMAIN file /\ file'[j] = file[j]
      <4>1. file[j].id < next /\ file[j].id \in Nat
        BY <1>1, <1>7, <3>1 DEF Numbered, SeqFacts, Lines
      <4>2. file[j].id # 0 => file[j].trace.r \in DOMAIN retrieved
        BY <1>1, <3>1 DEF Numbered, GoodLines
      <4> QED
        BY <1>5, <1>6, <1>8, <3>1, <4>1, <4>2
    <3>2. CASE file'[j].id = 0
      BY <1>5, <1>8, <3>2
    <3>3. CASE file'[j].id = next /\ file'[j].trace = t
      BY <1>5, <1>6, <1>8, <3>3
    <3>4. CASE file'[j].id \in DOMAIN traces' /\ file'[j].trace = traces'[file'[j].id]
      BY <1>5, <1>7, <1>8, <1>11, <3>4
    <3> QED
      BY <1>10, <3>1, <3>2, <3>3, <3>4
  <2> QED
    BY <1>11, <2>1 DEF Numbered, GoodLines
<1>13. LooseEnd'
  <2>1. SUFFICES ASSUME NEW j \in DOMAIN file', file'[j].id # 0, ~file'[j].nl
                 PROVE retrieved'[file'[j].trace.r].id = 0
    BY DEF LooseEnd, GoodLines
  <2>2. CASE j \in DOMAIN file /\ file'[j] = file[j]
    BY <1>1, <1>6, <2>1, <2>2 DEF Numbered, LooseEnd, GoodLines
  <2>3. CASE file'[j].trace = t /\ a = 0
    BY <1>5, <1>6, <2>3
  <2> QED
    BY <1>10, <2>1, <2>2, <2>3
<1>14. TracesOnDisk'
  BY <1>1, <1>3, <1>4, <1>5, PutOnDisk
<1>15. Store'
  BY <1>9, <1>12, <1>13, <1>14 DEF Store
<1>16. RetrievalsStay
  BY <1>6 DEF RetrievalsStay
<1>17. Named'
  <2>1. SUFFICES ASSUME ~exposed
                 PROVE /\ \A r \in DOMAIN retrieved' : retrieved'[r].id < next'
                       /\ \A id \in DOMAIN traces' : NamesNow(id, traces'[id])
                       /\ \A j \in GoodLines(file') : NamesNow(file'[j].id, file'[j].trace)
    <3>1. graph' = graph /\ step' = step /\ exposed' = exposed
      BY <1>2
    <3> QED
      BY <3>1 DEF Named, Names
  <2>2. ASSUME NEW id \in Nat \ {0}, id < next, NEW u, u.r \in DOMAIN retrieved, Names(id, u)
        PROVE NamesNow(id, u)
    <3>1. id # a
      BY <1>5, <2>2
    <3>2. ASSUME NEW r \in DOMAIN retrieved', retrieved'[r].id = id PROVE u.r = r
      BY <1>6, <2>2, <3>1, <3>2 DEF Names
    <3>3. u.pos \in DOMAIN graph /\ graph[u.pos].edge = retrieved'[u.r].edge
      BY <1>2, <1>6, <2>2 DEF Names
    <3> QED
      BY <3>2, <3>3
  <2>3. NamesNow(next, t)
    <3>1. ASSUME NEW r \in DOMAIN retrieved', retrieved'[r].id = next PROVE t.r = r
      <4>1. CASE r \in DOMAIN retrieved
        <5>1. retrieved[r].id < next /\ retrieved[r].id = next
          BY <1>1, <1>6, <2>1, <3>1, <4>1 DEF Named
        <5> QED
          BY <1>5, <5>1
      <4> QED
        BY <1>5, <1>6, <4>1
    <3>2. t.pos \in DOMAIN graph /\ graph[t.pos].edge = retrieved'[t.r].edge
      BY <1>5, <1>6 DEF e
    <3> QED
      BY <3>1, <3>2
  <2>4. \A id \in DOMAIN traces' : NamesNow(id, traces'[id])
    <3>1. ASSUME NEW id \in DOMAIN traces' PROVE NamesNow(id, traces'[id])
      <4>1. CASE id \in DOMAIN traces /\ traces'[id] = traces[id]
        <5>1. Names(id, traces[id]) /\ traces[id].r \in DOMAIN retrieved
          BY <1>1, <2>1, <4>1 DEF Named, Numbered
        <5>2. Names(id, traces'[id])
          BY <4>1, <5>1
        <5> QED
          BY <1>7, <2>2, <4>1, <5>1, <5>2
      <4>2. CASE id = next /\ traces'[id] = t
        BY <2>3, <4>2
      <4> QED
        BY <1>8, <4>1, <4>2
    <3> QED
      BY <3>1
  <2>5. ASSUME NEW j \in GoodLines(file') PROVE NamesNow(file'[j].id, file'[j].trace)
    <3>1. j \in DOMAIN file' /\ file'[j].id # 0
      BY DEF GoodLines
    <3>2. CASE j \in DOMAIN file /\ file'[j] = file[j]
      <4>1. j \in GoodLines(file) /\ file[j].id < next /\ file[j].id \in Nat \ {0}
        BY <1>1, <1>7, <3>1, <3>2 DEF Numbered, GoodLines, SeqFacts, Lines
      <4>2. Names(file[j].id, file[j].trace) /\ file[j].trace.r \in DOMAIN retrieved
        BY <1>1, <2>1, <4>1 DEF Named, Numbered
      <4> QED
        BY <2>2, <3>2, <4>1, <4>2
    <3>3. CASE file'[j].id = next /\ file'[j].trace = t
      BY <2>3, <3>3
    <3>4. CASE file'[j].id \in DOMAIN traces' /\ file'[j].trace = traces'[file'[j].id]
      BY <2>4, <3>4
    <3> QED
      BY <1>10, <3>1, <3>2, <3>3, <3>4
  <2>6. \A r \in DOMAIN retrieved' : retrieved'[r].id < next'
    <3>1. ASSUME NEW r \in DOMAIN retrieved' PROVE retrieved'[r].id < next'
      <4>1. CASE r \in DOMAIN retrieved
        <5>1. retrieved'[r].id < next /\ retrieved'[r].id \in Nat
          <6>1. retrieved'[r] = retrieved[r] /\ retrieved[r].id < next
            BY <1>1, <1>6, <2>1, <4>1 DEF Named
          <6>2. retrieved[r] \in Retrievals
            BY <1>1, <4>1, StoreFacts DEF SeqFacts
          <6> QED
            BY <6>1, <6>2 DEF Retrievals
        <5> QED
          BY <1>5, <1>8, <5>1
      <4>2. CASE r = n
        BY <1>5, <1>6, <1>8, <4>2
      <4> QED
        BY <1>6, <4>1, <4>2
    <3> QED
      BY <3>1
  <2> QED
    BY <2>4, <2>5, <2>6
<1>18. Memory'
  <2>1. /\ wedged' \in BOOLEAN /\ poisoned' \in BOOLEAN /\ exposed' \in BOOLEAN
        /\ (wedged' \/ Len(cols) = Len(graph))
    BY <1>1, <1>2 DEF GraphTyped, Covered
  <2> QED
    BY <1>1, <1>2, <1>16, <2>1, MemoryStays
<1>19. Sidecar'
  BY <1>1, <1>2, <1>16, SameGraphSidecar
<1> QED
  BY <1>15, <1>17, <1>18, <1>19 DEF IInv

-----------------------------------------------------------------------------
(* A restart, and the theorems.                                            *)

LEMMA ReopenStep ==
  ASSUME IInv, Reopen
  PROVE IInv'
<1> DEFINE m == ReplayedMap(file)
           n == ReplayedNext(file)
           d == Loaded(log, sidecar)
<1>1. /\ Memory /\ Sidecar /\ Store /\ Named /\ GraphTyped /\ LogInGraph
      /\ StoreTyped /\ Numbered /\ LooseEnd /\ SidecarTyped
  BY DEF IInv, Memory, Store, Sidecar
<1>2. /\ graph' = log /\ cols' = d /\ traces' = m /\ next' = n /\ lines' = Len(file)
      /\ wedged' = FALSE /\ poisoned' = FALSE /\ step' = "idle"
      /\ UNCHANGED <<log, sidecar, file, born, retrieved, credited>>
      /\ exposed' = \/ exposed
                    \/ GoodLines(file) # {} /\ (graph # log \/ step # "idle")
                    \/ \E r \in DOMAIN retrieved : retrieved[r].id >= next'
  BY DEF Reopen, history
<1>3. /\ log \in Seq(Edges) /\ sidecar \in [DOMAIN sidecar -> Columns]
      /\ file \in Seq(Lines) /\ next \in Nat /\ \A i \in DOMAIN file : file[i].id < next
  BY <1>1 DEF GraphTyped, SidecarTyped, StoreTyped, Numbered
<1>4. /\ d \in Seq(Columns) /\ Len(d) = Len(log) /\ DOMAIN d = DOMAIN log
      /\ \A i \in DOMAIN log :
           d[i] = IF log[i].edge \in DOMAIN sidecar THEN sidecar[log[i].edge] ELSE Fresh
  BY <1>3, LoadedHas
<1>5. /\ m \in [DOMAIN m -> Traces] /\ DOMAIN m \subseteq Nat \ {0}
      /\ \A id \in DOMAIN m : \E i \in GoodLines(file) : file[i].id = id /\ m[id] = file[i].trace
      /\ IsFiniteSet(DOMAIN m) /\ Cardinality(DOMAIN m) <= Cap
  BY <1>3, ReplayedMapHas
<1>6. n \in Nat \ {0} /\ \A i \in DOMAIN file : file[i].id < n
  BY <1>3, ReplayedNextHas
<1> HIDE DEF m, n, d
<1>7. exposed => exposed'
  BY <1>2
<1>8. RetrievalsStay
  BY <1>2 DEF RetrievalsStay
<1>9. GraphTyped'
  <2>1. ASSUME NEW i \in DOMAIN cols' PROVE ColumnOK(cols[i])'
    <3>1. CASE log[i].edge \in DOMAIN sidecar
      <4>1. cols'[i] = sidecar[log[i].edge]
        BY <1>2, <1>4, <2>1, <3>1
      <4> QED
        BY <1>1, <1>2, <3>1, <4>1 DEF SidecarTyped, ColumnOK
    <3>2. CASE log[i].edge \notin DOMAIN sidecar
      <4>1. cols'[i] = Fresh
        BY <1>2, <1>4, <2>1, <3>2
      <4> QED
        BY <4>1, FreshColumn DEF ColumnOK
    <3> QED
      BY <3>1, <3>2
  <2>2. GraphOK(graph)' /\ GraphOK(log)'
    BY <1>1, <1>2 DEF GraphTyped, GraphOK
  <2>3. Len(cols') <= Len(graph') /\ exposed' \in BOOLEAN
    <3>1. Len(log) \in Nat
      BY <1>3, LenProperties
    <3>2. exposed \in BOOLEAN
      BY <1>1 DEF GraphTyped
    <3> QED
      BY <1>2, <1>4, <3>1, <3>2
  <2> QED
    BY <1>1, <1>2, <1>3, <1>4, <2>1, <2>2, <2>3 DEF GraphTyped
<1>10. KeptInMemory'
  <2>1. SUFFICES ASSUME NEW c \in credited, NEW i \in DOMAIN log, log[i].edge = c[2]
                 PROVE i \in DOMAIN cols' /\ c[1] \in cols'[i].lessons
    BY <1>2 DEF KeptInMemory
  <2>2. PICK j \in DOMAIN graph : log[i].edge = graph[j].edge
    BY <1>1 DEF LogInGraph
  <2>3. c[2] \in DOMAIN sidecar /\ c[1] \in sidecar[c[2]].lessons
    BY <1>1, <2>1, <2>2 DEF Sidecar, KeptOnDisk
  <2> QED
    BY <1>2, <1>4, <2>1, <2>3
<1>11. LandsInMemory'
  <2>1. SUFFICES ASSUME ~exposed, NEW i \in DOMAIN log, NEW r \in d[i].lessons
                 PROVE log[i].edge = retrieved[r].edge
    BY <1>2, <1>4, <1>7 DEF LandsInMemory
  <2>2. log[i].edge \in DOMAIN sidecar /\ r \in sidecar[log[i].edge].lessons
    BY <1>4, <2>1, FreshColumn
  <2> QED
    BY <1>1, <2>1, <2>2 DEF Sidecar, LandsOnDisk
<1>12. LogInGraph' /\ Covered'
  BY <1>2, <1>4 DEF LogInGraph, Covered
<1>13. Memory'
  BY <1>9, <1>10, <1>11, <1>12 DEF Memory
<1>14. Sidecar'
  <2>1. born \in Nat /\ born' \in Nat /\ born <= born'
    BY <1>1, <1>2, GraphFacts
  <2>2. \A i \in DOMAIN graph' : \E j \in DOMAIN graph : graph[j].edge = graph'[i].edge
    BY <1>1, <1>2 DEF LogInGraph
  <2> QED
    BY <1>1, <1>2, <1>7, <1>8, <2>1, <2>2, SidecarStays
<1>15. StoreTyped'
  <2>1. ASSUME NEW id \in DOMAIN m PROVE id \in 1 .. n - 1
    <3>1. PICK i \in GoodLines(file) : file[i].id = id
      BY <1>5
    <3>2. id < n /\ id \in Nat \ {0}
      BY <1>5, <1>6, <3>1 DEF GoodLines
    <3> QED
      BY <1>6, <3>2
  <2>2. Len(file) \in Nat
    BY <1>3, LenProperties
  <2> QED
    BY <1>1, <1>2, <1>5, <1>6, <2>1, <2>2 DEF StoreTyped
<1>16. Numbered' /\ LooseEnd'
  <2>1. \A id \in DOMAIN m : m[id].r \in DOMAIN retrieved
    BY <1>1, <1>5 DEF Numbered
  <2> QED
    BY <1>1, <1>2, <1>6, <2>1 DEF Numbered, LooseEnd, GoodLines
<1>17. TracesOnDisk'
  <2> DEFINE Missing == {id \in {i \in DOMAIN m : retrieved[m[i].r].id = i} :
                           ~\E i \in DOMAIN file : file[i].id = id /\ file[i].trace = m[id]}
             G == {i \in DOMAIN file : file[i].id = 0 /\ file[i].nl}
  <2>1. Missing = {}
    BY <1>5 DEF GoodLines
  <2>2. Cardinality(Missing) = 0
    BY <2>1, FS_EmptySet
  <2>3. Cardinality(G) \in Nat
    <3>1. DOMAIN file = 1 .. Len(file) /\ Len(file) \in Nat
      BY <1>3, LenProperties
    <3>2. IsFiniteSet(DOMAIN file)
      BY <3>1, FS_Interval
    <3>3. G \in SUBSET DOMAIN file
      OBVIOUS
    <3> HIDE DEF G
    <3> QED
      BY <3>2, <3>3, FS_Subset, FS_CardinalityType
  <2> HIDE DEF Missing, G
  <2>4. Cardinality(Missing) <= Cardinality(G)
    BY <2>2, <2>3
  <2> QED
    BY <1>2, <2>4 DEF TracesOnDisk, Missing, G
<1>18. Named'
  <2>1. SUFFICES ASSUME ~exposed' PROVE Named'
    BY DEF Named
  <2>2. /\ ~exposed /\ \A r \in DOMAIN retrieved : ~(retrieved[r].id >= next')
        /\ GoodLines(file) = {} \/ (graph = log /\ step = "idle")
    BY <1>2, <2>1
  <2>3. ASSUME NEW r \in DOMAIN retrieved PROVE retrieved[r].id < next'
    <3>1. retrieved[r].id \in Nat
      BY <1>1, StoreFacts DEF SeqFacts, Retrievals
    <3>2. next' \in Nat
      BY <1>2, <1>6
    <3> QED
      BY <2>2, <3>1, <3>2
  <2>4. ASSUME NEW i \in GoodLines(file) PROVE Names(file[i].id, file[i].trace)'
    <3>1. Names(file[i].id, file[i].trace) /\ graph = log /\ step = "idle"
      BY <1>1, <2>2, <2>4 DEF Named
    <3> QED
      BY <1>2, <3>1 DEF Names
  <2>5. ASSUME NEW id \in DOMAIN m PROVE Names(id, traces[id])'
    <3>1. PICK i \in GoodLines(file) : file[i].id = id /\ m[id] = file[i].trace
      BY <1>5
    <3>2. Names(file[i].id, file[i].trace)'
      BY <2>4
    <3> QED
      BY <1>2, <3>1, <3>2 DEF Names
  <2>6. \A i \in GoodLines(file)' : Names(file[i].id, file[i].trace)'
    BY <1>2, <2>4 DEF GoodLines
  <2>7. (\A r \in DOMAIN retrieved : retrieved[r].id < next)'
    BY <1>2, <2>3
  <2>8. (\A id \in DOMAIN traces : Names(id, traces[id]))'
    BY <1>2, <2>5
  <2> QED
    BY <2>6, <2>7, <2>8 DEF Named
<1> QED
  BY <1>13, <1>14, <1>15, <1>16, <1>17, <1>18 DEF IInv, Store

LEMMA StutterStep ==
  ASSUME IInv, UNCHANGED vars
  PROVE IInv'
<1>1. Memory /\ Sidecar /\ Store /\ Named /\ GraphTyped /\ Covered
  BY DEF IInv, Memory
<1>2. UNCHANGED <<graph, log, cols, sidecar, store, wedged, poisoned, step, born, retrieved,
                  credited, exposed>>
  BY DEF vars, history
<1>3. RetrievalsStay /\ Numbers(graph', graph)
  BY <1>1, <1>2, SameNumbers DEF RetrievalsStay
<1>4. /\ wedged' \in BOOLEAN /\ poisoned' \in BOOLEAN /\ exposed' \in BOOLEAN
      /\ (wedged' \/ Len(cols) = Len(graph)) /\ (step' # "idle" => ~wedged')
      /\ step' \in {"idle", "save", "clear"}
  BY <1>1, <1>2 DEF GraphTyped, Covered
<1>5. Memory'
  BY <1>1, <1>2, <1>3, <1>4, MemoryStays
<1>6. Sidecar'
  BY <1>1, <1>2, <1>3, SameGraphSidecar
<1>7. Store'
  BY <1>1, <1>2, StoreStays
<1>8. Named'
  BY <1>1, <1>2, <1>3, NamedStays
<1> QED
  BY <1>5, <1>6, <1>7, <1>8 DEF IInv

LEMMA NextStep ==
  IInv /\ [Next]_vars => IInv'
<1>1. SUFFICES ASSUME IInv, Next \/ UNCHANGED vars PROVE IInv'
  OBVIOUS
<1>2. CASE \E c \in Changes : Ingest(c) \/ IngestFails(c)
  BY <1>1, <1>2, IngestStep, IngestFailsStep
<1>3. CASE \E i \in DOMAIN graph : Retrieve(i)
  BY <1>1, <1>3, RetrieveStep
<1>4. CASE \E r \in DOMAIN retrieved : Feedback(r)
  BY <1>1, <1>4, FeedbackStep
<1>5. CASE \E pruned \in SUBSET DOMAIN cols, superseded \in SUBSET OpenEdges(graph) :
             Consolidate(pruned, superseded)
  BY <1>1, <1>5, ConsolidateStep
<1>6. CASE \E dropped \in SUBSET OpenEdges(graph) : Purge(dropped)
  BY <1>1, <1>6, PurgeStep
<1>7. CASE RetrievePanics \/ RewriteFails \/ Checkpoint \/ FlushAll
  BY <1>1, <1>7, PanicStep, RewriteFailsStep, CheckpointStep, FlushAllStep
<1>8. CASE SaveAfterRewrite \/ ClearTraces \/ Reopen
  BY <1>1, <1>8, SaveAfterRewriteStep, ClearTracesStep, ReopenStep
<1>9. CASE UNCHANGED vars
  BY <1>1, <1>9, StutterStep
<1> QED
  BY <1>1, <1>2, <1>3, <1>4, <1>5, <1>6, <1>7, <1>8, <1>9 DEF Next

LEMMA InitOK ==
  Init => IInv
<1>1. SUFFICES ASSUME Init PROVE IInv
  OBVIOUS
<1>2. /\ graph = <<>> /\ log = <<>> /\ cols = <<>> /\ sidecar = <<>>
      /\ traces = <<>> /\ next = 1 /\ lines = 0 /\ file = <<>>
      /\ wedged = FALSE /\ poisoned = FALSE /\ step = "idle"
      /\ born = 0 /\ retrieved = <<>> /\ credited = {} /\ exposed = FALSE
  BY <1>1 DEF Init
<1>3. /\ DOMAIN graph = {} /\ DOMAIN log = {} /\ DOMAIN cols = {} /\ DOMAIN sidecar = {}
      /\ DOMAIN traces = {} /\ DOMAIN file = {} /\ DOMAIN retrieved = {}
      /\ Len(graph) = 0 /\ Len(cols) = 0 /\ Len(retrieved) = 0
  BY <1>2
<1>4. /\ graph \in Seq(Edges) /\ log \in Seq(Edges) /\ cols \in Seq(Columns)
      /\ file \in Seq(Lines) /\ retrieved \in Seq(Retrievals)
      /\ sidecar \in [DOMAIN sidecar -> Columns] /\ traces \in [DOMAIN traces -> Traces]
  BY <1>2
<1>5. IsFiniteSet({}) /\ Cardinality({}) = 0
  BY FS_EmptySet
<1>6. /\ MaxEdges \in Nat /\ MaxRetrievals \in Nat /\ Cap \in Nat \ {0}
  BY LimitsAssumption
<1>7. Memory
  <2>1. GraphOK(graph) /\ GraphOK(log)
    BY <1>3 DEF GraphOK
  <2>2. born \in 0 .. MaxEdges /\ credited \subseteq Nat \X (1 .. born)
    BY <1>2, <1>6
  <2>3. GraphTyped
    <3>1. Len(cols) <= Len(graph)
      BY <1>3
    <3>2. \A i \in DOMAIN cols : ColumnOK(cols[i])
      BY <1>3
    <3>3. /\ wedged \in BOOLEAN /\ poisoned \in BOOLEAN /\ exposed \in BOOLEAN
          /\ step \in {"idle", "save", "clear"}
      BY <1>2
    <3> QED
      BY <1>4, <2>1, <2>2, <3>1, <3>2, <3>3, Zenon DEF GraphTyped
  <2>4. Covered
    BY <1>2, <1>3 DEF Covered
  <2>5. LogInGraph /\ KeptInMemory /\ LandsInMemory
    BY <1>2, <1>3 DEF LogInGraph, KeptInMemory, LandsInMemory
  <2> QED
    BY <2>3, <2>4, <2>5 DEF Memory
<1>8. Sidecar
  BY <1>2, <1>3, <1>4 DEF Sidecar, SidecarTyped, KeptOnDisk, LandsOnDisk
<1>9. StoreTyped /\ Numbered /\ LooseEnd /\ Named
  BY <1>2, <1>3, <1>4, <1>5, <1>6 DEF StoreTyped, Numbered, LooseEnd, Named, GoodLines
<1>10. TracesOnDisk
  <2> DEFINE Missing == {id \in {i \in DOMAIN traces : retrieved[traces[i].r].id = i} :
                           ~\E i \in DOMAIN file : file[i].id = id /\ file[i].trace = traces[id]}
             G == {i \in DOMAIN file : file[i].id = 0 /\ file[i].nl}
  <2>1. Missing = {} /\ G = {}
    BY <1>3
  <2>2. Cardinality(Missing) = 0 /\ Cardinality(G) = 0
    BY <1>5, <2>1
  <2> HIDE DEF Missing, G
  <2>3. Cardinality(Missing) <= Cardinality(G)
    BY <2>2
  <2> QED
    BY <2>3 DEF TracesOnDisk, Missing, G
<1> QED
  BY <1>7, <1>8, <1>9, <1>10 DEF IInv, Store

\* The inductive invariant holds in every state.
THEOREM Invariant ==
  Spec => []IInv
BY InitOK, NextStep, PTL DEF Spec

LEMMA Shaped ==
  ASSUME IInv
  PROVE WellFormed
<1>1. GraphTyped /\ Covered /\ SidecarTyped /\ StoreTyped
  BY DEF IInv, Memory, Sidecar, Store
<1>2. SeqFacts(file, Lines)
  BY <1>1, StoreFacts
<1>3. TypeOK
  BY <1>1, <1>2 DEF TypeOK, GraphTyped, SidecarTyped, StoreTyped, SeqFacts, Lines
<1>4. ColumnsCover
  BY <1>1, GraphFacts DEF ColumnsCover, Covered
<1> QED
  BY <1>3, <1>4 DEF WellFormed

\* What a handler and a reader find is in shape: keys are unique, a column
\* belongs to an edge, the map keeps at most Cap traces whose ids were given
\* out, and unless the WAL has failed every edge has its column, so that no
\* spread reads beyond the columns.
THEOREM ShapeHolds ==
  Spec => []WellFormed
BY Invariant, Shaped, PTL

\* Deferred credit is learned by the edge that was retrieved, through every
\* renumbering of edges, whatever fails - unless old traces were left behind a
\* rewrite or ids were given out again.
THEOREM CreditLandsRight ==
  Spec => []CreditLands
<1>1. IInv => CreditLands
  BY DEF IInv, Memory, LandsInMemory, CreditLands
<1> QED
  BY <1>1, Invariant, PTL

\* A credit that was answered stays with its edge, in memory and in the
\* sidecar, while the edge is in the log.
THEOREM CreditStays ==
  Spec => []CreditKept
<1>1. ASSUME IInv PROVE CreditKept
  <2>1. KeptInMemory /\ KeptOnDisk /\ LogInGraph
    BY <1>1 DEF IInv, Memory, Sidecar
  <2>2. ASSUME NEW c \in credited, c[2] \in OpenEdges(log)
        PROVE c[2] \in DOMAIN sidecar /\ c[1] \in sidecar[c[2]].lessons
    <3>1. PICK i \in DOMAIN log : log[i].edge = c[2]
      BY <2>2 DEF OpenEdges
    <3>2. PICK j \in DOMAIN graph : graph[j].edge = c[2]
      BY <2>1, <3>1 DEF LogInGraph
    <3> QED
      BY <2>1, <3>2 DEF KeptOnDisk
  <2> QED
    BY <2>1, <2>2 DEF CreditKept, KeptInMemory
<1> QED
  BY <1>1, Invariant, PTL

\* A trace that was answered and is still in the map can be read again after a
\* restart, but for at most one behind each torn append.
THEOREM TracesStayOnDisk ==
  Spec => []TracesOnDisk
<1>1. IInv => TracesOnDisk
  BY DEF IInv, Store
<1> QED
  BY <1>1, Invariant, PTL
=============================================================================
